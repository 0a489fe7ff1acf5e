--------------------------- MODULE NetworkUdpProofs --------------------------
(* Theorems about CircularBuffer and NetworkUdp, for every kind of byte, size, *)
(* block and datagram: the indexes of a cbuf stay where its copies are         *)
(* defined, it implements the queue of ByteQueue, alone and in a sketch that   *)
(* fills it from a socket; and packets are sent as written and read as         *)
(* received.                                                                   *)
EXTENDS NetworkUdp, SequenceTheorems, NaturalsInduction, WellFoundedInduction, TLAPS

-----------------------------------------------------------------------------
(* The inductive invariant of the cbuf.                                      *)

\* An index may equal the size after a block call that ends there.  writePos
\* does so only when readPos has left the start, and readPos only when
\* writePos has: the ring would seem to hold as many bytes as it has slots, or
\* not to be empty when nothing waits.
BufInv ==
    /\ size \in Nat /\ size >= 1
    /\ mem \in [0..size-1 -> Byte]
    /\ rd \in 0..size /\ wr \in 0..size
    /\ wr = size => rd >= 1
    /\ style \in Styles
    /\ style = "byte" => rd < size /\ wr < size
    /\ style # "byte" /\ wr = 0 => rd = 0
    /\ got \in Seq(Byte) /\ Len(got) <= MaxData

\* The slot of the k-th waiting byte.
Index(k) == Wrap(rd + k - 1)

USE BufferAssumption

\* How much waits and fits, and where the k-th waiting byte lies.
LEMMA BufFacts ==
    ASSUME BufInv
    PROVE  /\ Available \in 0..size-1 /\ Available \in Nat /\ size \in Nat
           /\ Room = size - 1 - Available /\ Room \in 0..size-1
           /\ Available = 0 <=> Empty
           /\ \A k \in 1..Available : Index(k) \in 0..size-1
           /\ Contents \in Seq(Byte) /\ Len(Contents) = Available
           /\ \A k \in 1..Available : Contents[k] = mem[Index(k)]
<1>1. /\ Available \in 0..size-1 /\ Available \in Nat /\ size \in Nat
      /\ Room = size - 1 - Available /\ Room \in 0..size-1
  BY DEF BufInv, Available, Room
<1>2. Available = 0 <=> Empty
  BY DEF BufInv, Available, Empty
<1>3. \A k \in 1..Available : Index(k) \in 0..size-1
  BY <1>1 DEF BufInv, Available, Wrap, Index
<1>4. \A k \in 1..Available : mem[Index(k)] \in Byte
  BY <1>3 DEF BufInv
<1>5. Contents \in Seq(Byte) /\ Len(Contents) = Available
  BY <1>1, <1>4 DEF Contents, Index
<1>6. \A k \in 1..Available : Contents[k] = mem[Index(k)]
  BY DEF Contents, Index
<1> QED BY <1>1, <1>2, <1>3, <1>5, <1>6

\* Two sequences with the same elements.
LEMMA SameSeq ==
    ASSUME NEW s \in Seq(Byte), NEW t \in Seq(Byte), Len(s) = Len(t),
           \A k \in 1..Len(s) : s[k] = t[k]
    PROVE  s = t
OBVIOUS

LEMMA SubSeqFacts ==
    ASSUME NEW s \in Seq(Byte), NEW m \in 1..Len(s)+1, NEW n \in m-1..Len(s)
    PROVE  /\ SubSeq(s, m, n) \in Seq(Byte) /\ Len(SubSeq(s, m, n)) = n - m + 1
           /\ \A k \in 1..n-m+1 : SubSeq(s, m, n)[k] = s[m + k - 1]
OBVIOUS

LEMMA ConcatFacts ==
    ASSUME NEW s \in Seq(Byte), NEW t \in Seq(Byte)
    PROVE  /\ s \o t \in Seq(Byte) /\ Len(s \o t) = Len(s) + Len(t)
           /\ \A k \in 1..Len(s) : (s \o t)[k] = s[k]
           /\ \A k \in 1..Len(t) : (s \o t)[Len(s) + k] = t[k]
OBVIOUS

LEMMA BlockType ==
    ASSUME NEW data \in Data
    PROVE  data \in Seq(Byte) /\ Len(data) \in 0..MaxData
BY DEF Data

-----------------------------------------------------------------------------
(* What a write, a read and a resize do to the contents, said once for all   *)
(* the calls: n bytes of data behind the contents, k bytes off their front.  *)

LEMMA Written ==
    ASSUME BufInv, NEW data \in Seq(Byte), NEW n \in 0..Room, n <= Len(data),
           BufInv', UNCHANGED <<rd, size>>, Available' = Available + n,
           \A k \in 1..Available : mem'[Index(k)] = mem[Index(k)],
           \A k \in 1..n : mem'[Index(Available + k)] = data[k]
    PROVE  Contents' = Contents \o SubSeq(data, 1, n)
<1>1. /\ Contents \in Seq(Byte) /\ Len(Contents) = Available /\ Available \in Nat
      /\ \A k \in 1..Available : Contents[k] = mem[Index(k)]
      /\ n \in Nat /\ Room \in Nat
  BY BufFacts
<1>2. /\ Contents' \in Seq(Byte) /\ Len(Contents') = Available + n
      /\ \A k \in 1..Available + n : Contents'[k] = mem'[Index(k)]
  <2>1. (BufInv => /\ Contents \in Seq(Byte) /\ Len(Contents) = Available
                   /\ \A k \in 1..Available : Contents[k] = mem[Index(k)])'
    BY BufFacts, PTL
  <2>2. \A k : Index(k)' = Index(k)
    BY DEF Index, Wrap
  <2> QED BY <2>1, <2>2
<1> DEFINE part == SubSeq(data, 1, n)
<1>3. /\ part \in Seq(Byte) /\ Len(part) = n
      /\ \A k \in 1..n : part[k] = data[k]
  BY <1>1, SubSeqFacts
<1> HIDE DEF part
<1> DEFINE both == Contents \o part
<1>4. /\ both \in Seq(Byte) /\ Len(both) = Available + n
      /\ \A k \in 1..Available : both[k] = Contents[k]
      /\ \A k \in 1..n : both[Available + k] = data[k]
  BY ZenonT(40), <1>1, <1>3, ConcatFacts
<1> HIDE DEF both
<1>5. ASSUME NEW k \in 1..Available + n PROVE Contents'[k] = both[k]
  <2>1. CASE k <= Available
    <3>1. k \in 1..Available
      BY <1>1, <2>1
    <3> QED BY ZenonT(40), <1>1, <1>2, <1>4, <3>1
  <2>2. CASE k > Available
    <3>0. k - Available \in 1..n /\ k = Available + (k - Available)
      BY <1>1, <2>2
    <3>1. PICK j \in 1..n : k = Available + j
      BY <3>0
    <3>2. Contents'[k] = mem'[Index(Available + j)]
      BY <1>2, <3>1
    <3> QED BY <1>4, <3>1, <3>2
  <2> QED BY <1>1, <2>1, <2>2
<1>6. Contents' = both
  BY <1>1, <1>2, <1>4, <1>5, SameSeq
<1> QED BY <1>6 DEF both, part

LEMMA TakenOff ==
    ASSUME BufInv, NEW n \in 0..Available,
           BufInv', UNCHANGED <<mem, size>>, Available' = Available - n,
           \A k \in 1..Available - n : Index(k)' = Index(n + k)
    PROVE  Contents' = SubSeq(Contents, n + 1, Len(Contents))
<1>1. /\ Contents \in Seq(Byte) /\ Len(Contents) = Available /\ Available \in Nat
      /\ \A k \in 1..Available : Contents[k] = mem[Index(k)]
      /\ n \in Nat /\ n <= Available
  BY BufFacts
<1>2. /\ Contents' \in Seq(Byte) /\ Len(Contents') = Available - n
      /\ \A k \in 1..Available - n : Contents'[k] = mem[Index(n + k)]
  <2>1. (BufInv => /\ Contents \in Seq(Byte) /\ Len(Contents) = Available
                   /\ \A k \in 1..Available : Contents[k] = mem[Index(k)])'
    BY BufFacts, PTL
  <2> QED BY <2>1
<1> DEFINE rest == SubSeq(Contents, n + 1, Len(Contents))
<1>3. /\ rest \in Seq(Byte) /\ Len(rest) = Available - n
      /\ \A k \in 1..Available - n : rest[k] = Contents[n + k]
  <2>1. n + 1 \in 1..Len(Contents) + 1 /\ Len(Contents) \in (n + 1) - 1..Len(Contents)
    BY <1>1
  <2>2. \A k \in 1..Available - n : (n + 1) + k - 1 = n + k
    BY <1>1
  <2>3. Len(Contents) - (n + 1) + 1 = Available - n
    BY <1>1
  <2> QED BY <1>1, <2>1, <2>2, <2>3, SubSeqFacts
<1> HIDE DEF rest
<1>4. ASSUME NEW k \in 1..Available - n PROVE Contents'[k] = rest[k]
  <2>1. n + k \in 1..Available
    BY <1>1
  <2> QED BY <1>1, <1>2, <1>3, <2>1
<1>5. Contents' = rest
  BY <1>1, <1>2, <1>3, <1>4, SameSeq
<1> QED BY <1>5 DEF rest

LEMMA Kept ==
    ASSUME BufInv, BufInv', Available' = Available,
           \A k \in 1..Available : mem'[Index(k)'] = mem[Index(k)]
    PROVE  Contents' = Contents
BY DEF Contents, Index

-----------------------------------------------------------------------------
(* One lemma for each call: the invariant is kept, and the call is one of    *)
(* the queue.                                                                *)

Refines == BufInv' /\ [Queue!Next]_(Queue!vars)

LEMMA Least ==
    ASSUME NEW a \in Nat, NEW b \in Nat
    PROVE  /\ Lesser(a, b) \in Nat /\ Lesser(a, b) <= a /\ Lesser(a, b) <= b
           /\ Lesser(a, b) = a \/ Lesser(a, b) = b
           /\ Queue!Lesser(a, b) = Lesser(a, b)
BY DEF Lesser, Queue!Lesser

\* A write is a Put.
LEMMA PutStep ==
    ASSUME BufInv, NEW data \in Data, got' = <<>>, size' = size,
           Contents' = Contents \o SubSeq(data, 1, Lesser(Len(data), Room))
    PROVE  Queue!Next
<1>1. data \in Queue!Data
  BY DEF Data, Queue!Data
<1>2. (size - 1) - Len(Contents) = Room /\ Room \in Nat
  BY BufFacts
<1>3. Queue!Lesser(Len(data), (size - 1) - Len(Contents)) = Lesser(Len(data), Room)
  BY <1>2, BlockType, Least
<1>4. Queue!Put(data)
  BY <1>3 DEF Queue!Put
<1> QED BY <1>1, <1>4 DEF Queue!Next

\* Slots behind the contents, in the order they fill, are free.
LEMMA FreeSlots ==
    ASSUME BufInv, NEW j \in 1..Room
    PROVE  /\ Index(Available + j) = Wrap(wr + j - 1)
           /\ Wrap(wr + j - 1) \in 0..size-1
           /\ \A k \in 1..Available : Index(k) # Wrap(wr + j - 1)
BY DEF BufInv, Available, Room, Index, Wrap

LEMMA ByteWritten ==
    ASSUME BufInv, NEW c \in Byte, WriteByte(c)
    PROVE  Refines
<1>0. PICK data \in Data : data \in Seq(Byte) /\ Len(data) = 1 /\ data[1] = c
  <2>1. <<c>> \in [1..1 -> Byte] /\ 1 \in 0..MaxData
    OBVIOUS
  <2>2. <<c>> \in Data
    BY <2>1 DEF Data
  <2> QED BY <2>2
<1>1. /\ style = "byte" /\ got' = <<>> /\ UNCHANGED <<size, rd, style>>
      /\ rd < size /\ wr < size
  BY DEF WriteByte, BufInv
<1>2. Room \in Nat /\ Contents \in Seq(Byte) /\ Available \in Nat
  BY BufFacts
<1>3. CASE Room = 0
  <2>1. UNCHANGED <<mem, wr>> /\ BufInv'
    BY <1>1, <1>3 DEF WriteByte, BufInv
  <2>2. Contents' = Contents
    BY <1>1, <2>1 DEF Contents, Available, Wrap
  <2>3. Lesser(1, Room) = 0
    BY <1>3 DEF Lesser
  <2>4. Contents \o SubSeq(data, 1, 0) = Contents
    BY <1>0, <1>2
  <2> QED BY <1>0, <1>1, <2>1, <2>2, <2>3, <2>4, PutStep DEF Refines
<1>4. CASE Room # 0
  <2>1. mem' = [mem EXCEPT ![wr] = c] /\ wr' = Wrap(wr + 1) /\ 1 \in 1..Room
    BY <1>2, <1>4 DEF WriteByte
  <2>2. wr' \in 0..size-1 /\ mem' \in [0..size-1 -> Byte] /\ BufInv'
    BY <1>1, <2>1 DEF BufInv, Wrap
  <2>3. Available' = Available + 1
    BY <1>1, <1>4, <2>1 DEF BufInv, Available, Room, Wrap
  <2>4. /\ Index(Available + 1) = wr
        /\ \A k \in 1..Available : Index(k) # wr /\ Index(k) \in 0..size-1
    <3>1. Wrap(wr + 1 - 1) = wr
      BY <1>1 DEF BufInv, Wrap
    <3> QED BY <2>1, <3>1, FreeSlots, BufFacts
  <2>5. /\ \A k \in 1..Available : mem'[Index(k)] = mem[Index(k)]
        /\ mem'[Index(Available + 1)] = c
    BY <1>1, <2>1, <2>4 DEF BufInv
  <2>6. Contents' = Contents \o SubSeq(data, 1, 1)
    <3>1. \A k \in 1..1 : mem'[Index(Available + k)] = data[k]
      BY <1>0, <2>5
    <3>2. 1 \in 0..Room /\ 1 <= Len(data)
      BY <1>0, <1>2, <2>1
    <3> QED BY <1>0, <1>1, <2>2, <2>3, <2>5, <3>1, <3>2, Written
  <2>7. Lesser(1, Room) = 1
    BY <1>2, <1>4 DEF Lesser
  <2> QED BY <1>0, <1>1, <2>2, <2>6, <2>7, PutStep DEF Refines
<1> QED BY <1>3, <1>4

LEMMA BlockWritten ==
    ASSUME BufInv, NEW data \in Data, WriteBlock(data)
    PROVE  Refines
<1> DEFINE n     == Lesser(Len(data), Room)
           first == Lesser(n, size - wr)
<1>1. /\ style = "block" /\ got' = <<>> /\ UNCHANGED <<size, rd, style>>
      /\ mem' = Copy(Copy(mem, wr, data, 1, first), 0, data, first + 1, n - first)
      /\ wr' = IF wr + n <= size THEN wr + n ELSE n - first
  BY DEF WriteBlock
<1>2. /\ Room \in Nat /\ Available \in Nat /\ size \in Nat /\ Room = size - 1 - Available
      /\ wr \in 0..size /\ rd \in 0..size /\ size - wr \in Nat
      /\ data \in Seq(Byte) /\ Len(data) \in Nat
  BY BufFacts, BlockType DEF BufInv
<1>3. n \in Nat /\ n <= Room /\ n <= Len(data) /\ n \in 0..Room
  <2>1. n \in Nat /\ n <= Room /\ n <= Len(data)
    BY <1>2, Least
  <2> HIDE DEF n
  <2> QED BY <1>2, <2>1
<1>4. first \in Nat /\ first <= n /\ first <= size - wr /\ (first = n \/ first = size - wr)
  BY <1>2, <1>3, Least
<1> HIDE DEF n, first
<1>5. \A i \in 0..size-1 : mem'[i] = IF i < n - first THEN data[first + 1 + i]
                                    ELSE IF wr <= i /\ i < wr + first THEN data[1 + i - wr]
                                    ELSE mem[i]
  <2>1. DOMAIN mem = 0..size-1
    BY DEF BufInv
  <2> QED BY <1>1, <1>2, <1>3, <1>4, <2>1 DEF Copy
<1>6. mem' \in [0..size-1 -> Byte]
  <2>1. DOMAIN mem' = 0..size-1 /\ mem' = [i \in 0..size-1 |-> mem'[i]]
    BY <1>1 DEF Copy, BufInv
  <2>2. ASSUME NEW i \in 0..size-1 PROVE mem'[i] \in Byte
    <3>1. CASE i < n - first
      <4>1. first + 1 + i \in 1..Len(data)
        BY <1>2, <1>3, <1>4, <3>1
      <4> QED BY <1>2, <1>5, <3>1, <4>1
    <3>2. CASE ~(i < n - first) /\ wr <= i /\ i < wr + first
      <4>1. 1 + i - wr \in 1..Len(data)
        BY <1>2, <1>3, <1>4, <3>2
      <4> QED BY <1>2, <1>5, <3>2, <4>1
    <3>3. CASE ~(i < n - first) /\ ~(wr <= i /\ i < wr + first)
      BY <1>5, <3>3 DEF BufInv
    <3> QED BY <3>1, <3>2, <3>3
  <2> QED BY <2>1, <2>2
<1>7. /\ wr' \in 0..size /\ (wr' = size => rd >= 1) /\ (wr' = 0 => rd = 0)
      /\ Available' = Available + n
  BY <1>1, <1>2, <1>3, <1>4 DEF BufInv, Available
<1>8. BufInv'
  <2>1. got' \in Seq(Byte) /\ Len(got') <= MaxData
    BY <1>1
  <2> QED BY <1>1, <1>6, <1>7, <2>1 DEF BufInv
<1>9. \A k \in 1..Available : mem'[Index(k)] = mem[Index(k)]
  <2>1. ASSUME NEW k \in 1..Available
        PROVE  /\ Index(k) \in 0..size-1 /\ ~(Index(k) < n - first)
               /\ ~(wr <= Index(k) /\ Index(k) < wr + first)
    BY <1>2, <1>3, <1>4 DEF Index, Wrap, Available, BufInv
  <2> QED BY <1>5, <2>1
<1>10. \A k \in 1..n : mem'[Index(Available + k)] = data[k]
  <2>1. ASSUME NEW k \in 1..n, k <= first
        PROVE  mem'[Index(Available + k)] = data[k]
    <3>0. k \in 1..Room /\ wr + k - 1 < size
      BY <1>2, <1>3, <1>4, <2>1
    <3>1. Index(Available + k) = wr + k - 1
      BY <3>0, FreeSlots DEF Wrap
    <3>2. /\ wr + k - 1 \in 0..size-1 /\ ~(wr + k - 1 < n - first)
          /\ wr + k - 1 < wr + first /\ wr <= wr + k - 1
          /\ 1 + (wr + k - 1) - wr = k
      BY <1>2, <1>3, <1>4, <2>1 DEF Available
    <3> QED BY <1>5, <3>1, <3>2
  <2>2. ASSUME NEW k \in 1..n, ~(k <= first)
        PROVE  mem'[Index(Available + k)] = data[k]
    <3>0. /\ k \in 1..Room /\ ~(wr + k - 1 < size)
          /\ (wr + k - 1) - size = k - first - 1
      BY <1>2, <1>3, <1>4, <2>2
    <3>1. Index(Available + k) = k - first - 1
      BY <3>0, FreeSlots DEF Wrap
    <3>2. /\ k - first - 1 \in 0..size-1 /\ k - first - 1 < n - first
          /\ first + 1 + (k - first - 1) = k
      BY <1>2, <1>3, <1>4, <2>2
    <3> QED BY <1>5, <3>1, <3>2
  <2> QED BY <2>1, <2>2
<1>11. Contents' = Contents \o SubSeq(data, 1, n)
  BY <1>1, <1>2, <1>3, <1>7, <1>8, <1>9, <1>10, Written
<1> QED BY <1>1, <1>8, <1>11, PutStep DEF Refines, n

IndexRule ==
    \A k \in Nat : /\ rd + k <= size => Index(k) = rd + k - 1
                   /\ rd + k > size => Index(k) = rd + k - 1 - size

LEMMA IndexNow == size \in Nat /\ rd \in 0..size => IndexRule
BY DEF Index, Wrap, IndexRule

LEMMA IndexNext ==
    ASSUME size \in Nat, UNCHANGED size, rd' \in 0..size
    PROVE  IndexRule'
<1>1. (size \in Nat /\ rd \in 0..size => IndexRule)'
  BY IndexNow, PTL
<1> QED BY <1>1

\* Moving readPos over n waiting bytes takes them off the front.
LEMMA Advanced ==
    ASSUME BufInv, NEW n \in 0..Available, UNCHANGED <<mem, size, wr, style>>,
           rd' \in 0..size, rd' = rd + n \/ rd' = rd + n - size,
           style = "byte" => rd' < size,
           style # "byte" /\ rd' # rd + n => rd' >= 1,
           got' \in Seq(Byte), Len(got') <= MaxData
    PROVE  BufInv' /\ Contents' = SubSeq(Contents, n + 1, Len(Contents))
<1>1. /\ size \in Nat /\ size >= 1 /\ rd \in 0..size /\ wr \in 0..size /\ n \in Nat
      /\ n <= Available /\ rd' \in 0..size
      /\ wr = size => rd >= 1 /\ style # "byte"
      /\ style # "byte" /\ wr = 0 => rd = 0
  BY BufFacts DEF BufInv
<1>2. Available' = Available - n
  <2>1. CASE rd' = rd + n
    BY <1>1, <2>1 DEF Available
  <2>2. CASE rd' # rd + n
    <3>1. rd' = rd + n - size
      BY <2>2
    <3>2. wr < rd
      BY <1>1, <2>2, <3>1 DEF Available
    <3> QED BY <1>1, <3>1, <3>2 DEF Available
  <2> QED BY <2>1, <2>2
<1>3. BufInv'
  <2>1. wr = size => rd' >= 1
    BY <1>1 DEF Available
  <2>2. style # "byte" /\ wr = 0 => rd' = 0
    BY <1>1 DEF Available
  <2> QED BY <2>1, <2>2 DEF BufInv
<1>4. ASSUME NEW k \in 1..Available - n
      PROVE  Index(k)' = Index(n + k)
  <2>0. k \in Nat /\ k >= 1 /\ k <= Available - n /\ Available \in Nat
    BY <1>1, BufFacts
  <2>1. /\ rd' + k <= size => Index(k)' = rd' + k - 1
        /\ rd' + k > size => Index(k)' = rd' + k - 1 - size
    <3>1. IndexRule' /\ size' = size
      BY <1>1, IndexNext
    <3> QED BY <2>0, <3>1 DEF IndexRule
  <2>2. /\ rd + (n + k) <= size => Index(n + k) = rd + (n + k) - 1
        /\ rd + (n + k) > size => Index(n + k) = rd + (n + k) - 1 - size
    <3>1. n + k \in Nat
      BY <1>1, <2>0
    <3> QED BY <1>1, <3>1, IndexNow DEF IndexRule
  <2>4. CASE rd' = rd + n
    BY <1>1, <2>1, <2>2, <2>0, <2>4
  <2>5. CASE rd' # rd + n
    <3>1. rd' = rd + n - size
      BY <2>5
    <3>2. rd' + k - 1 < size
      BY <1>1, <2>0, <2>5, <3>1 DEF Available
    <3> QED BY <1>1, <2>1, <2>2, <2>0, <3>1, <3>2
  <2> QED BY <2>4, <2>5
<1> QED BY <1>2, <1>3, <1>4, TakenOff

\* A read is a Get, dropping bytes a Remove.
LEMMA GetStep ==
    ASSUME BufInv, NEW n \in 0..MaxData, size' = size,
           got' = SubSeq(Contents, 1, Lesser(n, Available)) \/ got' = <<>>,
           Contents' = SubSeq(Contents, Lesser(n, Available) + 1, Len(Contents))
    PROVE  Queue!Next
<1>1. Len(Contents) = Available /\ Available \in Nat /\ n \in Nat
  BY BufFacts
<1>2. Queue!Lesser(n, Len(Contents)) = Lesser(n, Available)
  BY <1>1, Least
<1>3. Queue!Get(n) \/ Queue!Remove(n)
  BY <1>2 DEF Queue!Get, Queue!Remove
<1> QED BY <1>3 DEF Queue!Next

\* The front of the contents, as a read copies it.
LEMMA FrontDropped ==
    ASSUME BufInv, NEW n \in 0..Available, NEW s,
           s = [k \in 1..n |-> mem[Index(k)]]
    PROVE  s = SubSeq(Contents, 1, n) /\ s \in Seq(Byte) /\ Len(s) = n
<1>1. /\ Contents \in Seq(Byte) /\ Len(Contents) = Available /\ Available \in Nat
      /\ \A k \in 1..Available : Contents[k] = mem[Index(k)] /\ Index(k) \in 0..size-1
      /\ mem \in [0..size-1 -> Byte] /\ n \in Nat /\ n <= Available
  BY BufFacts DEF BufInv
<1>2. s \in Seq(Byte) /\ Len(s) = n
  <2>1. \A k \in 1..n : mem[Index(k)] \in Byte
    BY <1>1
  <2> QED BY <1>1, <2>1
<1> DEFINE front == SubSeq(Contents, 1, n)
<1>3. /\ front \in Seq(Byte) /\ Len(front) = n
      /\ \A k \in 1..n : front[k] = Contents[k]
  BY <1>1, SubSeqFacts
<1> HIDE DEF front
<1>4. \A k \in 1..n : s[k] = front[k]
  BY <1>1, <1>3
<1>5. s = front
  BY <1>2, <1>3, <1>4, SameSeq
<1> QED BY <1>2, <1>5 DEF front

LEMMA ByteTaken ==
    ASSUME BufInv, ReadByte
    PROVE  Refines
<1>1. /\ style = "byte" /\ UNCHANGED <<mem, size, wr, style>> /\ rd < size /\ rd \in Nat
      /\ size \in Nat
  BY DEF ReadByte, BufInv
<1>2. Available \in 0..size-1 /\ Available \in Nat /\ (Available = 0 <=> Empty)
      /\ 1 \in 0..MaxData /\ Contents \in Seq(Byte) /\ Len(Contents) = Available
  BY BufFacts
<1>3. CASE Empty
  <2>1. got' = <<>> /\ rd' = rd /\ rd' = rd + 0 /\ rd' \in 0..size
    BY <1>1, <1>3 DEF ReadByte
  <2>2. BufInv' /\ Contents' = SubSeq(Contents, 0 + 1, Len(Contents))
    <3>1. 0 \in 0..Available /\ got' \in Seq(Byte) /\ Len(got') <= MaxData
      BY <1>2, <2>1
    <3> QED BY <1>1, <2>1, <3>1, Advanced
  <2>3. Lesser(1, Available) = 0
    BY <1>2, <1>3 DEF Lesser
  <2> QED BY <1>1, <1>2, <2>1, <2>2, <2>3, GetStep DEF Refines
<1>4. CASE ~Empty
  <2>1. got' = <<mem[rd]>> /\ rd' = Wrap(rd + 1) /\ 1 \in 0..Available
    BY <1>2, <1>4 DEF ReadByte
  <2>2. Index(1) = rd
    BY <1>1 DEF Index, Wrap
  <2>3. got' = SubSeq(Contents, 1, 1) /\ got' \in Seq(Byte) /\ Len(got') = 1
    <3>1. got' = [k \in 1..1 |-> mem[Index(k)]]
      BY <2>1, <2>2
    <3> QED BY <2>1, <3>1, FrontDropped
  <2>4. BufInv' /\ Contents' = SubSeq(Contents, 1 + 1, Len(Contents))
    <3>1. rd' \in 0..size /\ rd' < size /\ (rd' = rd + 1 \/ rd' = rd + 1 - size)
      BY <1>1, <2>1 DEF Wrap
    <3> QED BY <1>1, <1>2, <2>1, <2>3, <3>1, Advanced
  <2>5. Lesser(1, Available) = 1
    BY <2>1 DEF Lesser
  <2> QED BY <1>1, <1>2, <2>3, <2>4, <2>5, GetStep DEF Refines
<1> QED BY <1>3, <1>4

LEMMA BytesRemoved ==
    ASSUME BufInv, NEW n \in 0..MaxData, RemoveBytes(n)
    PROVE  Refines
<1>1. /\ style = "byte" /\ UNCHANGED <<mem, size, wr, style>> /\ got' = <<>>
      /\ rd' = Wrap(rd + Lesser(n, Available))
  BY DEF RemoveBytes
<1> DEFINE k == Lesser(n, Available)
<1>2. k \in 0..Available /\ Available \in 0..size-1
  <2>1. Available \in Nat /\ n \in Nat
    BY BufFacts
  <2>2. k \in Nat /\ k <= Available
    BY <2>1, Least
  <2> HIDE DEF k
  <2> QED BY <2>1, <2>2, BufFacts
<1>3. rd' = Wrap(rd + k)
  BY <1>1
<1> HIDE DEF k
<1>4. BufInv' /\ Contents' = SubSeq(Contents, k + 1, Len(Contents))
  <2>1. got' \in Seq(Byte) /\ Len(got') <= MaxData
    BY <1>1
  <2>2. size \in Nat /\ size >= 1 /\ rd \in 0..size-1 /\ k \in 0..size-1
    BY <1>1, <1>2, BufFacts DEF BufInv
  <2>3. rd' \in 0..size /\ rd' < size /\ (rd' = rd + k \/ rd' = rd + k - size)
    BY <1>3, <2>2 DEF Wrap
  <2> QED BY <1>1, <1>2, <2>1, <2>3, Advanced
<1> QED BY <1>1, <1>4, GetStep DEF Refines, k

LEMMA BlockTaken ==
    ASSUME BufInv, NEW n \in 0..MaxData, ReadBlock(n)
    PROVE  Refines
<1> DEFINE k     == Lesser(n, Available)
           first == Lesser(k, size - rd)
<1>1. /\ style = "block" /\ UNCHANGED <<mem, size, wr, style>>
      /\ got' = [i \in 1..k |-> IF i <= first THEN mem[rd + i - 1] ELSE mem[i - first - 1]]
      /\ rd' = IF rd + k <= size THEN rd + k ELSE k - first
  BY DEF ReadBlock
<1>2. /\ size \in Nat /\ rd \in 0..size /\ wr \in 0..size /\ size - rd \in Nat
      /\ Available \in 0..size-1 /\ Available \in Nat
  BY BufFacts DEF BufInv
<1>3. k \in Nat /\ k <= Available /\ k <= n /\ n <= MaxData /\ n \in Nat
  <2>1. n \in Nat /\ n <= MaxData
    OBVIOUS
  <2> QED BY <1>2, <2>1, Least
<1>4. first \in Nat /\ first <= k /\ first <= size - rd /\ (first = k \/ first = size - rd)
  <2> HIDE DEF k
  <2> QED BY <1>2, <1>3, Least
<1> HIDE DEF k, first
<1>5. ASSUME NEW i \in 1..k
      PROVE  Index(i) = IF i <= first THEN rd + i - 1 ELSE i - first - 1
  BY <1>2, <1>3, <1>4 DEF Index, Wrap
<1>6. got' = SubSeq(Contents, 1, k) /\ got' \in Seq(Byte) /\ Len(got') = k
  <2>1. got' = [i \in 1..k |-> mem[Index(i)]]
    BY <1>1, <1>5
  <2>2. k \in 0..Available
    BY <1>2, <1>3
  <2> QED BY <2>1, <2>2, FrontDropped
<1>7. BufInv' /\ Contents' = SubSeq(Contents, k + 1, Len(Contents))
  <2>1. k \in 0..Available /\ Len(got') <= MaxData
    BY <1>2, <1>3, <1>6
  <2>2. /\ rd' \in 0..size /\ (rd' = rd + k \/ rd' = rd + k - size)
        /\ rd' # rd + k => rd' >= 1
    BY <1>1, <1>2, <1>3, <1>4
  <2> QED BY <1>1, <1>6, <2>1, <2>2, Advanced
<1> QED BY <1>1, <1>6, <1>7, GetStep DEF Refines, k

LEMMA Flushed ==
    ASSUME BufInv, FlushBuffer
    PROVE  Refines
<1>1. rd' = 0 /\ wr' = 0 /\ got' = <<>> /\ UNCHANGED <<mem, size, style>>
  BY DEF FlushBuffer
<1>2. BufInv'
  BY <1>1 DEF BufInv
<1>3. Available' = 0
  BY <1>1 DEF Available
<1>4. Contents' = <<>>
  BY <1>3 DEF Contents
<1> QED BY <1>1, <1>2, <1>4 DEF Refines, Queue!Next, Queue!Flush

\* Copying the part behind readPos to the new end, or all of it to the start,
\* moves each waiting byte with its index.
LEMMA Grown ==
    ASSUME BufInv, NEW n \in 1..MaxSize, ResizeAdd(n)
    PROVE  Refines
<1> DEFINE N == size + n
<1>1. got' = <<>> /\ style' = style /\ style # "none"
  BY DEF ResizeAdd
<1>2. /\ size \in Nat /\ size >= 1 /\ rd \in 0..size /\ wr \in 0..size /\ n \in Nat /\ n >= 1
      /\ Available \in 0..size-1 /\ Available \in Nat
  BY BufFacts DEF BufInv
<1>3. CASE UNCHANGED <<mem, size, rd, wr>>
  <2>1. BufInv'
    BY <1>1, <1>3 DEF BufInv
  <2>2. Contents' = Contents
    BY <1>3 DEF Contents, Available, Wrap
  <2>3. Queue!Grow
    BY <1>1, <1>2, <1>3, <2>2 DEF Queue!Grow
  <2> QED BY <2>1, <2>3 DEF Refines, Queue!Next
<1>4. ASSUME NEW new \in [0..(size + n - 1) -> Byte],
             \A i \in 0..(size - 1) : new[i] = mem[i], Resized(size + n, new)
      PROVE  Refines
  <2>1. size' = N /\ N \in Nat /\ N > size /\ DOMAIN new = 0..N-1
    BY <1>2, <1>4 DEF Resized
  <2> DEFINE first == size - rd
  <2>2. ASSUME rd > wr
        PROVE  /\ mem' \in [0..N-1 -> Byte] /\ rd' \in 0..N /\ rd' = N - first /\ wr' = wr
               /\ Available' = Available
               /\ \A k \in 1..Available : mem'[Index(k)'] = mem[Index(k)]
    <3>1. /\ mem' = Copy(new, N - first, new, rd, first) /\ rd' = N - first /\ wr' = wr
          /\ first \in Nat /\ rd' \in 0..N /\ rd' > wr
      BY <1>2, <1>4, <2>1, <2>2 DEF Resized
    <3>2. \A i \in 0..N-1 : mem'[i] = IF i >= N - first THEN new[rd + i - (N - first)]
                                      ELSE new[i]
      BY <1>2, <2>1, <3>1 DEF Copy
    <3>3. mem' \in [0..N-1 -> Byte]
      <4>1. \A i \in 0..N-1 : i >= N - first => rd + i - (N - first) \in 0..N-1
        BY <1>2, <2>1, <3>1
      <4>2. \A i \in 0..N-1 : mem'[i] \in Byte
        BY <1>4, <2>1, <3>2, <4>1
      <4>3. mem' = [i \in 0..N-1 |-> mem'[i]]
        BY <2>1, <3>1 DEF Copy
      <4> QED BY <4>2, <4>3
    <3>4. Available' = Available
      BY <1>2, <2>1, <2>2, <3>1 DEF Available
    <3>5. ASSUME NEW k \in 1..Available
          PROVE  mem'[Index(k)'] = mem[Index(k)]
      <4>0. k \in Nat /\ k >= 1 /\ k <= Available /\ Available = size - rd + wr
        BY <1>2, <2>2 DEF Available
      <4>1. IndexRule /\ IndexRule'
        <5>1. IndexRule
          BY <1>2, IndexNow
        <5>2. (size \in Nat /\ rd \in 0..size => IndexRule)'
          BY IndexNow, PTL
        <5> QED BY <2>1, <3>1, <5>1, <5>2
      <4>2. CASE k <= first
        <5>1. Index(k) = rd + k - 1 /\ Index(k)' = N - first + k - 1
          BY <1>2, <2>1, <3>1, <4>0, <4>1, <4>2 DEF IndexRule
        <5>2. /\ Index(k)' \in 0..N-1 /\ Index(k)' >= N - first
              /\ rd + Index(k)' - (N - first) = Index(k) /\ Index(k) \in 0..size-1
          BY <1>2, <2>1, <3>1, <4>0, <4>2, <5>1
        <5> QED BY <1>4, <3>2, <5>2
      <4>3. CASE k > first
        <5>1. Index(k) = k - first - 1 /\ Index(k)' = k - first - 1
          BY <1>2, <2>1, <3>1, <4>0, <4>1, <4>3 DEF IndexRule
        <5>2. /\ Index(k)' \in 0..N-1 /\ ~(Index(k)' >= N - first)
              /\ Index(k) \in 0..size-1
          BY <1>2, <2>1, <2>2, <3>1, <4>0, <4>3, <5>1
        <5> QED BY <1>4, <3>2, <5>1, <5>2
      <4> QED BY <1>2, <3>1, <4>0, <4>2, <4>3
    <3> QED BY <3>1, <3>3, <3>4, <3>5
  <2>3. ASSUME ~(rd > wr)
        PROVE  /\ mem' \in [0..N-1 -> Byte] /\ rd' = 0 /\ wr' = Available
               /\ Available' = Available
               /\ \A k \in 1..Available : mem'[Index(k)'] = mem[Index(k)]
    <3>1. mem' = Copy(new, 0, new, rd, Available) /\ rd' = 0 /\ wr' = Available
      BY <1>4, <2>3 DEF Resized
    <3>2. /\ Available = wr - rd
          /\ \A i \in 0..N-1 : mem'[i] = IF i < Available THEN new[rd + i] ELSE new[i]
      <4>1. Available = wr - rd
        BY <1>2, <2>3 DEF Available
      <4>2. \A i \in 0..N-1 : mem'[i] = IF i \in 0..(0 + Available - 1) THEN new[rd + i - 0]
                                        ELSE new[i]
        BY <2>1, <3>1 DEF Copy
      <4>3. \A i \in 0..N-1 : /\ i \in 0..(0 + Available - 1) <=> i < Available
                              /\ rd + i - 0 = rd + i
        BY <1>2, <2>1
      <4> QED BY <4>1, <4>2, <4>3
    <3>3. mem' \in [0..N-1 -> Byte]
      <4>1. \A i \in 0..N-1 : i < Available => rd + i \in 0..N-1
        BY <1>2, <2>1, <3>2
      <4>2. \A i \in 0..N-1 : mem'[i] \in Byte
        BY <1>4, <2>1, <3>2, <4>1
      <4>3. mem' = [i \in 0..N-1 |-> mem'[i]]
        BY <2>1, <3>1 DEF Copy
      <4> QED BY <4>2, <4>3
    <3>4. Available' = Available
      BY <1>2, <3>1 DEF Available
    <3>5. ASSUME NEW k \in 1..Available
          PROVE  mem'[Index(k)'] = mem[Index(k)]
      <4>0. k \in Nat /\ k >= 1 /\ k <= Available
        BY <1>2
      <4>1. IndexRule /\ IndexRule'
        <5>1. IndexRule
          BY <1>2, IndexNow
        <5>2. (size \in Nat /\ rd \in 0..size => IndexRule)'
          BY IndexNow, PTL
        <5> QED BY <2>1, <3>1, <5>1, <5>2
      <4>2. Index(k) = rd + k - 1 /\ Index(k)' = k - 1
        BY <1>2, <2>1, <3>1, <3>2, <4>0, <4>1 DEF IndexRule
      <4>3. /\ k - 1 \in 0..N-1 /\ k - 1 < Available /\ rd + (k - 1) = rd + k - 1
            /\ rd + k - 1 \in 0..size-1
        BY <1>2, <2>1, <3>2, <4>0
      <4> QED BY <1>4, <3>2, <4>2, <4>3
    <3> QED BY <3>1, <3>3, <3>4, <3>5
  <2>4. BufInv'
    <3>1. N \in Nat /\ N >= 1
      BY <1>1, <1>2, <2>1
    <3>2. CASE rd > wr
      <4>1. /\ rd' \in 0..N /\ wr' \in 0..N /\ wr' # N
            /\ style' = "byte" => rd' < N /\ wr' < N
            /\ style' # "byte" /\ wr' = 0 => rd' = 0
        BY <1>1, <1>2, <2>1, <2>2, <3>2 DEF BufInv
      <4> QED BY <1>1, <2>1, <2>2, <3>1, <3>2, <4>1 DEF BufInv
    <3>3. CASE ~(rd > wr)
      <4>1. rd' = 0 /\ wr' \in 0..N /\ wr' < N
        BY <1>2, <2>1, <2>3, <3>3
      <4> QED BY <1>1, <2>1, <2>3, <3>1, <3>3, <4>1 DEF BufInv
    <3> QED BY <3>2, <3>3
  <2>5. Contents' = Contents
    BY <2>2, <2>3, <2>4, Kept
  <2>6. Queue!Grow
    BY <1>1, <1>2, <2>1, <2>5 DEF Queue!Grow
  <2> QED BY <2>4, <2>6 DEF Refines, Queue!Next
<1> QED BY <1>3, <1>4 DEF ResizeAdd

-----------------------------------------------------------------------------
(* The cbuf, by itself.                                                      *)

LEMMA InitBuf == BufInit => BufInv
<1> SUFFICES ASSUME BufInit PROVE BufInv
  OBVIOUS
<1>1. FirstSize \in Nat /\ FirstSize >= 1
  OBVIOUS
<1> QED BY <1>1 DEF BufInit, BufInv

LEMMA StepBuf == BufInv /\ [BufNext]_bufVars => Refines
<1> SUFFICES ASSUME BufInv, [BufNext]_bufVars PROVE Refines
  OBVIOUS
<1>1. CASE \E c \in Byte : WriteByte(c)
  BY <1>1, ByteWritten
<1>2. CASE ReadByte
  BY <1>2, ByteTaken
<1>3. CASE \E data \in Data : WriteBlock(data)
  BY <1>3, BlockWritten
<1>4. CASE \E n \in 0..MaxData : RemoveBytes(n) \/ ReadBlock(n)
  BY <1>4, BytesRemoved, BlockTaken
<1>5. CASE FlushBuffer
  BY <1>5, Flushed
<1>6. CASE \E n \in 1..MaxSize : ResizeAdd(n)
  BY <1>6, Grown
<1>7. CASE UNCHANGED bufVars
  <2>1. BufInv'
    BY <1>7 DEF BufInv, bufVars
  <2>2. Contents' = Contents
    BY <1>7 DEF Contents, Available, Wrap, bufVars
  <2> QED BY <1>7, <2>1, <2>2 DEF Refines, Queue!vars, bufVars
<1> QED BY <1>1, <1>2, <1>3, <1>4, <1>5, <1>6, <1>7 DEF BufNext

\* Every copy stays inside the memory and every index inside its range, for
\* each size the buffer is made with or grows to and each length of a block.
THEOREM BufferStaysInside == BufSpec => []BufInv
<1>1. BufInv /\ [BufNext]_bufVars => BufInv'
  BY StepBuf DEF Refines
<1> QED BY <1>1, InitBuf, PTL DEF BufSpec

\* cbuf is a queue of bytes, for each of these: every call appends, takes off
\* the front, empties or adds room, and never reorders or invents a byte.
THEOREM BufferIsQueue == BufSpec => QueueSpec
<1>1. BufInit => Queue!Init
  <2> SUFFICES ASSUME BufInit PROVE Queue!Init
    OBVIOUS
  <2>1. FirstSize \in Nat /\ FirstSize >= 1
    OBVIOUS
  <2>2. Available = 0
    BY DEF BufInit, Available
  <2>3. Contents = <<>>
    BY <2>2 DEF Contents
  <2> QED BY <2>1, <2>3 DEF BufInit, Queue!Init
<1>2. BufInv /\ [BufNext]_bufVars => [Queue!Next]_(Queue!vars)
  BY StepBuf DEF Refines
<1> QED BY <1>1, <1>2, BufferStaysInside, PTL DEF BufSpec, QueueSpec, Queue!Spec

-----------------------------------------------------------------------------
(* Sequences of datagrams.                                                   *)

\* Induction over the natural numbers, for a set of them.
LEMMA SetInduction ==
    ASSUME NEW S \in SUBSET Nat, 0 \in S, \A n \in S : n + 1 \in S
    PROVE  S = Nat
<1> DEFINE T == Nat \ S
<1>1. SUFFICES ASSUME T # {} PROVE FALSE
  OBVIOUS
<1>2. \E x \in T : \A y \in T : ~(<<y, x>> \in OpToRel(<, Nat))
  BY <1>1, WFMin, NatLessThanWellFounded
<1>3. PICK x \in T : \A y \in T : ~(y < x)
  BY <1>2 DEF OpToRel
<1>4. x # 0 /\ x - 1 \in Nat /\ x - 1 < x
  BY <1>3
<1>5. x - 1 \in S
  BY <1>3, <1>4
<1>6. (x - 1) + 1 = x
  BY <1>3, <1>4
<1> QED BY <1>3, <1>5, <1>6

\* What FlattenSeq makes of n sequences, one after the other.
Joins(g, s, n) == \A i \in 1..n : g[i] = IF i = 1 THEN s[i] ELSE g[i - 1] \o s[i]

LEMMA FlattenRuns ==
    ASSUME NEW s, NEW n \in Nat, n = Len(s), n # 0
    PROVE  \E g : FlattenSeq(s) = g[n] /\ Joins(g, s, n)
<1> DEFINE Runs(g, m) == g = [i \in 1..m |-> IF i = 1 THEN s[i] ELSE g[i - 1] \o s[i]]
           S == {m \in Nat : \E g : Runs(g, m)}
<1>1. 0 \in S
  <2>1. PICK g : g = [i \in 1..0 |-> <<>>]
    OBVIOUS
  <2>2. g = [i \in 1..0 |-> IF i = 1 THEN s[i] ELSE g[i - 1] \o s[i]]
    BY <2>1
  <2> QED BY <2>2
<1>2. ASSUME NEW m \in S PROVE m + 1 \in S
  <2>1. m \in Nat /\ m + 1 \in Nat
    OBVIOUS
  <2>2. PICK g : Runs(g, m)
    OBVIOUS
  <2>3. PICK next : next = IF m + 1 = 1 THEN s[m + 1] ELSE g[m] \o s[m + 1]
    OBVIOUS
  <2>4. PICK h : h = [i \in 1..(m + 1) |-> IF i = m + 1 THEN next ELSE g[i]]
    OBVIOUS
  <2>5. \A i \in 1..m : h[i] = g[i]
    BY <2>1, <2>4
  <2>6. h[m + 1] = next
    BY <2>1, <2>4
  <2>7. \A i \in 1..m : i # 1 => i - 1 \in 1..m
    BY <2>1
  <2>8. \A i \in 1..m : h[i] = IF i = 1 THEN s[i] ELSE h[i - 1] \o s[i]
    BY <2>1, <2>2, <2>5, <2>7
  <2>9. \A i \in 1..(m + 1) : h[i] = IF i = 1 THEN s[i] ELSE h[i - 1] \o s[i]
    <3>1. TAKE i \in 1..(m + 1)
    <3>2. CASE i \in 1..m
      BY <2>8, <3>2
    <3>3. CASE i = m + 1
      <4>1. CASE m = 0
        BY <2>3, <2>6, <3>3, <4>1
      <4>2. CASE m # 0
        <5>1. i # 1 /\ i - 1 = m /\ m \in 1..m
          BY <2>1, <3>3, <4>2
        <5>2. h[m] = g[m]
          BY <2>5, <5>1
        <5> QED BY <2>3, <2>6, <3>3, <5>1, <5>2
      <4> QED BY <4>1, <4>2
    <3> QED BY <2>1, <3>2, <3>3
  <2>10. h = [i \in 1..(m + 1) |-> h[i]]
    BY <2>4
  <2>11. Runs(h, m + 1)
    BY <2>9, <2>10
  <2> QED BY <2>1, <2>11
<1>3. S = Nat
  BY <1>1, <1>2, SetInduction
<1> DEFINE run == CHOOSE g : Runs(g, n)
<1>4. Runs(run, n)
  BY <1>3
<1>5. FlattenSeq(s) = run[n]
  BY DEF FlattenSeq
<1> HIDE DEF run
<1>6. \A i \in 1..n : run[i] = IF i = 1 THEN s[i] ELSE run[i - 1] \o s[i]
  BY <1>4
<1> QED BY <1>5, <1>6 DEF Joins

\* Runs over the same sequences are the same, and join what they are given.
LEMMA RunsAgree ==
    ASSUME NEW s, NEW t, NEW g, NEW h, NEW n \in Nat, Joins(g, s, n), Joins(h, t, n),
           \A i \in 1..n : s[i] = t[i] /\ s[i] \in Seq(Byte)
    PROVE  \A i \in 1..n : g[i] = h[i] /\ g[i] \in Seq(Byte)
<1> DEFINE S == {m \in Nat : m \in 1..n => g[m] = h[m] /\ g[m] \in Seq(Byte)}
<1>1. 0 \in S
  OBVIOUS
<1>2. ASSUME NEW m \in S PROVE m + 1 \in S
  <2>1. m \in Nat
    OBVIOUS
  <2>2. SUFFICES ASSUME m + 1 \in 1..n
                 PROVE  g[m + 1] = h[m + 1] /\ g[m + 1] \in Seq(Byte)
    BY <2>1
  <2>3. s[m + 1] = t[m + 1] /\ s[m + 1] \in Seq(Byte)
    BY <2>2
  <2>4. CASE m = 0
    <3>1. g[m + 1] = s[m + 1] /\ h[m + 1] = t[m + 1]
      BY <2>2, <2>4 DEF Joins
    <3> QED BY <2>3, <3>1
  <2>5. CASE m # 0
    <3>1. m \in 1..n /\ m + 1 # 1 /\ (m + 1) - 1 = m
      BY <2>1, <2>2, <2>5
    <3>2. g[m + 1] = g[m] \o s[m + 1] /\ h[m + 1] = h[m] \o t[m + 1]
      BY <2>2, <3>1 DEF Joins
    <3>3. g[m] = h[m] /\ g[m] \in Seq(Byte)
      BY <3>1
    <3>4. g[m] \o s[m + 1] \in Seq(Byte)
      BY <2>3, <3>3
    <3> QED BY <2>3, <3>2, <3>3, <3>4
  <2> QED BY <2>4, <2>5
<1>3. S = Nat
  BY <1>1, <1>2, SetInduction
<1> QED BY <1>3

\* One sequence more.
LEMMA FlattenAppend ==
    ASSUME NEW s \in Seq(Seq(Byte)), NEW t \in Seq(Seq(Byte)), NEW d \in Seq(Byte),
           Len(t) = Len(s) + 1, t[Len(s) + 1] = d, \A i \in 1..Len(s) : t[i] = s[i]
    PROVE  FlattenSeq(s) \in Seq(Byte) /\ FlattenSeq(t) = FlattenSeq(s) \o d
<1>0. PICK n \in Nat : n = Len(s)
  OBVIOUS
<1>1. n + 1 \in Nat /\ n + 1 # 0 /\ n + 1 \in 1..(n + 1)
  OBVIOUS
<1>2. PICK h : FlattenSeq(t) = h[n + 1] /\ Joins(h, t, n + 1)
  BY <1>0, <1>1, FlattenRuns
<1>3. CASE n = 0
  <2>1. FlattenSeq(s) = <<>>
    <3>1. Len(s) = 0
      BY <1>0, <1>3
    <3>2. s = <<>>
      BY <3>1, EmptySeq
    <3> QED BY <3>1, <3>2, Zenon DEF FlattenSeq
  <2>2. h[1] = d
    BY <1>0, <1>2, <1>3 DEF Joins
  <2>3. <<>> \o d = d
    OBVIOUS
  <2>4. <<>> \in Seq(Byte)
    OBVIOUS
  <2> QED BY <1>2, <1>3, <2>1, <2>2, <2>3, <2>4
<1>4. CASE n # 0
  <2>1. PICK g : FlattenSeq(s) = g[n] /\ Joins(g, s, n)
    BY <1>0, <1>4, FlattenRuns
  <2>2. Joins(h, t, n)
    BY <1>2 DEF Joins
  <2>3. \A i \in 1..n : s[i] = t[i] /\ s[i] \in Seq(Byte)
    BY <1>0
  <2>4. \A i \in 1..n : g[i] = h[i] /\ g[i] \in Seq(Byte)
    <3>1. /\ Joins(g, s, n) /\ Joins(h, t, n) /\ n \in Nat
          /\ \A i \in 1..n : s[i] = t[i] /\ s[i] \in Seq(Byte)
      BY <2>1, <2>2, <2>3
    <3>2. ASSUME NEW a, NEW b, NEW c, NEW e, NEW m \in Nat, Joins(c, a, m), Joins(e, b, m),
                 \A i \in 1..m : a[i] = b[i] /\ a[i] \in Seq(Byte)
          PROVE  \A i \in 1..m : c[i] = e[i] /\ c[i] \in Seq(Byte)
      BY ONLY <3>2, RunsAgree
    <3> QED BY ONLY <3>1, <3>2
  <2>5. n \in 1..n /\ n + 1 # 1 /\ (n + 1) - 1 = n
    BY <1>4
  <2>6. h[n + 1] = h[n] \o t[n + 1]
    BY <1>1, <1>2, <2>5 DEF Joins
  <2>7. t[n + 1] = d
    BY <1>0
  <2>8. h[n] = g[n] /\ g[n] \in Seq(Byte)
    BY <2>4, <2>5
  <2> QED BY <1>2, <2>1, <2>6, <2>7, <2>8
<1> QED BY <1>3, <1>4

-----------------------------------------------------------------------------
(* Receiving.                                                                *)

Somewhere   == Peers \cup {Group, NoPeer}
Arrived     == [peer : Peers, data : Seq(Byte)]
CurrentType == [from : Peers \cup {NoPeer}, data : Seq(Byte), seen : Seq(Byte)]
RxMemory    == [1..RxSize -> Byte]

\* What is read and what is left of a datagram are the datagram; nothing is
\* left when there is none.
RecvInv ==
    /\ rxLen \in 0..RxSize /\ rxPos \in 0..rxLen
    /\ rx \in RxMemory \/ (rx = <<>> /\ rxLen = 0)
    /\ inbox \in Seq(Arrived)
    /\ current \in CurrentType
    /\ current = NoCurrent => rxLen = rxPos
    /\ current # NoCurrent => current.from # NoPeer
                              /\ current.data = current.seen \o SubSeq(rx, rxPos + 1, rxLen)

LEMMA MemoryIs ==
    ASSUME NEW S, NEW n \in Nat, NEW f \in [1..n -> S]
    PROVE  f \in Seq(S) /\ Len(f) = n
OBVIOUS

LEMMA ConcatElements ==
    ASSUME NEW y \in Seq(Byte), NEW z \in Seq(Byte), NEW k \in 1..Len(y) + Len(z)
    PROVE  (y \o z)[k] = IF k <= Len(y) THEN y[k] ELSE z[k - Len(y)]
BY SMTT(30)

\* The rest of a buffer, part of which is taken.
LEMMA RestSplits ==
    ASSUME NEW s \in Seq(Byte), NEW c \in 0..Len(s), NEW a \in 0..c, NEW n \in 0..(c - a)
    PROVE  /\ SubSeq(s, a + 1, a + n) \in Seq(Byte) /\ Len(SubSeq(s, a + 1, a + n)) = n
           /\ SubSeq(s, a + n + 1, c) \in Seq(Byte)
           /\ SubSeq(s, a + 1, c) = SubSeq(s, a + 1, a + n) \o SubSeq(s, a + n + 1, c)
<1>1. PICK x : x = SubSeq(s, a + 1, c)
  OBVIOUS
<1>2. PICK y : y = SubSeq(s, a + 1, a + n)
  OBVIOUS
<1>3. PICK z : z = SubSeq(s, a + n + 1, c)
  OBVIOUS
<1>4. x \in Seq(Byte) /\ Len(x) = c - a /\ \A k \in 1..(c - a) : x[k] = s[a + k]
  <2>1. a + 1 \in 1..Len(s)+1 /\ c \in (a + 1) - 1..Len(s)
    OBVIOUS
  <2>2. /\ x \in Seq(Byte) /\ Len(x) = c - (a + 1) + 1
        /\ \A k \in 1..c - (a + 1) + 1 : x[k] = s[(a + 1) + k - 1]
    BY <1>1, <2>1, SubSeqFacts
  <2> QED BY <2>2
<1>5. y \in Seq(Byte) /\ Len(y) = n /\ \A k \in 1..n : y[k] = s[a + k]
  <2>1. a + 1 \in 1..Len(s)+1 /\ a + n \in (a + 1) - 1..Len(s)
    OBVIOUS
  <2>2. /\ y \in Seq(Byte) /\ Len(y) = (a + n) - (a + 1) + 1
        /\ \A k \in 1..(a + n) - (a + 1) + 1 : y[k] = s[(a + 1) + k - 1]
    BY <1>2, <2>1, SubSeqFacts
  <2> QED BY <2>2
<1>6. z \in Seq(Byte) /\ Len(z) = c - a - n /\ \A k \in 1..(c - a - n) : z[k] = s[a + n + k]
  <2>1. a + n + 1 \in 1..Len(s)+1 /\ c \in (a + n + 1) - 1..Len(s)
    OBVIOUS
  <2>2. /\ z \in Seq(Byte) /\ Len(z) = c - (a + n + 1) + 1
        /\ \A k \in 1..c - (a + n + 1) + 1 : z[k] = s[(a + n + 1) + k - 1]
    BY <1>3, <2>1, SubSeqFacts
  <2> QED BY <2>2
<1>7. PICK w \in Seq(Byte) : w = y \o z
  BY <1>5, <1>6, ConcatFacts
<1>8. Len(w) = Len(y) + Len(z) /\ \A k \in 1..Len(w) : w[k] = IF k <= Len(y) THEN y[k] ELSE z[k - Len(y)]
  <2>1. Len(w) = Len(y) + Len(z)
    BY <1>5, <1>6, <1>7, ConcatFacts
  <2>2. ASSUME NEW k \in 1..Len(w) PROVE w[k] = IF k <= Len(y) THEN y[k] ELSE z[k - Len(y)]
    <3>1. k \in 1..Len(y) + Len(z)
      BY <2>1
    <3>2. (y \o z)[k] = IF k <= Len(y) THEN y[k] ELSE z[k - Len(y)]
      BY <1>5, <1>6, <3>1, ConcatElements
    <3> QED BY <1>7, <3>2
  <2> QED BY <2>1, <2>2
<1>9. /\ Len(w) = c - a /\ \A k \in 1..(c - a) : w[k] = IF k <= n THEN s[a + k] ELSE s[a + n + (k - n)]
  <2>1. Len(w) = c - a
    BY <1>5, <1>6, <1>8
  <2>2. ASSUME NEW k \in 1..(c - a), k <= n PROVE w[k] = s[a + k]
    <3>1. k \in 1..n /\ k \in 1..Len(w) /\ k <= Len(y)
      BY <1>5, <2>1, <2>2
    <3> QED BY <1>5, <1>8, <3>1
  <2>3. ASSUME NEW k \in 1..(c - a), ~(k <= n) PROVE w[k] = s[a + n + (k - n)]
    <3>1. k - n \in 1..(c - a - n) /\ k \in 1..Len(w) /\ ~(k <= Len(y)) /\ k - Len(y) = k - n
      BY <1>5, <2>1, <2>3
    <3>2. w[k] = z[k - n]
      BY <1>8, <3>1
    <3> QED BY <1>6, <3>1, <3>2
  <2> QED BY <2>1, <2>2, <2>3
<1>10. x = w
  <2>1. ASSUME NEW k \in 1..Len(x) PROVE x[k] = w[k]
    <3>1. k \in 1..(c - a)
      BY <1>4
    <3>2. x[k] = s[a + k]
      BY <1>4, <3>1
    <3>3. CASE k <= n
      BY <1>9, <3>1, <3>2, <3>3
    <3>4. CASE ~(k <= n)
      <4>1. a + n + (k - n) = a + k
        OBVIOUS
      <4>2. w[k] = s[a + n + (k - n)]
        BY <1>9, <3>1, <3>4
      <4> QED BY <3>2, <4>1, <4>2
    <3> QED BY <3>3, <3>4
  <2> QED BY <1>4, <1>7, <1>9, <2>1, SameSeq
<1> QED BY <1>1, <1>2, <1>3, <1>5, <1>6, <1>7, <1>10

LEMMA ConcatAssociates ==
    ASSUME NEW x \in Seq(Byte), NEW y \in Seq(Byte), NEW z \in Seq(Byte)
    PROVE  (x \o y) \o z = x \o (y \o z)
BY ConcatAssociative, SMTT(30)

\* The unread part of a datagram.
LEMMA UnreadIs ==
    ASSUME RecvInv, rx # <<>>, NEW n \in 1..Unread
    PROVE  /\ rx \in Seq(Byte) /\ Len(rx) = RxSize /\ rxPos + n \in 0..rxLen
           /\ Taken(n) \in Seq(Byte) /\ Len(Taken(n)) = n
           /\ SubSeq(rx, rxPos + n + 1, rxLen) \in Seq(Byte)
           /\ SubSeq(rx, rxPos + 1, rxLen) = Taken(n) \o SubSeq(rx, rxPos + n + 1, rxLen)
<1>1. RxSize \in Nat /\ rxLen \in 0..RxSize /\ rxPos \in 0..rxLen
  BY UdpAssumption DEF RecvInv
<1>2. rx \in Seq(Byte) /\ Len(rx) = RxSize
  BY <1>1, MemoryIs DEF RecvInv, RxMemory
<1>3. n \in 0..(rxLen - rxPos) /\ rxPos + n \in 0..rxLen /\ rxLen \in 0..Len(rx)
  BY <1>1, <1>2 DEF Unread
<1> QED BY <1>1, <1>2, <1>3, RestSplits DEF Taken

LEMMA AdvanceKeeps ==
    ASSUME RecvInv, rx # <<>>, NEW n \in 1..Unread, Advance(n), inbox' = inbox
    PROVE  RecvInv'
<1>1. /\ rx' = rx /\ rxLen' = rxLen /\ rxPos' = rxPos + n
      /\ current' = [current EXCEPT !.seen = @ \o Taken(n)]
  BY DEF Advance
<1>2. /\ current \in CurrentType /\ rxLen \in 0..RxSize /\ rxPos \in 0..rxLen
      /\ rx \in RxMemory /\ inbox \in Seq(Arrived)
  BY DEF RecvInv
<1>3. current # NoCurrent
  BY <1>2 DEF RecvInv, Unread
<1>4. PICK old \in Seq(Byte), all \in Seq(Byte) : old = current.seen /\ all = current.data
  BY <1>2 DEF CurrentType
<1>5. PICK part \in Seq(Byte) : part = Taken(n)
  BY UnreadIs
<1>6. PICK rest \in Seq(Byte) : rest = SubSeq(rx, rxPos + n + 1, rxLen)
  BY UnreadIs
<1>7. all = old \o (part \o rest)
  BY <1>3, <1>4, <1>5, <1>6, UnreadIs DEF RecvInv
<1>8. all = (old \o part) \o rest
  <2>1. (old \o part) \o rest = old \o (part \o rest)
    BY ConcatAssociates
  <2> QED BY <1>7, <2>1
<1>9. old \o part \in Seq(Byte)
  BY ConcatFacts
<1>10. /\ current' \in CurrentType /\ current'.from = current.from
       /\ current'.data = all /\ current'.seen = old \o part
  BY <1>1, <1>2, <1>4, <1>5, <1>9 DEF CurrentType
<1>11. current.from # NoPeer /\ NoCurrent.from = NoPeer
  BY <1>3 DEF RecvInv, NoCurrent
<1>12. current' # NoCurrent
  BY <1>10, <1>11
<1>13. current'.data = current'.seen \o SubSeq(rx', rxPos' + 1, rxLen')
  BY <1>1, <1>6, <1>8, <1>10
<1>14. rxPos' \in 0..rxLen'
  BY <1>1, UnreadIs
<1> QED BY <1>1, <1>2, <1>10, <1>11, <1>12, <1>13, <1>14 DEF RecvInv

LEMMA BlankIs ==
    ASSUME NEW n \in Nat
    PROVE  Blank(n) \in [1..n -> Byte] /\ Payload(n) \in Seq(Byte)
<1>1. "more" \in Byte /\ "last" \in Byte
  BY UdpAssumption
<1>2. Payload(n) \in [1..n -> Byte]
  BY <1>1 DEF Payload
<1> QED BY <1>1, <1>2, MemoryIs DEF Blank

LEMMA NothingHeld ==
    ASSUME RecvInv, rx' \in RxMemory \/ rx' = <<>>, rxLen' = 0, rxPos' = 0,
           current' = NoCurrent, inbox' \in Seq(Arrived)
    PROVE  RecvInv'
<1>1. RxSize \in Nat /\ 0 \in 0..RxSize
  BY UdpAssumption
<1>2. NoCurrent \in CurrentType
  BY DEF NoCurrent, CurrentType
<1> QED BY <1>1, <1>2 DEF RecvInv

LEMMA RecvUnchanged ==
    ASSUME RecvInv, UNCHANGED <<recv, inbox>>
    PROVE  RecvInv'
<1>1. UNCHANGED <<rx, rxLen, rxPos, current, inbox>>
  BY DEF recv
<1> QED BY <1>1 DEF RecvInv

LEMMA ParsePacketKeeps ==
    ASSUME RecvInv, ParsePacket
    PROVE  RecvInv'
<1>1. PICK j \in DOMAIN inbox : inbox[j].data # <<>>
  BY DEF ParsePacket, Fionread
<1>2. inbox \in Seq(Arrived) /\ inbox # <<>>
  BY <1>1 DEF RecvInv
<1>3. PICK d \in Arrived : d = Head(inbox)
  BY <1>2
<1>4. Tail(inbox) \in Seq(Arrived)
  BY <1>2
<1>5. PICK bytes \in Seq(Byte) : bytes = d.data
  BY <1>3 DEF Arrived
<1>6. d.peer \in Peers /\ d.peer # NoPeer
  BY <1>3, UdpAssumption DEF Arrived
<1>7. PICK len : len = Lesser(Len(bytes), RxSize)
  OBVIOUS
<1>8. PICK old : old = IF rx = <<>> THEN Blank(RxSize) ELSE rx
  OBVIOUS
<1>9. /\ rx' = [i \in 1..RxSize |-> IF i <= len THEN bytes[i] ELSE old[i]]
      /\ rxLen' = len /\ rxPos' = 0 /\ inbox' = Tail(inbox)
      /\ current' = [from |-> d.peer, data |-> SubSeq(bytes, 1, len), seen |-> <<>>]
  BY <1>3, <1>5, <1>7, <1>8 DEF ParsePacket, Received
<1>10. RxSize \in Nat /\ len \in 0..RxSize /\ len \in 0..Len(bytes)
  BY <1>7, UdpAssumption DEF Lesser
<1>11. old \in RxMemory
  <2>1. CASE rx = <<>>
    BY <1>8, <1>10, <2>1, BlankIs DEF RxMemory
  <2>2. CASE rx # <<>>
    BY <1>8, <2>2 DEF RecvInv
  <2> QED BY <2>1, <2>2
<1>12. \A i \in 1..len : bytes[i] \in Byte
  BY <1>10
<1>13. rx' \in RxMemory
  <2>1. ASSUME NEW i \in 1..RxSize PROVE (IF i <= len THEN bytes[i] ELSE old[i]) \in Byte
    <3>1. CASE i <= len
      <4>1. i \in 1..len
        BY <1>10, <3>1
      <4> QED BY <1>12, <3>1, <4>1
    <3>2. CASE ~(i <= len)
      BY <1>11, <3>2 DEF RxMemory
    <3> QED BY <3>1, <3>2
  <2> QED BY <1>9, <2>1 DEF RxMemory
<1>14. PICK held : held = rx'
  OBVIOUS
<1>15. held \in Seq(Byte) /\ Len(held) = RxSize
  BY <1>10, <1>13, <1>14, MemoryIs DEF RxMemory
<1>16. PICK x : x = SubSeq(bytes, 1, len)
  OBVIOUS
<1>17. PICK y : y = SubSeq(held, 1, len)
  OBVIOUS
<1>18. x \in Seq(Byte) /\ Len(x) = len /\ \A k \in 1..len : x[k] = bytes[k]
  <2>1. 1 \in 1..Len(bytes)+1 /\ len \in 1 - 1..Len(bytes)
    BY <1>10
  <2>2. /\ x \in Seq(Byte) /\ Len(x) = len - 1 + 1
        /\ \A k \in 1..len - 1 + 1 : x[k] = bytes[1 + k - 1]
    BY <1>16, <2>1, SubSeqFacts
  <2> QED BY <1>10, <2>2
<1>19. y \in Seq(Byte) /\ Len(y) = len /\ \A k \in 1..len : y[k] = held[k]
  <2>1. 1 \in 1..Len(held)+1 /\ len \in 1 - 1..Len(held)
    BY <1>10, <1>15
  <2>2. /\ y \in Seq(Byte) /\ Len(y) = len - 1 + 1
        /\ \A k \in 1..len - 1 + 1 : y[k] = held[1 + k - 1]
    BY <1>15, <1>17, <2>1, SubSeqFacts
  <2> QED BY <1>10, <2>2
<1>20. \A k \in 1..len : held[k] = bytes[k]
  <2>1. TAKE k \in 1..len
  <2>2. k \in 1..RxSize /\ k <= len
    BY <1>10
  <2> QED BY <1>9, <1>14, <2>2
<1>21. x = y
  <2>1. \A k \in 1..len : x[k] = y[k]
    BY <1>18, <1>19, <1>20
  <2> QED BY <1>18, <1>19, <2>1, SameSeq
<1>22. PICK c : c = current'
  OBVIOUS
<1>23. c.from = d.peer /\ c.data = x /\ c.seen = <<>> /\ c \in CurrentType
  <2>1. <<>> \in Seq(Byte)
    OBVIOUS
  <2> QED BY <1>6, <1>9, <1>16, <1>18, <1>22, <2>1 DEF CurrentType
<1>24. c # NoCurrent
  <2>1. NoCurrent.from = NoPeer
    BY DEF NoCurrent
  <2> QED BY <1>6, <1>23, <2>1
<1>25. c.data = c.seen \o SubSeq(held, 0 + 1, len)
  <2>1. <<>> \o y = y
    BY <1>19
  <2> QED BY <1>17, <1>21, <1>23, <2>1
<1>26. rxLen' \in 0..RxSize /\ rxPos' \in 0..rxLen'
  BY <1>9, <1>10
<1>27. c = NoCurrent => rxLen' = rxPos'
  BY <1>24
<1> QED BY <1>4, <1>6, <1>9, <1>13, <1>14, <1>22, <1>23, <1>24, <1>25, <1>26 DEF RecvInv

LEMMA ArriveKeeps ==
    ASSUME RecvInv, NEW p \in Peers, NEW n \in Lens, Arrive(p, n)
    PROVE  RecvInv'
<1>1. n \in Nat
  BY UdpAssumption
<1>2. PICK e : e = Datagram(p, Payload(n))
  OBVIOUS
<1>3. e \in Arrived
  BY <1>1, <1>2, BlankIs DEF Arrived, Datagram
<1>4. inbox' \in Seq(Arrived)
  BY <1>2, <1>3 DEF Arrive, RecvInv
<1>5. UNCHANGED <<rx, rxLen, rxPos, current>>
  BY DEF Arrive, recv
<1> QED BY <1>4, <1>5 DEF RecvInv

LEMMA RecvStep ==
    ASSUME RecvInv, [Next]_vars
    PROVE  RecvInv'
<1>1. RxSize \in Nat
  BY UdpAssumption
<1>2. <<>> \in Seq(Arrived) /\ Blank(RxSize) \in RxMemory
  <2>1. Blank(RxSize) \in [1..RxSize -> Byte]
    BY <1>1, BlankIs
  <2> QED BY <2>1 DEF RxMemory
<1>3. CASE Stopped
  BY <1>2, <1>3, NothingHeld DEF Stopped
<1>4. CASE NoMemory
  BY <1>2, <1>4, NothingHeld DEF NoMemory
<1>5. ASSUME NEW group, Opened(group) PROVE RecvInv'
  BY <1>2, <1>5, NothingHeld DEF Opened
<1>6. CASE Stop
  BY <1>3, <1>6 DEF Stop
<1>7. CASE Begin
  BY <1>3, <1>4, <1>5, <1>7 DEF Begin
<1>8. CASE BeginMulticast
  BY <1>3, <1>4, <1>5, <1>8 DEF BeginMulticast
<1>9. ASSUME NEW to \in Somewhere, BeginPacket(to) PROVE RecvInv'
  BY <1>9, RecvUnchanged DEF BeginPacket, net
<1>10. ASSUME NEW b \in Byte, Write(b) PROVE RecvInv'
  BY <1>10, RecvUnchanged DEF Write, net
<1>11. CASE EndPacket
  BY <1>11, RecvUnchanged DEF EndPacket, net
<1>12. ASSUME NEW p \in Peers, NEW n \in Lens, Arrive(p, n) PROVE RecvInv'
  BY <1>12, ArriveKeeps
<1>13. CASE ParsePacket
  BY <1>13, ParsePacketKeeps
<1>14. CASE CopyByte
  <2>1. 1 \in 1..Unread
    BY <1>14 DEF CopyByte, Unread, RecvInv
  <2> QED BY <1>14, <2>1, AdvanceKeeps DEF CopyByte, net
<1>15. ASSUME NEW n \in 1..RxSize, CopyBlock(n) PROVE RecvInv'
  BY <1>15, AdvanceKeeps DEF CopyBlock, net
<1>16. ASSUME NEW n \in 1..RxSize, ReadSome(n) PROVE RecvInv'
  BY <1>16, AdvanceKeeps DEF ReadSome, net
<1>17. CASE ClearRx
  <2>1. /\ rx' = rx /\ inbox' = inbox /\ rxLen' = 0 /\ rxPos' = 0 /\ current' = NoCurrent
    BY <1>17 DEF ClearRx, net
  <2>2. inbox' \in Seq(Arrived) /\ (rx' \in RxMemory \/ rx' = <<>>)
    BY <2>1 DEF RecvInv
  <2> QED BY <2>1, <2>2, NothingHeld
<1>18. CASE UseBuffer
  BY <1>18, RecvUnchanged DEF UseBuffer, net
<1>19. CASE UNCHANGED vars
  BY <1>19, RecvUnchanged DEF vars, net
<1> QED BY <1>6, <1>7, <1>8, <1>9, <1>10, <1>11, <1>12, <1>13, <1>14, <1>15, <1>16,
           <1>17, <1>18, <1>19 DEF Next, Receive, Somewhere

LEMMA RecvInit ==
    ASSUME Init
    PROVE  RecvInv
<1>1. RxSize \in Nat /\ <<>> \in Seq(Arrived)
  BY UdpAssumption
<1>2. NoCurrent \in CurrentType
  BY DEF NoCurrent, CurrentType
<1> QED BY <1>1, <1>2 DEF Init, RecvInv

LEMMA RecvSays ==
    ASSUME RecvInv
    PROVE  ReadAsReceived
<1>1. CASE current = NoCurrent
  <2>1. Unread = 0
    BY <1>1 DEF RecvInv, Unread
  <2> QED BY <1>1, <2>1 DEF ReadAsReceived
<1>2. CASE current # NoCurrent
  <2>1. current.data = current.seen \o SubSeq(rx, rxPos + 1, rxLen)
    BY <1>2 DEF RecvInv
  <2> QED BY <1>2, <2>1 DEF ReadAsReceived
<1> QED BY <1>1, <1>2

-----------------------------------------------------------------------------
(* Sending.                                                                  *)

Packet     == [peer : Somewhere, data : Seq(Byte)]
MakingType == [open : BOOLEAN, to : Somewhere, data : Seq(Byte), out : Seq(Packet), lost : BOOLEAN]
TxMemory   == [1..TxSize -> Byte]

Flat(out) == FlattenSeq([i \in DOMAIN out |-> out[i].data])

\* The datagrams of a packet: to its address, each full but possibly the last.
OutFull(m) == /\ \A i \in DOMAIN m.out : m.out[i].peer = m.to
              /\ \A i \in DOMAIN m.out : Len(m.out[i].data) < TxSize => i = Len(m.out) /\ ~m.open

\* What is written is what went out and what tx_buffer holds, which goes to
\* the same address.
SendInv ==
    /\ txLen \in 0..TxSize
    /\ tx \in TxMemory \/ (tx = <<>> /\ txLen = 0)
    /\ remote \in Somewhere
    /\ making \in MakingType
    /\ making.open => tx \in TxMemory /\ making.to = remote /\ making.to # NoPeer
    /\ making.to # NoPeer /\ ~making.lost =>
          /\ making.data = Flat(making.out) \o IF making.open THEN TxData ELSE <<>>
          /\ OutFull(making)

LEMMA SendSays ==
    ASSUME SendInv
    PROVE  SentAsWritten
BY DEF SendInv, SentAsWritten, Flat, OutFull

LEMMA FlatNone ==
    Flat(<<>>) = <<>>
<1>1. PICK s : s = [i \in DOMAIN <<>> |-> <<>>[i].data]
  OBVIOUS
<1>2. s = <<>> /\ Len(s) = 0
  BY <1>1
<1> QED BY <1>1, <1>2 DEF Flat, FlattenSeq

\* One datagram more.
LEMMA FlatAppend ==
    ASSUME NEW out \in Seq(Packet), NEW p \in Somewhere, NEW d \in Seq(Byte)
    PROVE  /\ Append(out, Datagram(p, d)) \in Seq(Packet)
           /\ Flat(out) \in Seq(Byte)
           /\ Flat(Append(out, Datagram(p, d))) = Flat(out) \o d
<1> DEFINE e == Datagram(p, d)
<1>1. e \in Packet /\ e.data = d
  BY DEF Packet, Datagram
<1> HIDE DEF e
<1>2. PICK n \in Nat : n = Len(out) /\ DOMAIN out = 1..n
  OBVIOUS
<1> DEFINE more == Append(out, e)
<1>3. more \in Seq(Packet) /\ more = Append(out, e)
  BY <1>1
<1> HIDE DEF more
<1>4. /\ DOMAIN more = 1..(n + 1) /\ more[n + 1] = e
      /\ \A i \in 1..n : more[i] = out[i]
  BY <1>2, <1>3
<1>5. PICK s : s = [i \in DOMAIN out |-> out[i].data]
  OBVIOUS
<1>6. PICK t : t = [i \in DOMAIN more |-> more[i].data]
  OBVIOUS
<1>7. \A i \in 1..n : out[i].data \in Seq(Byte)
  <2>1. TAKE i \in 1..n
  <2>2. out[i] \in Packet
    BY <1>2
  <2> QED BY <2>2 DEF Packet
<1>8. s \in Seq(Seq(Byte)) /\ Len(s) = n
  BY <1>2, <1>5, <1>7
<1>9. t \in Seq(Seq(Byte)) /\ Len(t) = n + 1
  <2>1. \A i \in 1..(n + 1) : more[i].data \in Seq(Byte)
    <3>1. TAKE i \in 1..(n + 1)
    <3>2. more[i] \in Packet
      BY <1>3, <1>4
    <3> QED BY <3>2 DEF Packet
  <2> QED BY <1>2, <1>4, <1>6, <2>1
<1>10. t[n + 1] = d
  BY <1>1, <1>2, <1>4, <1>6
<1>11. \A i \in 1..n : t[i] = s[i] /\ s[i] \in Seq(Byte)
  <2>1. TAKE i \in 1..n
  <2>2. i \in 1..(n + 1)
    BY <1>2
  <2>3. t[i] = more[i].data /\ s[i] = out[i].data /\ more[i] = out[i]
    BY <1>2, <1>4, <1>5, <1>6, <2>2
  <2> QED BY <1>7, <2>3
<1>12. n = 0 => s = <<>>
  BY <1>8
<1>13. FlattenSeq(s) \in Seq(Byte) /\ FlattenSeq(t) = FlattenSeq(s) \o d
  <2>1. n \in Nat /\ Len(s) = n /\ Len(t) = n + 1
    BY <1>2, <1>8, <1>9
  <2>2. \A i \in 1..Len(s) : t[i] = s[i]
    BY <2>1, <1>11
  <2>3. Len(t) = Len(s) + 1 /\ t[Len(s) + 1] = d
    BY <2>1, <1>10
  <2> QED BY <1>8, <1>9, <2>2, <2>3, FlattenAppend
<1>14. Flat(out) = FlattenSeq(s) /\ Flat(more) = FlattenSeq(t)
  BY <1>5, <1>6 DEF Flat
<1> QED BY <1>1, <1>3, <1>13, <1>14 DEF e

LEMMA TxDataIs ==
    ASSUME NEW f \in TxMemory, NEW n \in 0..TxSize
    PROVE  /\ SubSeq(f, 1, n) \in Seq(Byte) /\ Len(SubSeq(f, 1, n)) = n
           /\ \A k \in 1..n : SubSeq(f, 1, n)[k] = f[k]
<1>1. TxSize \in Nat
  BY UdpAssumption
<1>2. f \in Seq(Byte) /\ Len(f) = TxSize
  BY <1>1, MemoryIs DEF TxMemory
<1>3. 1 \in 1..Len(f)+1 /\ n \in 1 - 1..Len(f)
  BY <1>1, <1>2
<1>4. PICK x : x = SubSeq(f, 1, n)
  OBVIOUS
<1>5. /\ x \in Seq(Byte) /\ Len(x) = n - 1 + 1
      /\ \A k \in 1..n - 1 + 1 : x[k] = f[1 + k - 1]
  BY <1>2, <1>3, <1>4, SubSeqFacts
<1> QED BY <1>1, <1>4, <1>5

\* One byte more in the buffer.
LEMMA TxDataGrows ==
    ASSUME NEW f \in TxMemory, NEW n \in 0..TxSize, n < TxSize, NEW b \in Byte
    PROVE  /\ [f EXCEPT ![n + 1] = b] \in TxMemory
           /\ SubSeq([f EXCEPT ![n + 1] = b], 1, n + 1) = Append(SubSeq(f, 1, n), b)
<1>1. TxSize \in Nat /\ n + 1 \in 1..TxSize /\ n + 1 \in 0..TxSize
  BY UdpAssumption
<1>2. PICK g \in TxMemory : g = [f EXCEPT ![n + 1] = b]
  BY <1>1 DEF TxMemory
<1>3. PICK x : x = SubSeq(f, 1, n)
  OBVIOUS
<1>4. x \in Seq(Byte) /\ Len(x) = n /\ \A k \in 1..n : x[k] = f[k]
  BY <1>3, TxDataIs
<1>5. PICK y : y = SubSeq(g, 1, n + 1)
  OBVIOUS
<1>6. y \in Seq(Byte) /\ Len(y) = n + 1 /\ \A k \in 1..(n + 1) : y[k] = g[k]
  BY <1>1, <1>5, TxDataIs
<1>7. PICK z : z = Append(x, b)
  OBVIOUS
<1>8. z \in Seq(Byte) /\ Len(z) = n + 1 /\ \A k \in 1..n : z[k] = x[k]
  BY <1>4, <1>7
<1>9. z[n + 1] = b
  BY <1>4, <1>7
<1>10. g[n + 1] = b /\ \A k \in 1..n : g[k] = f[k]
  BY <1>1, <1>2 DEF TxMemory
<1>11. \A k \in 1..(n + 1) : y[k] = z[k]
  <2>1. TAKE k \in 1..(n + 1)
  <2>2. CASE k = n + 1
    BY <1>6, <1>9, <1>10, <2>2
  <2>3. CASE k # n + 1
    <3>1. k \in 1..n
      BY <2>3
    <3> QED BY <1>4, <1>6, <1>8, <1>10, <3>1
  <2> QED BY <2>2, <2>3
<1>12. y = z
  BY <1>6, <1>7, <1>8, <1>11, SameSeq
<1> QED BY <1>2, <1>3, <1>5, <1>7, <1>12

\* A datagram goes out, or is lost: the bytes are now all in the datagrams.
LEMMA SentIs ==
    ASSUME SendInv, making.open, NEW m \in Sent(TxData)
    PROVE  /\ m \in MakingType
           /\ m.open = making.open /\ m.to = making.to /\ m.data = making.data
           /\ ~m.lost => /\ m.data = Flat(m.out)
                         /\ Flat(m.out) \in Seq(Byte)
                         /\ \A i \in DOMAIN m.out : m.out[i].peer = m.to
                         /\ \A i \in DOMAIN m.out : Len(m.out[i].data) < TxSize =>
                               i = Len(m.out) /\ txLen < TxSize
<1>1. making \in MakingType /\ remote \in Somewhere /\ tx \in TxMemory /\ txLen \in 0..TxSize
  BY DEF SendInv
<1>2. PICK d \in Seq(Byte) : d = TxData /\ Len(d) = txLen
  BY <1>1, TxDataIs DEF TxData
<1>3. PICK out \in Seq(Packet) : out = making.out
  BY <1>1 DEF MakingType
<1> DEFINE e    == Datagram(remote, d)
           more == Append(out, e)
<1>4. e = Datagram(remote, d) /\ e \in Packet /\ e.peer = remote /\ e.data = d
  BY <1>1 DEF Packet, Datagram
<1> HIDE DEF e
<1>5. more = Append(out, e) /\ more \in Seq(Packet)
  BY <1>4
<1> HIDE DEF more
<1>6. CASE m = [making EXCEPT !.lost = TRUE]
  BY <1>1, <1>6, Zenon DEF MakingType
<1>7. CASE m = [making EXCEPT !.out = more]
  <2>1. /\ m.open = making.open /\ m.to = making.to /\ m.data = making.data
        /\ m.lost = making.lost /\ m.out = more
    BY <1>1, <1>7, Zenon DEF MakingType
  <2>2. m \in MakingType
    BY <1>1, <1>5, <1>7, Zenon DEF MakingType
  <2>3. ASSUME ~m.lost
        PROVE  /\ m.data = Flat(m.out)
               /\ Flat(m.out) \in Seq(Byte)
               /\ \A i \in DOMAIN m.out : m.out[i].peer = m.to
               /\ \A i \in DOMAIN m.out : Len(m.out[i].data) < TxSize =>
                     i = Len(m.out) /\ txLen < TxSize
    <3>1. making.to = remote /\ making.to # NoPeer /\ ~making.lost
      BY <2>1, <2>3, Zenon DEF SendInv
    <3>2. making.data = Flat(out) \o d
      BY <1>2, <1>3, <3>1 DEF SendInv
    <3>3. Flat(out) \in Seq(Byte) /\ Flat(more) = Flat(out) \o d
      BY <1>1, <1>4, <1>5, FlatAppend
    <3>4. Flat(more) \in Seq(Byte)
      BY <3>3, ConcatFacts
    <3>5. OutFull(making)
      BY <3>1, Zenon DEF SendInv
    <3>6. PICK n \in Nat : n = Len(out) /\ DOMAIN out = 1..n
      OBVIOUS
    <3>7. /\ DOMAIN more = 1..(n + 1) /\ Len(more) = n + 1 /\ more[n + 1] = e
          /\ \A i \in 1..n : more[i] = out[i]
      BY <1>5, <3>6
    <3>8. \A i \in 1..n : out[i].peer = making.to /\ ~(Len(out[i].data) < TxSize)
      BY <1>3, <3>5, <3>6 DEF OutFull
    <3>9. \A i \in 1..(n + 1) : /\ more[i].peer = making.to
                                /\ Len(more[i].data) < TxSize => i = Len(more) /\ txLen < TxSize
      <4>1. TAKE i \in 1..(n + 1)
      <4>2. CASE i = n + 1
        <5>1. more[i].peer = making.to /\ Len(more[i].data) = txLen
          BY <1>2, <1>4, <3>1, <3>7, <4>2
        <5> QED BY <3>7, <4>2, <5>1
      <4>3. CASE i # n + 1
        <5>1. i \in 1..n
          BY <3>6, <4>3
        <5> QED BY <3>7, <3>8, <5>1
      <4> QED BY <4>2, <4>3
    <3>10. DOMAIN m.out = 1..(n + 1)
      BY <2>1, <3>7
    <3>11. m.data = Flat(m.out) /\ Flat(m.out) \in Seq(Byte)
      BY <2>1, <3>2, <3>3, <3>4
    <3>12. m.out = more /\ m.to = making.to
      BY <2>1
    <3>13. \A i \in DOMAIN m.out : m.out[i].peer = m.to
      BY <3>9, <3>10, <3>12
    <3>14. \A i \in DOMAIN m.out : Len(m.out[i].data) < TxSize => i = Len(m.out) /\ txLen < TxSize
      BY <3>9, <3>10, <3>12
    <3> QED BY <3>11, <3>13, <3>14
  <2> QED BY <2>1, <2>2, <2>3
<1>8. m = [making EXCEPT !.lost = TRUE] \/ m = [making EXCEPT !.out = more]
  BY <1>2, <1>3, <1>4, <1>5 DEF Sent
<1> QED BY <1>6, <1>7, <1>8

LEMMA NotMakingIs ==
    /\ NotMaking \in MakingType
    /\ NotMaking.open = FALSE /\ NotMaking.to = NoPeer /\ NotMaking.data = <<>>
    /\ NotMaking.out = <<>> /\ NotMaking.lost = FALSE
BY DEF NotMaking, MakingType, Somewhere

\* Nothing is being made.
LEMMA NothingMade ==
    ASSUME SendInv, making' = NotMaking, txLen' \in 0..TxSize,
           tx' \in TxMemory \/ (tx' = <<>> /\ txLen' = 0), remote' \in Somewhere
    PROVE  SendInv'
<1>1. making' \in MakingType
  BY NotMakingIs
<1>2. ~making'.open /\ making'.to = NoPeer
  BY NotMakingIs
<1> QED BY <1>1, <1>2, Zenon DEF SendInv

LEMMA SendUnchanged ==
    ASSUME SendInv, UNCHANGED <<send, remote>>
    PROVE  SendInv'
<1>1. UNCHANGED <<tx, txLen, making, remote>>
  BY DEF send
<1> QED BY <1>1 DEF SendInv, TxData

LEMMA EmptyBuffers ==
    /\ TxSize \in Nat /\ 0 \in 0..TxSize
    /\ Blank(TxSize) \in TxMemory
<1>1. TxSize \in Nat
  BY UdpAssumption
<1>2. Blank(TxSize) \in [1..TxSize -> Byte]
  BY <1>1, BlankIs
<1> QED BY <1>1, <1>2 DEF TxMemory

LEMMA BeginPacketKeeps ==
    ASSUME SendInv, NEW to \in Somewhere, BeginPacket(to)
    PROVE  SendInv'
<1>1. remote' = to
  BY DEF BeginPacket
<1>2. txLen \in 0..TxSize /\ (tx \in TxMemory \/ (tx = <<>> /\ txLen = 0))
  BY DEF SendInv
<1>3. CASE Prepared(to)
  <2>1. to # NoPeer /\ txLen' = 0
    BY <1>3 DEF Prepared
  <2>2. tx' \in TxMemory
    BY <1>2, <1>3, EmptyBuffers DEF Prepared
  <2>3. /\ making'.open = TRUE /\ making'.to = to /\ making'.data = <<>>
        /\ making'.out = <<>> /\ making'.lost = FALSE /\ making' \in MakingType
    <3>1. making' = [NotMaking EXCEPT !.open = TRUE, !.to = to]
      BY <1>3 DEF Prepared
    <3>2. making' = [open |-> TRUE, to |-> to, data |-> <<>>, out |-> <<>>, lost |-> FALSE]
      BY <3>1 DEF NotMaking
    <3>3. <<>> \in Seq(Byte) /\ <<>> \in Seq(Packet)
      OBVIOUS
    <3> QED BY <3>2, <3>3 DEF MakingType
  <2>4. TxData' = <<>>
    <3>1. PICK f \in TxMemory : f = tx'
      BY <2>2
    <3>2. SubSeq(f, 1, 0) \in Seq(Byte) /\ Len(SubSeq(f, 1, 0)) = 0
      BY EmptyBuffers, TxDataIs
    <3>3. SubSeq(f, 1, 0) = <<>>
      BY <3>2, EmptySeq
    <3> QED BY <2>1, <3>1, <3>3 DEF TxData
  <2>5. making'.data = Flat(making'.out) \o IF making'.open THEN TxData' ELSE <<>>
    <3>1. <<>> \o <<>> = <<>>
      OBVIOUS
    <3> QED BY <2>3, <2>4, <3>1, FlatNone
  <2>6. OutFull(making')
    <3>1. DOMAIN making'.out = {}
      BY <2>3
    <3> QED BY <3>1 DEF OutFull
  <2> QED BY <1>1, <2>1, <2>2, <2>3, <2>5, <2>6, EmptyBuffers DEF SendInv
<1>4. CASE Unprepared(to)
  <2>1. making' = NotMaking
    BY <1>4 DEF Unprepared
  <2>2. txLen' \in 0..TxSize /\ (tx' \in TxMemory \/ (tx' = <<>> /\ txLen' = 0))
    BY <1>2, <1>4, EmptyBuffers DEF Unprepared
  <2> QED BY <1>1, <2>1, <2>2, NothingMade
<1> QED BY <1>3, <1>4 DEF BeginPacket

\* A byte more of a packet; b is the only one in the buffer, or the next.
LEMMA WriteKeeps ==
    ASSUME SendInv, NEW b \in Byte, Write(b)
    PROVE  SendInv'
<1>1. /\ making.open /\ making \in MakingType /\ making.to = remote /\ making.to # NoPeer
      /\ remote \in Somewhere /\ tx \in TxMemory /\ txLen \in 0..TxSize
  BY Zenon DEF SendInv, Write
<1>2. TxSize \in Nat \ {0}
  BY UdpAssumption
<1>3. PICK at \in 0..TxSize : at = IF txLen = TxSize THEN 0 ELSE txLen
  BY <1>1, <1>2
<1>4. at < TxSize
  BY <1>1, <1>2, <1>3
<1>5. PICK m \in IF txLen = TxSize THEN Sent(TxData) ELSE {making} :
          making' = [m EXCEPT !.data = Append(@, b)]
  BY DEF Write
<1>6. tx' = [tx EXCEPT ![at + 1] = b] /\ txLen' = at + 1 /\ remote' = remote
  BY <1>3 DEF Write, udp
<1>7. tx' \in TxMemory /\ txLen' \in 0..TxSize
  <2>1. [tx EXCEPT ![at + 1] = b] \in TxMemory
    BY <1>1, <1>3, <1>4, TxDataGrows
  <2>2. at + 1 \in 0..TxSize
    BY <1>2, <1>3, <1>4
  <2> QED BY <1>6, <2>1, <2>2
<1>8. PICK held \in Seq(Byte) : held = SubSeq(tx, 1, at) /\ Len(held) = at
  BY <1>1, <1>3, TxDataIs
<1>9. TxData' = Append(held, b)
  BY <1>1, <1>3, <1>4, <1>6, <1>8, TxDataGrows DEF TxData
<1>10. /\ m \in MakingType /\ m.open /\ m.to = making.to
       /\ ~m.lost => /\ Flat(m.out) \in Seq(Byte) /\ m.data = Flat(m.out) \o held
                     /\ OutFull(m)
  <2>1. CASE txLen = TxSize
    <3>1. m \in Sent(TxData)
      BY <1>5, <2>1
    <3>2. m \in MakingType /\ m.open = making.open /\ m.to = making.to
      BY <1>1, <3>1, SentIs
    <3>3. ASSUME ~m.lost
          PROVE  Flat(m.out) \in Seq(Byte) /\ m.data = Flat(m.out) \o held /\ OutFull(m)
      <4>1. /\ m.data = Flat(m.out) /\ Flat(m.out) \in Seq(Byte)
            /\ \A i \in DOMAIN m.out : m.out[i].peer = m.to
            /\ \A i \in DOMAIN m.out : Len(m.out[i].data) < TxSize =>
                  i = Len(m.out) /\ txLen < TxSize
        BY <1>1, <3>1, <3>3, SentIs
      <4>2. held = <<>>
        <5>1. Len(held) = 0
          BY <1>3, <1>8, <2>1
        <5> QED BY <5>1, EmptySeq
      <4>3. Flat(m.out) \o <<>> = Flat(m.out)
        BY <4>1, ConcatEmptySeq
      <4>4. ~(txLen < TxSize)
        BY <1>2, <2>1
      <4>5. OutFull(m)
        BY <4>1, <4>4 DEF OutFull
      <4> QED BY <4>1, <4>2, <4>3, <4>5
    <3> QED BY <1>1, <3>2, <3>3, Zenon
  <2>2. CASE txLen # TxSize
    <3>1. m = making
      BY <1>5, <2>2
    <3>2. held = TxData
      BY <1>3, <1>8, <2>2 DEF TxData
    <3>3. ASSUME ~m.lost
          PROVE  Flat(m.out) \in Seq(Byte) /\ m.data = Flat(m.out) \o held /\ OutFull(m)
      <4>1. m.out \in Seq(Packet)
        BY <1>1, <3>1 DEF MakingType
      <4>2. Flat(m.out) \in Seq(Byte)
        BY <1>1, <1>8, <4>1, FlatAppend
      <4>3. making.data = Flat(making.out) \o TxData /\ OutFull(making)
        BY <1>1, <3>1, <3>3, Zenon DEF SendInv
      <4> QED BY <3>1, <3>2, <4>2, <4>3
    <3> QED BY <1>1, <3>1, <3>3, Zenon
  <2> QED BY <2>1, <2>2
<1>11. PICK data \in Seq(Byte) : data = m.data
  BY <1>10 DEF MakingType
<1>12. Append(data, b) \in Seq(Byte)
  OBVIOUS
<1>13. /\ making'.open = m.open /\ making'.to = m.to /\ making'.out = m.out
       /\ making'.lost = m.lost /\ making'.data = Append(data, b) /\ making' \in MakingType
  BY <1>5, <1>10, <1>11, <1>12, Zenon DEF MakingType
<1>14. ASSUME ~making'.lost
       PROVE  /\ making'.data = Flat(making'.out) \o TxData'
              /\ OutFull(making')
  <2>1. PICK all \in Seq(Byte) : all = Flat(m.out) /\ data = all \o held
    BY <1>10, <1>11, <1>13, <1>14, Zenon
  <2>2. Append(all \o held, b) = all \o Append(held, b)
    <3>1. Append(held, b) = held \o <<b>> /\ <<b>> \in Seq(Byte)
      OBVIOUS
    <3>2. all \o held \in Seq(Byte)
      BY ConcatFacts
    <3>3. Append(all \o held, b) = (all \o held) \o <<b>>
      BY <3>2
    <3>4. (all \o held) \o <<b>> = all \o (held \o <<b>>)
      BY <3>1, ConcatAssociates
    <3>5. all \o (held \o <<b>>) = all \o Append(held, b)
      BY <3>1
    <3> QED BY <3>3, <3>4, <3>5
  <2>3. OutFull(m)
    BY <1>10, <1>13, <1>14, Zenon
  <2>4. OutFull(making')
    BY <1>13, <2>3, Zenon DEF OutFull
  <2> QED BY <1>9, <1>13, <2>1, <2>2, <2>4
<1>15. making'.open /\ making'.to = remote' /\ making'.to # NoPeer /\ remote' \in Somewhere
  BY <1>1, <1>6, <1>10, <1>13, Zenon
<1> QED BY <1>7, <1>13, <1>14, <1>15, Zenon DEF SendInv

LEMMA EndPacketKeeps ==
    ASSUME SendInv, EndPacket
    PROVE  SendInv'
<1>1. /\ making.open /\ making \in MakingType /\ making.to = remote /\ making.to # NoPeer
      /\ remote \in Somewhere /\ tx \in TxMemory /\ txLen \in 0..TxSize
  BY Zenon DEF SendInv, EndPacket
<1>2. PICK m \in Sent(TxData) : making' = [m EXCEPT !.open = FALSE]
  BY DEF EndPacket
<1>3. m \in MakingType /\ m.to = making.to
  BY <1>1, SentIs
<1>4. /\ making'.open = FALSE /\ making'.to = m.to /\ making'.out = m.out
      /\ making'.lost = m.lost /\ making'.data = m.data /\ making' \in MakingType
  BY <1>2, <1>3, Zenon DEF MakingType
<1>5. ASSUME ~making'.lost
      PROVE  making'.data = Flat(making'.out) \o <<>> /\ OutFull(making')
  <2>1. /\ m.data = Flat(m.out) /\ Flat(m.out) \in Seq(Byte)
        /\ \A i \in DOMAIN m.out : m.out[i].peer = m.to
        /\ \A i \in DOMAIN m.out : Len(m.out[i].data) < TxSize =>
              i = Len(m.out) /\ txLen < TxSize
    BY <1>1, <1>4, <1>5, SentIs
  <2>2. Flat(m.out) \o <<>> = Flat(m.out)
    BY <2>1, ConcatEmptySeq
  <2>3. OutFull(making')
    BY <1>4, <2>1, Zenon DEF OutFull
  <2> QED BY <1>4, <2>1, <2>2, <2>3
<1>6. UNCHANGED <<tx, txLen, remote>>
  BY DEF EndPacket, udp
<1> QED BY <1>1, <1>4, <1>5, <1>6, Zenon DEF SendInv

LEMMA SendStep ==
    ASSUME SendInv, RecvInv, [Next]_vars
    PROVE  SendInv'
<1>1. remote \in Somewhere
  BY DEF SendInv
<1>2. CASE Stopped /\ remote' = remote
  BY <1>1, <1>2, EmptyBuffers, NothingMade DEF Stopped
<1>3. CASE NoMemory /\ remote' = remote
  BY <1>1, <1>3, EmptyBuffers, NothingMade DEF NoMemory
<1>4. ASSUME NEW group, Opened(group), remote' = remote PROVE SendInv'
  BY <1>1, <1>4, EmptyBuffers, NothingMade DEF Opened
<1>5. CASE Stop
  BY <1>2, <1>5 DEF Stop
<1>6. CASE Begin
  BY <1>2, <1>3, <1>4, <1>6 DEF Begin
<1>7. CASE BeginMulticast
  BY <1>2, <1>3, <1>4, <1>7 DEF BeginMulticast
<1>8. ASSUME NEW to \in Somewhere, BeginPacket(to) PROVE SendInv'
  BY <1>8, BeginPacketKeeps
<1>9. ASSUME NEW b \in Byte, Write(b) PROVE SendInv'
  BY <1>9, WriteKeeps
<1>10. CASE EndPacket
  BY <1>10, EndPacketKeeps
<1>11. CASE ParsePacket
  <2>1. PICK j \in DOMAIN inbox : inbox[j].data # <<>>
    BY <1>11 DEF ParsePacket, Fionread
  <2>2. inbox \in Seq(Arrived) /\ inbox # <<>>
    BY <2>1 DEF RecvInv
  <2>3. Head(inbox) \in Arrived
    BY <2>2
  <2>4. remote' = Head(inbox).peer
    BY <1>11 DEF ParsePacket
  <2>5. remote' \in Somewhere
    BY <2>3, <2>4 DEF Arrived, Somewhere
  <2>6. ~making.open /\ UNCHANGED <<tx, txLen, making>>
    BY <1>11 DEF ParsePacket, send
  <2> QED BY <2>5, <2>6, Zenon DEF SendInv
<1>12. CASE UNCHANGED <<send, remote>>
  BY <1>12, SendUnchanged
<1>13. CASE CopyByte \/ ClearRx \/ UseBuffer
  BY <1>12, <1>13 DEF CopyByte, ClearRx, UseBuffer, udp
<1>14. ASSUME NEW n \in 1..RxSize, CopyBlock(n) \/ ReadSome(n) PROVE SendInv'
  BY <1>12, <1>14 DEF CopyBlock, ReadSome, udp
<1>15. ASSUME NEW p \in Peers, NEW n \in Lens, Arrive(p, n) PROVE SendInv'
  BY <1>12, <1>15 DEF Arrive, udp
<1>16. CASE UNCHANGED vars
  BY <1>12, <1>16 DEF vars, udp
<1> QED BY <1>5, <1>6, <1>7, <1>8, <1>9, <1>10, <1>11, <1>13, <1>14, <1>15, <1>16
        DEF Next, Receive, Somewhere

LEMMA SendInit ==
    ASSUME Init
    PROVE  SendInv
<1>1. tx = <<>> /\ txLen = 0 /\ remote = NoPeer /\ making = NotMaking
  BY DEF Init
<1>2. remote \in Somewhere
  BY <1>1 DEF Somewhere
<1>3. making \in MakingType /\ ~making.open /\ making.to = NoPeer
  BY <1>1, NotMakingIs
<1> QED BY <1>1, <1>2, <1>3, EmptyBuffers, Zenon DEF SendInv

\* Packets: what a sketch reads is the datagram it asked for, and what it
\* writes goes out as it was written (NetworkUDP::parsePacket, read, write).
THEOREM PacketsAlwaysIntact == Spec => []PacketsIntact
<1>1. Init => RecvInv /\ SendInv
  BY RecvInit, SendInit
<1>2. RecvInv /\ SendInv /\ [Next]_vars => (RecvInv /\ SendInv)'
  BY RecvStep, SendStep
<1>3. RecvInv /\ SendInv => PacketsIntact
  BY RecvSays, SendSays DEF PacketsIntact
<1> QED BY <1>1, <1>2, <1>3, PTL DEF Spec

-----------------------------------------------------------------------------
(* The cbuf of a sketch that fills it from the socket.                       *)

\* What a sketch does with its cbuf, whatever it does with the network beside
\* it, is a call of the cbuf.
LEMMA BufferCalls ==
    ASSUME RxSize <= MaxData, RecvInv, [Next]_vars
    PROVE  [BufNext]_bufVars
<1>1. RxSize \in Nat /\ MaxData \in Nat
  BY UdpAssumption, BufferAssumption
<1>2. CASE CopyByte
  <2>1. rx \in RxMemory /\ rxPos + 1 \in 1..RxSize
    BY <1>1, <1>2 DEF CopyByte, Unread, RecvInv
  <2>2. rx[rxPos + 1] \in Byte
    BY <2>1 DEF RxMemory
  <2> QED BY <1>2, <2>2 DEF CopyByte, BufNext
<1>3. ASSUME NEW n \in 1..RxSize, CopyBlock(n) PROVE BufNext
  <2>1. rx # <<>> /\ n \in 1..Unread /\ WriteBlock(Taken(n))
    BY <1>3 DEF CopyBlock
  <2>2. Taken(n) \in Seq(Byte) /\ Len(Taken(n)) = n
    BY <2>1, UnreadIs
  <2>3. Taken(n) \in [1..n -> Byte]
    BY <2>2
  <2>4. n \in 0..MaxData
    BY <1>1
  <2>5. Taken(n) \in Data
    BY <2>3, <2>4 DEF Data
  <2> QED BY <2>1, <2>5 DEF BufNext
<1>4. CASE UseBuffer
  <2>1. \A n \in 1..MaxData : n \in 0..MaxData
    BY <1>1
  <2> QED BY <1>4, <2>1 DEF UseBuffer, BufNext
<1>5. CASE UNCHANGED bufVars
  BY <1>5
<1>6. ASSUME NEW to, BeginPacket(to) PROVE UNCHANGED bufVars
  BY <1>6 DEF BeginPacket
<1>7. ASSUME NEW b, Write(b) PROVE UNCHANGED bufVars
  BY <1>7 DEF Write
<1>8. ASSUME NEW p, NEW n, Arrive(p, n) PROVE UNCHANGED bufVars
  BY <1>8 DEF Arrive
<1>9. ASSUME NEW n, ReadSome(n) PROVE UNCHANGED bufVars
  BY <1>9 DEF ReadSome
<1>10. CASE Stop \/ Begin \/ BeginMulticast \/ EndPacket \/ ParsePacket \/ ClearRx
  BY <1>5, <1>10 DEF Stop, Begin, BeginMulticast, EndPacket, ParsePacket, ClearRx
<1>11. CASE UNCHANGED vars
  BY <1>5, <1>11 DEF vars
<1> QED BY <1>2, <1>3, <1>4, <1>5, <1>6, <1>7, <1>8, <1>9, <1>10, <1>11 DEF Next, Receive

\* The cbuf of such a sketch is a queue as well.  A block it copies is no
\* longer than a datagram, and so than the longest block of cbuf's model.
THEOREM PacketsQueued == ASSUME RxSize <= MaxData PROVE Spec => QueueSpec
<1>1. Init => BufInit
  BY DEF Init
<1>2. Init => RecvInv
  BY RecvInit
<1>3. RecvInv /\ [Next]_vars => RecvInv'
  BY RecvStep
<1>4. RecvInv /\ [Next]_vars => [BufNext]_bufVars
  BY BufferCalls
<1>5. Spec => BufSpec
  BY <1>1, <1>2, <1>3, <1>4, PTL DEF Spec, BufSpec
<1> QED BY <1>5, BufferIsQueue, PTL
==============================================================================

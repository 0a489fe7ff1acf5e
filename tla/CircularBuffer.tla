---------------------------- MODULE CircularBuffer --------------------------
(* cbuf (cbuf.cpp): a byte queue in a ring of memory, of which one slot      *)
(* always stays free.  A block call that ends at the end of the memory       *)
(* leaves its index equal to the size; the calls for one byte, remove() and  *)
(* a resize to fewer bytes cannot cope with that.                            *)
(*                                                                           *)
(* Assumed of the sketch: it uses either the calls for one byte (and         *)
(* remove) or the calls for blocks, and only adds space.  A style "none"     *)
(* stands for a sketch without a cbuf.                                       *)
EXTENDS Integers, Sequences

CONSTANTS
    Byte,       \* what a byte may be
    MaxData,    \* the longest block a call writes or reads
    FirstSize,  \* size the buffer is made with
    MaxSize,    \* bound: to what size the sketch lets it grow
    Styles      \* the calls a sketch may decide for: "byte", "block", "none"

ASSUME BufferAssumption ==
    /\ MaxData \in Nat \ {0}
    /\ {FirstSize, MaxSize} \subseteq Nat \ {0}
    /\ Styles \subseteq {"byte", "block", "none"}

Data == UNION {[1..n -> Byte] : n \in 0..MaxData}

VARIABLES
    mem,        \* _buf
    size,       \* _size
    rd, wr,     \* _readPos, _writePos
    style,      \* the calls the sketch uses
    got         \* the bytes the last call returned

bufVars == <<mem, size, rd, wr, style, got>>

\* Memory that was never written holds any bytes.
BufInit ==
    /\ size = FirstSize
    /\ mem \in [0..(FirstSize - 1) -> Byte]
    /\ rd = 0 /\ wr = 0
    /\ style \in Styles
    /\ got = <<>>

-----------------------------------------------------------------------------
Lesser(a, b) == IF a <= b THEN a ELSE b

Available == IF wr >= rd THEN wr - rd ELSE size - rd + wr

Room == size - Available - 1

Empty == rd = wr

\* i modulo _size, for an index at most one past a round.
Wrap(i) == IF i < size THEN i ELSE i - size

\* sys_memcpy of n bytes of `from', which starts at index f, to index t of `to'.
Copy(to, t, from, f, n) ==
    [i \in DOMAIN to |-> IF i \in t..(t + n - 1) THEN from[f + i - t] ELSE to[i]]

-----------------------------------------------------------------------------
(* The calls for one byte.                                                   *)

WriteByte(c) ==
    /\ style = "byte"
    /\ IF Room = 0 THEN UNCHANGED <<mem, wr>>
       ELSE /\ mem' = [mem EXCEPT ![wr] = c]
            /\ wr' = Wrap(wr + 1)
    /\ got' = <<>>
    /\ UNCHANGED <<size, rd, style>>

ReadByte ==
    /\ style = "byte"
    /\ IF Empty THEN got' = <<>> /\ UNCHANGED rd
       ELSE /\ got' = <<mem[rd]>>
            /\ rd' = Wrap(rd + 1)
    /\ UNCHANGED <<mem, size, wr, style>>

RemoveBytes(n) ==
    /\ style = "byte"
    /\ rd' = Wrap(rd + Lesser(n, Available))
    /\ got' = <<>>
    /\ UNCHANGED <<mem, size, wr, style>>

-----------------------------------------------------------------------------
(* The calls for a block.                                                    *)

\* What fits is copied, in two parts when it reaches past the end.
WriteBlock(data) ==
    /\ style = "block"
    /\ LET n     == Lesser(Len(data), Room)
           first == Lesser(n, size - wr)
       IN  /\ mem' = Copy(Copy(mem, wr, data, 1, first), 0, data, first + 1, n - first)
           /\ wr' = IF wr + n <= size THEN wr + n ELSE n - first
    /\ got' = <<>>
    /\ UNCHANGED <<size, rd, style>>

ReadBlock(n) ==
    /\ style = "block"
    /\ LET k     == Lesser(n, Available)
           first == Lesser(k, size - rd)
       IN  /\ got' = [i \in 1..k |-> IF i <= first THEN mem[rd + i - 1]
                                                  ELSE mem[i - first - 1]]
           /\ rd' = IF rd + k <= size THEN rd + k ELSE k - first
    /\ UNCHANGED <<mem, size, wr, style>>

-----------------------------------------------------------------------------
FlushBuffer ==
    /\ style # "none"
    /\ rd' = 0 /\ wr' = 0 /\ got' = <<>>
    /\ UNCHANGED <<mem, size, style>>

ResizedInPlace(n, new) ==                       \* mutant
    /\ size' = n /\ mem' = new
    /\ UNCHANGED <<rd, wr>>

\* resize: the new memory holds the old one and any bytes behind it.  Bytes
\* that wrap around the end move to the new end, others to the start.
Resized(n, new) ==
    LET first == size - rd
    IN  /\ size' = n
        /\ IF rd > wr
           THEN /\ mem' = Copy(new, n - first, new, rd, first)
                /\ rd' = n - first
                /\ UNCHANGED wr
           ELSE /\ mem' = Copy(new, 0, new, rd, Available)
                /\ rd' = 0 /\ wr' = Available

\* resizeAdd: it does nothing when there is no memory.
ResizeAdd(n) ==
    /\ style # "none" /\ n > 0 /\ size + n <= MaxSize
    /\ \/ UNCHANGED <<mem, size, rd, wr>>
       \/ \E new \in [0..(size + n - 1) -> Byte] :
            /\ \A i \in 0..(size - 1) : new[i] = mem[i]
            /\ Resized(size + n, new)
    /\ got' = <<>>
    /\ UNCHANGED style

BufNext ==
    \/ \E c \in Byte : WriteByte(c)
    \/ ReadByte
    \/ \E data \in Data : WriteBlock(data)
    \/ \E n \in 0..MaxData : RemoveBytes(n) \/ ReadBlock(n)
    \/ FlushBuffer
    \/ \E n \in 1..MaxSize : ResizeAdd(n)

BufSpec == BufInit /\ [][BufNext]_bufVars

-----------------------------------------------------------------------------
(* Properties.                                                               *)

\* The bytes that wait, oldest first.
Contents == [i \in 1..Available |-> mem[Wrap(rd + i - 1)]]

Queue == INSTANCE ByteQueue WITH q <- Contents, cap <- size - 1

\* cbuf is a queue: every byte that a write accepts comes out of a read, once
\* and in order, however the indexes wrap and the memory moves.
QueueSpec == Queue!Spec
=============================================================================

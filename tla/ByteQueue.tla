------------------------------ MODULE ByteQueue -----------------------------
(* What cbuf promises: a queue of bytes with a limit.  Writes append what    *)
(* there is room for, reads and removals take from the front, and a resize   *)
(* that adds space keeps the bytes.                                          *)
EXTENDS Integers, Sequences

CONSTANTS Byte,     \* what a byte may be
          MaxData   \* the longest block one call writes or reads

Data == UNION {[1..n -> Byte] : n \in 0..MaxData}

VARIABLES q,    \* the bytes that wait, oldest first
          cap,  \* how many may wait
          got   \* the bytes the last call returned

vars == <<q, cap, got>>

Lesser(a, b) == IF a <= b THEN a ELSE b

Init == q = <<>> /\ cap \in Nat /\ got = <<>>

Put(data) ==
    /\ q' = q \o SubSeq(data, 1, Lesser(Len(data), cap - Len(q)))
    /\ got' = <<>> /\ UNCHANGED cap

Get(n) ==
    /\ got' = SubSeq(q, 1, Lesser(n, Len(q)))
    /\ q' = SubSeq(q, Lesser(n, Len(q)) + 1, Len(q))
    /\ UNCHANGED cap

Remove(n) ==
    /\ q' = SubSeq(q, Lesser(n, Len(q)) + 1, Len(q))
    /\ got' = <<>> /\ UNCHANGED cap

Flush == q' = <<>> /\ got' = <<>> /\ UNCHANGED cap

Grow == /\ cap' \in Nat /\ cap' >= cap
        /\ got' = <<>> /\ UNCHANGED q

Next == \/ \E data \in Data : Put(data)
        \/ \E n \in 0..MaxData : Get(n) \/ Remove(n)
        \/ Flush \/ Grow

Spec == Init /\ [][Next]_vars
=============================================================================

---------------------------- MODULE SerialStream ----------------------------
(* What HardwareSerial promises the sketch about transmission: the port is   *)
(* a bounded FIFO.  A byte accepted by write() goes on the line once, after  *)
(* every byte accepted before it; at most Capacity accepted bytes wait; and  *)
(* end() closes the port only when no accepted byte is still waiting.        *)
(* Bytes carry the number of the write() call that accepted them.            *)
EXTENDS Naturals, Sequences

CONSTANT Capacity   \* how many accepted bytes may wait, at least 1

VARIABLES
    isOpen,   \* between begin() and end()
    queue,    \* bytes accepted and not yet on the line
    sent      \* bytes that went out on the line, in order

vars == <<isOpen, queue, sent>>

Init ==
    /\ isOpen = FALSE
    /\ queue = <<>>
    /\ sent = <<>>

Open ==
    /\ ~isOpen
    /\ isOpen' = TRUE
    /\ UNCHANGED <<queue, sent>>

\* write() accepts the next byte.
Put ==
    /\ isOpen
    /\ Len(queue) < Capacity
    /\ queue' = Append(queue, Len(sent) + Len(queue) + 1)
    /\ UNCHANGED <<isOpen, sent>>

\* The oldest waiting byte goes out.
Emit ==
    /\ queue # <<>>
    /\ sent' = Append(sent, Head(queue))
    /\ queue' = Tail(queue)
    /\ UNCHANGED isOpen

Close ==
    /\ isOpen
    /\ queue = <<>>
    /\ isOpen' = FALSE
    /\ UNCHANGED <<queue, sent>>

Next == Open \/ Put \/ Emit \/ Close

Spec == Init /\ [][Next]_vars /\ WF_vars(Emit)
=============================================================================

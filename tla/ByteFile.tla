------------------------------- MODULE ByteFile -------------------------------
(* What littlefs promises of a file: bytes with a position, what a handle    *)
(* sees of them and what a mount would find.                                 *)
EXTENDS Integers, Sequences

CONSTANTS
    Fill,           \* what a gap is filled with
    Lengths,        \* of reads and writes
    FileMax         \* the longest file

VARIABLES
    mode,           \* off, closed, open, append (open for appending), failed
    content,        \* what the handle sees
    position,
    saved,          \* what a mount would find
    data            \* what the last read returned, or the last write was given

bytefile == <<mode, content, position, saved, data>>

IsOpen == mode \in {"open", "append"}

Larger(a, b)  == IF a > b THEN a ELSE b
Smaller(a, b) == IF a < b THEN a ELSE b

\* The first bytes of a file, a gap behind its end filled.
Cut(file, size) == [i \in 1..size |-> IF i <= Len(file) THEN file[i] ELSE Fill]

Put(file, at, bytes) ==
    Cut(file, at) \o bytes \o SubSeq(file, at + Len(bytes) + 1, Len(file))

Handle(m, bytes, at) == mode' = m /\ content' = bytes /\ position' = at

Init == mode = "closed" /\ content = <<>> /\ position = 0 /\ saved = <<>> /\ data = <<>>

Open ==
    /\ mode = "closed"
    /\ \E m \in {"open", "append"}, bytes \in {saved, <<>>} : Handle(m, bytes, 0)
    /\ UNCHANGED <<saved, data>>

Write ==
    LET at == IF mode = "append" THEN Larger(position, Len(content)) ELSE position IN
    /\ IsOpen /\ Len(data') \in Lengths
    /\ at + Len(data') <= FileMax
    /\ Handle(mode, Put(content, at, data'), at + Len(data'))
    /\ UNCHANGED saved

Read ==
    /\ IsOpen
    /\ \E n \in Lengths :
         data' = SubSeq(content, position + 1, Smaller(position + n, Len(content)))
    /\ Handle(mode, content, position + Len(data'))
    /\ UNCHANGED saved

Seek ==
    /\ IsOpen /\ position' \in 0..FileMax
    /\ UNCHANGED <<mode, content, saved, data>>

Truncate ==
    /\ IsOpen /\ content' = Cut(content, Len(content'))
    /\ UNCHANGED <<mode, position, saved, data>>

Sync ==
    /\ IsOpen /\ saved' = content
    /\ UNCHANGED <<mode, content, position, data>>

\* No room is left: what the handle saw is lost, what was saved is not.
Fail ==
    /\ IsOpen /\ Handle("failed", <<>>, 0)
    /\ UNCHANGED saved

Close ==
    /\ IsOpen \/ mode = "failed"
    /\ Handle("closed", <<>>, 0)
    /\ saved' = IF IsOpen THEN content ELSE saved
    /\ UNCHANGED data

PowerFailure == Handle("off", <<>>, 0) /\ UNCHANGED <<saved, data>>

Mount == mode = "off" /\ Handle("closed", <<>>, 0) /\ UNCHANGED <<saved, data>>

Next == Open \/ Write \/ Read \/ Seek \/ Truncate \/ Sync \/ Fail \/ Close
        \/ PowerFailure \/ Mount

Spec == Init /\ [][Next]_bytefile
===============================================================================

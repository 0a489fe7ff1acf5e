------------------------------ MODULE TextValues ----------------------------
(* What String promises: a variable that holds a text.  When memory is short *)
(* an assignment makes it invalid, and an addition or a change leaves it as  *)
(* it was.  Adding to an invalid String makes it valid.                      *)
EXTENDS Integers, Sequences, FiniteSetsExt

CONSTANTS Names,        \* the String variables
          Texts,        \* literals
          Finds, News   \* what is looked for and what replaces it

VARIABLE val            \* the text of each variable

NUL == 0
SPACE == 1
UPPER == 2
LOWER == 3
Chars == {SPACE, UPPER, LOWER}

Invalid == <<NUL>>
Unspecified == <<NUL, NUL>>     \* moved from, not assigned since

Usable(x) == val[x] # Unspecified
TextOf(x) == IF val[x] = Invalid THEN <<>> ELSE val[x]
Becomes(x, texts) == \E t \in texts : val' = [val EXCEPT ![x] = t]

ToUpper(c) == IF c = LOWER THEN UPPER ELSE c
ToLower(c) == IF c = UPPER THEN LOWER ELSE c

Cut(t, from, count) == SubSeq(t, 1, from) \o SubSeq(t, from + count + 1, Len(t))
Least(a, b) == IF a < b THEN a ELSE b
Most(a, b) == IF a < b THEN b ELSE a

\* t at its index i (from 0), and every index at which it occurs.
OccursAt(t, s, i) == i + Len(t) <= Len(s) /\ SubSeq(s, i + 1, i + Len(t)) = t
Occurrences(t, s) == {i \in 0..Len(s) : OccursAt(t, s, i)}

RECURSIVE Replaced(_, _, _)
Replaced(s, find, new) ==
    IF Occurrences(find, s) = {} THEN s
    ELSE LET i == Min(Occurrences(find, s))
         IN  SubSeq(s, 1, i) \o new
             \o Replaced(SubSeq(s, i + Len(find) + 1, Len(s)), find, new)

\* The text between the first and the last character that is no space.
Trimmed(s) ==
    LET seen == {i \in DOMAIN s : s[i] # SPACE}
    IN  IF seen = {} THEN <<>> ELSE SubSeq(s, Min(seen), Max(seen))

-----------------------------------------------------------------------------
Init == val = [x \in Names |-> <<>>]

Set(x, t) == Becomes(x, {t, Invalid})

Assign(x, y) == Usable(y) /\ Becomes(x, {val[y], Invalid})

MoveFrom(x, y) ==
    /\ x # y /\ Usable(y)
    /\ \E left \in {Invalid, Unspecified} :
         val' = [val EXCEPT ![x] = val[y], ![y] = left]

Add(x, t) == Usable(x) /\ Becomes(x, {val[x], TextOf(x) \o t})

\* What precedes is lost when there is no memory for a copy of it.
Sum(x, y, t) ==
    /\ Usable(y)
    /\ Becomes(x, {TextOf(y) \o t, Invalid} \union IF t = <<>> THEN {} ELSE {t})

Reserve(x) == Usable(x) /\ Becomes(x, {val[x], TextOf(x)})

Substring(x, y, left, right) ==
    /\ Usable(y)
    /\ LET from == Least(left, right)  to == Least(Most(left, right), Len(TextOf(y)))
       IN  Becomes(x, {SubSeq(TextOf(y), from + 1, to), Invalid})

Change(x, new) == Usable(x) /\ Becomes(x, {IF val[x] = Invalid THEN Invalid ELSE new})

Next ==
    \E x \in Names :
        \/ \E t \in Texts : Set(x, t) \/ Add(x, t)
        \/ \E y \in Names : Assign(x, y) \/ MoveFrom(x, y) \/ (Usable(y) /\ Add(x, TextOf(y)))
        \/ \E y \in Names, t \in Texts : Sum(x, y, t)
        \/ \E y, z \in Names : Usable(z) /\ Sum(x, y, TextOf(z))
        \/ Reserve(x)
        \/ \E y \in Names : \E l, r \in 0..(Len(TextOf(y)) + 1) : Substring(x, y, l, r)
        \/ \E i \in DOMAIN TextOf(x), c \in Chars : Change(x, [val[x] EXCEPT ![i] = c])
        \/ \E c, d \in Chars :
             Change(x, [i \in DOMAIN TextOf(x) |-> IF val[x][i] = c THEN d ELSE val[x][i]])
        \/ \E f \in Finds, n \in News : Change(x, Replaced(TextOf(x), f, n))
        \/ \E i, n \in 0..Len(TextOf(x)) : Change(x, Cut(TextOf(x), i, n))
        \/ Change(x, [i \in DOMAIN TextOf(x) |-> ToUpper(val[x][i])])
        \/ Change(x, [i \in DOMAIN TextOf(x) |-> ToLower(val[x][i])])
        \/ Change(x, Trimmed(TextOf(x)))

Spec == Init /\ [][Next]_val
=============================================================================

------------------------------- MODULE Strings ------------------------------
(* String objects (WString.cpp): a buffer on the heap with a terminator, its *)
(* capacity, and a length kept beside it.                                    *)
(*                                                                           *)
(* A heap of HeapSize characters stands for the memory; realloc fails when   *)
(* what all objects hold would exceed it, or a block would exceed MaxBlock.  *)
(* What a buffer holds behind its terminator is not kept apart.              *)
(*                                                                           *)
(* Assumed of the sketch: it gives no String to a call of its own (s += s    *)
(* and s.replace(find, s) read a buffer that is being changed), only assigns *)
(* to a String that was moved from, writes no terminator into one, looks for *)
(* no invalid String, and replaces by something longer only what overlaps    *)
(* neither itself nor the replacement (see Clean).                           *)
EXTENDS Integers, Sequences, FiniteSetsExt

CONSTANTS
    Names,      \* the String variables
    TextLen,    \* literals that are assigned and added have up to so many characters,
    FindLen,    \* those that are replaced, up to so many letters,
    NewLen,     \* and those that replace them, up to so many
    HeapSize,   \* characters all buffers together may have
    MaxBlock    \* characters one buffer may have

ASSUME StringAssumption ==
    {TextLen, FindLen, NewLen, HeapSize, MaxBlock} \subseteq Nat

VARIABLE str            \* the objects

NUL == 0
SPACE == 1
UPPER == 2
LOWER == 3
JUNK == 4               \* memory nothing is known about
Chars == {SPACE, UPPER, LOWER}
UpTo(n, chars) == UNION {[1..k -> chars] : k \in 0..n}
Texts == UpTo(TextLen, Chars)
Finds == UpTo(FindLen, {UPPER, LOWER}) \ {<<>>}
News  == UpTo(NewLen, {UPPER, LOWER})

Null == <<NUL>>         \* buffer == NULL; other buffers are what they hold
                        \* before their terminator
Invalidated == [buffer |-> Null, capacity |-> 0, len |-> 0]
Left == <<JUNK>>        \* what move() leaves in a buffer of which len is 0

Least(a, b) == IF a < b THEN a ELSE b
Most(a, b) == IF a < b THEN b ELSE a

IsValid(s) == s.buffer # Null
WasMoved(s) == s.buffer = Left

-----------------------------------------------------------------------------
(* Memory: the cells of a buffer, numbered from 0.                           *)

Mem(s) ==
    [i \in 0..s.capacity |-> IF i < Len(s.buffer) THEN s.buffer[i + 1]
                             ELSE IF i = Len(s.buffer) THEN NUL ELSE JUNK]

\* The characters from cell `from' to the first terminator.
CStr(mem, from) ==
    LET end == Min({i \in DOMAIN mem : i >= from /\ mem[i] = NUL})
    IN  [k \in 1..(end - from) |-> mem[from + k - 1]]

\* memcpy and memmove: n cells from cell f on, to cell t.
Moved(mem, t, f, n) ==
    [i \in DOMAIN mem |-> IF i \in t..(t + n - 1) THEN mem[f + i - t] ELSE mem[i]]

Written(mem, t, text) ==
    [i \in DOMAIN mem |-> IF i \in t..(t + Len(text) - 1) THEN text[i - t + 1] ELSE mem[i]]

StrCpy(mem, t, text) == Written(mem, t, Append(text, NUL))

\* strstr: the first cell from `from' on at which text stands, -1 if none.
StrStr(mem, from, text) ==
    LET at == {i \in from..(from + Len(CStr(mem, from)) - Len(text)) :
                  \A k \in DOMAIN text : mem[i + k - 1] = text[k]}
    IN  IF at = {} THEN -1 ELSE Min(at)

Holding(s, mem, len) == [s EXCEPT !.buffer = CStr(mem, 0), !.len = len]

-----------------------------------------------------------------------------
(* Memory management, copy and move.                                         *)

\* changeBuffer: realloc of a block, while the blocks of `others' are there.
Used(others) == MapThenSumSet(LAMBDA y : str[y].capacity, others)
Allocates(others, size) == size <= MaxBlock /\ Used(others) + size <= HeapSize
Grows(x, size) == Allocates(Names \ {x}, size)

Fits(s, size) == IsValid(s) /\ s.capacity >= size

\* The object once it has room for size characters.
Reserved(s, size) ==
    IF Fits(s, size) THEN s
    ELSE [s EXCEPT !.capacity = size, !.buffer = IF s.len = 0 THEN <<>> ELSE @]

CopyKeepsLength(s, text, length, room) ==       \* mutant
    IF ~(Fits(s, length) \/ room) THEN Invalidated
    ELSE [Reserved(s, length) EXCEPT !.buffer = text]

\* copy, where room says that the memory is there.
CopyTo(s, text, length, room) ==
    IF ~(Fits(s, length) \/ room) THEN Invalidated
    ELSE LET r == Reserved(s, length)
         IN  [r EXCEPT !.len = length, !.buffer = CStr(StrCpy(Mem(r), 0, text), 0)]

\* move: the two objects afterwards.
Taken(s, rhs) ==
    IF IsValid(s) /\ IsValid(rhs) /\ s.capacity >= rhs.len
    THEN [to   |-> [s EXCEPT !.buffer = CStr(StrCpy(Mem(s), 0, rhs.buffer), 0), !.len = rhs.len],
          from |-> [rhs EXCEPT !.buffer = Left, !.len = 0]]
    ELSE [to |-> rhs, from |-> Invalidated]

\* concat: whether it succeeds, and the object afterwards.
Succeeds(s, text, length, room) ==
    text # Null /\ (length = 0 \/ Fits(s, s.len + length) \/ room)

Concat(s, text, length, room) ==
    IF ~Succeeds(s, text, length, room) \/ length = 0 THEN s
    ELSE LET r == Reserved(s, s.len + length)
         IN  Holding(r, StrCpy(Mem(r), s.len, text), s.len + length)

-----------------------------------------------------------------------------
(* Calls that make, assign and join Strings.                                 *)

Becomes(x, s) == str' = [str EXCEPT ![x] = s]
Usable(x) == ~WasMoved(str[x])

\* A constructor of any type but String: the text is what the argument prints as.
Construct(x, text) ==
    Becomes(x, CopyTo(Invalidated, text, Len(text), Grows(x, Len(text))))

SetText(x, text) ==
    Becomes(x, CopyTo(str[x], text, Len(text), Grows(x, Len(text))))

SetNull(x) == Becomes(x, Invalidated)

Assign(x, y) ==
    /\ Usable(y)
    /\ IF x = y THEN UNCHANGED str
       ELSE IF IsValid(str[y])
            THEN Becomes(x, CopyTo(str[x], str[y].buffer, str[y].len, Grows(x, str[y].len)))
            ELSE Becomes(x, Invalidated)

MoveAssign(x, y) ==
    /\ Usable(y) /\ x # y
    /\ LET m == Taken(str[x], str[y])
       IN  str' = [str EXCEPT ![x] = m.to, ![y] = m.from]

ConcatString(x, y) ==
    /\ Usable(x) /\ Usable(y) /\ x # y
    /\ Becomes(x, Concat(str[x], str[y].buffer, str[y].len,
                         Grows(x, str[x].len + str[y].len)))

\* Of a literal, a character or a number, by what it prints as.
ConcatText(x, text) ==
    /\ Usable(x)
    /\ Becomes(x, Concat(str[x], text, Len(text), Grows(x, str[x].len + Len(text))))

\* x = y + text: a StringSumHelper copies y, takes the text, and is moved to x.
Sum(x, y, text) ==
    /\ Usable(y)
    /\ LET copy == IF IsValid(str[y])
                   THEN CopyTo(Invalidated, str[y].buffer, str[y].len,
                               Allocates(Names, str[y].len))
                   ELSE Invalidated
           room == Allocates(Names, copy.len + Len(text))
           sum  == IF Succeeds(copy, text, Len(text), room)
                   THEN Concat(copy, text, Len(text), room) ELSE Invalidated
       IN  Becomes(x, Taken(str[x], sum).to)

SumString(x, y, z) == Usable(z) /\ Sum(x, y, str[z].buffer)

ReserveCall(x, size) ==
    /\ Usable(x)
    /\ IF Fits(str[x], size) \/ ~Grows(x, size) THEN UNCHANGED str
       ELSE Becomes(x, Reserved(str[x], size))

\* x = y.substring(left, right): the rest of y is cut off for a moment, and an
\* empty String takes the C string that is left.
Substring(x, y, left, right) ==
    /\ Usable(y)
    /\ LET from == Least(left, right)
           to   == Least(Most(left, right), str[y].len)
           part == CStr([Mem(str[y]) EXCEPT ![to] = NUL], from)
           out  == CopyTo(Invalidated, <<>>, 0, Allocates(Names, 0))
           cut  == IF from >= str[y].len THEN out
                   ELSE CopyTo(out, part, Len(part), Allocates(Names, Len(part)))
       IN  Becomes(x, Taken(str[x], cut).to)

-----------------------------------------------------------------------------
(* Calls that change a String in place.                                      *)

SetCharAt(x, loc, c) ==
    /\ Usable(x)
    /\ IF loc < str[x].len THEN Becomes(x, [str[x] EXCEPT !.buffer[loc + 1] = c])
       ELSE UNCHANGED str

\* replace(char, char), toLowerCase, toUpperCase: up to the terminator.
EachChar(x, To(_)) ==
    /\ Usable(x)
    /\ IF IsValid(str[x])
       THEN Becomes(x, [str[x] EXCEPT !.buffer = [i \in DOMAIN @ |-> To(@[i])]])
       ELSE UNCHANGED str

ReplaceChar(x, find, new) == EachChar(x, LAMBDA c : IF c = find THEN new ELSE c)
ToLowerCase(x) == EachChar(x, LAMBDA c : IF c = UPPER THEN LOWER ELSE c)
ToUpperCase(x) == EachChar(x, LAMBDA c : IF c = LOWER THEN UPPER ELSE c)

\* The replacement is as long as what it replaces: written over it.
RECURSIVE ReplacedSame(_, _, _, _)
ReplacedSame(mem, readFrom, find, new) ==
    LET found == StrStr(mem, readFrom, find)
    IN  IF found = -1 THEN mem
        ELSE ReplacedSame(Written(mem, found, new), found + Len(new), find, new)

\* It is shorter: what lies between is moved down, then the end.
RECURSIVE ReplacedShorter(_, _, _, _, _)
ReplacedShorter(mem, readFrom, writeTo, find, new) ==
    LET found == StrStr(mem, readFrom, find)
        n     == found - readFrom
    IN  IF found = -1 THEN StrCpy(mem, writeTo, CStr(mem, readFrom))
        ELSE ReplacedShorter(Written(Moved(mem, writeTo, readFrom, n), writeTo + n, new),
                             found + Len(find), writeTo + n + Len(new), find, new)

\* How often the text occurs, one occurrence after the other.
RECURSIVE Count(_, _, _)
Count(mem, readFrom, find) ==
    LET found == StrStr(mem, readFrom, find)
    IN  IF found = -1 THEN 0 ELSE 1 + Count(mem, found + Len(find), find)

\* lastIndexOf(String, fromIndex), which goes on from one character behind the
\* start of each occurrence.
RECURSIVE LastFrom(_, _, _, _, _)
LastFrom(mem, p, fromIndex, find, found) ==
    IF p > fromIndex THEN found
    ELSE LET q == StrStr(mem, p, find)
         IN  IF q = -1 THEN found
             ELSE LastFrom(mem, q + 1, fromIndex, find, IF q <= fromIndex THEN q ELSE found)

LastIndexOf(mem, len, find, fromIndex) ==
    IF Len(find) = 0 \/ len = 0 \/ Len(find) > len THEN -1
    ELSE LastFrom(mem, 0, IF fromIndex >= len THEN len - 1 ELSE fromIndex, find, -1)

\* It is longer: from the last occurrence to the first, the rest is moved up.
RECURSIVE ReplacedLonger(_, _, _, _, _)
ReplacedLonger(mem, len, index, find, new) ==
    LET i    == IF index < 0 THEN -1 ELSE LastIndexOf(mem, len, find, index)
        rest == i + Len(find)
        diff == Len(new) - Len(find)
        room == [Moved(mem, rest + diff, rest, len - rest) EXCEPT ![len + diff] = NUL]
    IN  IF i < 0 THEN [mem |-> mem, len |-> len]
        ELSE ReplacedLonger(Written(room, i, new), len + diff, i - 1, find, new)

\* A text of which no end is the start of itself or of what replaces it.
Clean(find, new) ==
    \A k \in 1..(Len(find) - 1) :
        LET tail == SubSeq(find, k + 1, Len(find))
        IN  SubSeq(find, 1, Len(tail)) # tail /\ SubSeq(new, 1, Len(tail)) # tail

ReplaceLonger(x, find, new) ==
    LET s    == str[x]
        size == s.len + (Len(new) - Len(find)) * Count(Mem(s), 0, find)
        room == size <= s.capacity
        r    == [s EXCEPT !.capacity = Most(@, size)]
        done == ReplacedLonger(Mem(r), s.len, s.len - 1, find, new)
    IN  /\ Clean(find, new)
        /\ IF size = s.len \/ ~(room \/ Grows(x, size)) THEN UNCHANGED str
           ELSE Becomes(x, Holding(r, done.mem, done.len))

Replace(x, find, new) ==
    /\ Usable(x)
    /\ LET s == str[x]
       IN  IF s.len = 0 \/ Len(find) = 0 THEN UNCHANGED str
           ELSE IF Len(new) = Len(find)
           THEN Becomes(x, Holding(s, ReplacedSame(Mem(s), 0, find, new), s.len))
           ELSE IF Len(new) < Len(find)
           THEN Becomes(x, Holding(s, ReplacedShorter(Mem(s), 0, 0, find, new),
                            s.len + (Len(new) - Len(find)) * Count(Mem(s), 0, find)))
           ELSE ReplaceLonger(x, find, new)

RemoveChars(x, index, count) ==
    /\ Usable(x)
    /\ LET s   == str[x]
           n   == Least(count, s.len - index)
           len == s.len - n
       IN  IF index >= s.len \/ count = 0 THEN UNCHANGED str
           ELSE Becomes(x, Holding(s, [Moved(Mem(s), index, index + n, len - index)
                                         EXCEPT ![len] = NUL], len))

\* trim: begin stops at the terminator at the latest, end one before begin.
Trim(x) ==
    /\ Usable(x)
    /\ LET s     == str[x]
           begin == Min({i \in 0..Len(s.buffer) : Mem(s)[i] # SPACE})
           end   == Max({i \in (begin - 1)..(s.len - 1) : i = begin - 1 \/ Mem(s)[i] # SPACE})
           len   == end + 1 - begin
       IN  IF ~IsValid(s) \/ s.len = 0 THEN UNCHANGED str
           ELSE Becomes(x, Holding(s, [Moved(Mem(s), 0, begin, len) EXCEPT ![len] = NUL], len))

-----------------------------------------------------------------------------
(* Calls that ask.  Each gives what the loops over the buffers find.         *)

\* strcmp: the difference at the first place where the two differ.
StrCmp(a, b) ==
    LET at(s, i) == IF i \in DOMAIN s THEN s[i] ELSE NUL
        i == Min({k \in 1..(Least(Len(a), Len(b)) + 1) :
                     at(a, k) # at(b, k) \/ k > Least(Len(a), Len(b))})
    IN  at(a, i) - at(b, i)

CompareTo(s, t) ==
    IF IsValid(s) /\ IsValid(t) THEN StrCmp(s.buffer, t.buffer)
    ELSE IF IsValid(t) /\ t.len > 0 THEN 0 - t.buffer[1]
    ELSE IF IsValid(s) /\ s.len > 0 THEN s.buffer[1] ELSE 0

Equals(s, t) == s.len = t.len /\ CompareTo(s, t) = 0

\* equalsIgnoreCase and equalsConstantTime go to the terminator of the first.
SameUpTo(s, t, Same(_, _)) ==
    s.len = t.len /\ (s.len = 0 \/ \A i \in DOMAIN s.buffer : Same(s.buffer[i], Mem(t)[i - 1]))

Lowered(c) == IF c = UPPER THEN LOWER ELSE c
EqualsIgnoreCase(s, t) == SameUpTo(s, t, LAMBDA c, d : Lowered(c) = Lowered(d))
EqualsConstantTime(s, t) == SameUpTo(s, t, LAMBDA c, d : c = d)

StartsWith(s, t, offset) ==
    /\ s.len >= t.len /\ offset <= s.len - t.len /\ IsValid(s) /\ IsValid(t)
    /\ \A i \in 1..t.len : Mem(s)[offset + i - 1] = t.buffer[i]

EndsWith(s, t) ==
    /\ s.len >= t.len /\ IsValid(s) /\ IsValid(t)
    /\ CStr(Mem(s), s.len - t.len) = t.buffer

IndexOfFromStart(s, t, fromIndex) == StrStr(Mem(s), 0, t.buffer)     \* mutant

IndexOf(s, t, fromIndex) ==
    IF fromIndex >= s.len THEN -1 ELSE StrStr(Mem(s), fromIndex, t.buffer)

\* strrchr on the text cut behind fromIndex.
LastIndexOfChar(s, c, fromIndex) ==
    LET at == {i \in 0..fromIndex : Mem(s)[i] = c}
    IN  IF fromIndex >= s.len \/ at = {} THEN -1 ELSE Max(at)

\* getBytes into a buffer of `size' characters.
GetBytes(s, size, index) ==
    LET n == Least(size - 1, s.len - index)
    IN  IF index >= s.len THEN <<>> ELSE [i \in 1..n |-> Mem(s)[index + i - 1]]

-----------------------------------------------------------------------------
TextInit == str = [x \in Names |-> CopyTo(Invalidated, <<>>, 0, TRUE)]

TextNext ==
    \E x \in Names :
        \/ \E text \in Texts : Construct(x, text) \/ SetText(x, text) \/ ConcatText(x, text)
        \/ SetNull(x)
        \/ \E y \in Names : Assign(x, y) \/ MoveAssign(x, y) \/ ConcatString(x, y)
        \/ \E y \in Names, text \in Texts : Sum(x, y, text)
        \/ \E y, z \in Names : SumString(x, y, z)
        \/ \E size \in 0..MaxBlock : ReserveCall(x, size)
        \/ \E y \in Names, l, r \in 0..MaxBlock : Substring(x, y, l, r)
        \/ \E loc \in 0..MaxBlock, c \in Chars : SetCharAt(x, loc, c)
        \/ \E c, d \in Chars : ReplaceChar(x, c, d)
        \/ \E find \in Finds, new \in News : Replace(x, find, new)
        \/ \E i, n \in 0..MaxBlock : RemoveChars(x, i, n)
        \/ ToLowerCase(x) \/ ToUpperCase(x) \/ Trim(x)

TextSpec == TextInit /\ [][TextNext]_str

-----------------------------------------------------------------------------
(* Properties.                                                               *)

\* The text of an object: its C string, which must be as long as it says.
View(x) ==
    IF ~IsValid(str[x]) \/ (str[x].len = Len(str[x].buffer) /\ ~WasMoved(str[x]))
    THEN str[x].buffer
    ELSE <<NUL, NUL>>

Values == INSTANCE TextValues WITH val <- [x \in Names |-> View(x)]

\* Whatever is assigned, moved, joined, cut and replaced, with a heap that is
\* too small now and then, each String holds the text it should, or none.
TextAsPromised == Values!Spec

Earliest(S) == IF S = {} THEN -1 ELSE Min(S)

\* What the searching and comparing calls find is what is there.
Found(s, t) ==
    /\ Equals(s, t) <=> s.len = t.len /\ (s.len = 0 \/ s.buffer = t.buffer)
    /\ EqualsConstantTime(s, t) <=> Equals(s, t)
    /\ Equals(s, t) => EqualsIgnoreCase(s, t)
    /\ CompareTo(s, t) < 0 <=> CompareTo(t, s) > 0
    /\ IsValid(s) /\ IsValid(t) =>
         LET at == Values!Occurrences(t.buffer, s.buffer)
         IN  /\ \A i \in 0..s.len : StartsWith(s, t, i) <=> i \in at
             /\ EndsWith(s, t) <=> s.len - t.len \in at
             /\ \A from \in 0..(s.len - 1) :
                  /\ IndexOf(s, t, from) = Earliest({i \in at : i >= from})
                  /\ t.len > 0 => LastIndexOf(Mem(s), s.len, t.buffer, from) =
                       Max({i \in at \union {-1} : i <= from})
                  /\ \A c \in Chars : LastIndexOfChar(s, c, from) =
                       Max({i \in Values!Occurrences(<<c>>, s.buffer) \union {-1} : i <= from})
                  /\ \A size \in 1..MaxBlock :
                       GetBytes(s, size, from) = SubSeq(s.buffer, from + 1, Least(from + size - 1, s.len))
SearchesFind ==
    \A x, y \in Names : Usable(x) /\ Usable(y) => Found(str[x], str[y])
=============================================================================

---------------------------- MODULE StreamParser ----------------------------
(* The waiting calls of Stream (Stream.cpp): find, parseInt, parseFloat,     *)
(* readBytes and readString.  What arrives is a sequence of characters and   *)
(* pauses, a pause being longer than the timeout of a call and shorter than  *)
(* two; behind the last character nothing comes any more.  The numbers read  *)
(* are kept exact: no long overflows, no float is rounded.                   *)
EXTENDS Integers, Sequences, FiniteSetsExt, Functions

CONSTANTS
    MaxFeed,    \* bound: characters and pauses a stream of letters has
    MaxDigits,  \* bound: those a stream of digits has
    MaxTarget,  \* letters of the text that is looked for
    MaxStop     \* letters of the text that ends the search

ASSUME ParserAssumption == {MaxFeed, MaxDigits, MaxTarget, MaxStop} \subseteq Nat

VARIABLE feed           \* what has not been read yet

PAUSE == "pause"
NONE == "none"          \* read() or peek() with nothing there: -1
NO_IGNORE_CHAR == ""
Letters == {"a", "b"}
Signs == {"-", "1", "2", ".", ",", " ", "x"}
Numerals == <<"0", "1", "2", "3", "4", "5", "6", "7", "8", "9">>
Digits == [c \in Range(Numerals) |-> CHOOSE d \in 0..9 : Numerals[d + 1] = c]
IsDigit(c) == c \in DOMAIN Digits
Lookaheads == {"SKIP_ALL", "SKIP_NONE", "SKIP_WHITESPACE"}
IsSpace(c) == c \in {" ", "\t", "\r", "\n"}

FeedsUpTo(n, S) == UNION {[1..k -> S] : k \in 0..n}

-----------------------------------------------------------------------------
(* timedRead and timedPeek: the character, and the stream afterwards.        *)

TimedPeek(f) ==
    IF f = <<>> THEN [c |-> NONE, rest |-> f]
    ELSE IF Head(f) = PAUSE THEN [c |-> NONE, rest |-> Tail(f)]
    ELSE [c |-> Head(f), rest |-> f]

TimedRead(f) ==
    LET p == TimedPeek(f)
    IN  IF p.c = NONE THEN p ELSE [p EXCEPT !.rest = Tail(f)]

-----------------------------------------------------------------------------
(* findMulti: each target has an index, how much of it has just been read.   *)

\* The loop of a mismatch: the longest shorter start of the target that ends
\* with c here.
RECURSIVE WalkBack(_, _, _, _)
WalkBack(target, orig, index, c) ==
    LET i == index - 1
    IN  IF c = target[i + 1] /\ \A k \in 1..i : target[k] = target[k + orig - i]
        THEN i + 1
        ELSE IF i = 0 THEN 0 ELSE WalkBack(target, orig, i, c)

AdvanceOrRestart(target, index, c) ==           \* mutant
    IF c = target[index + 1] THEN index + 1
    ELSE IF c = target[1] THEN 1 ELSE 0

Advance(target, index, c) ==
    IF c = target[index + 1] THEN index + 1
    ELSE IF index = 0 THEN 0 ELSE WalkBack(target, index, index, c)

RECURSIVE Search(_, _, _)
Search(f, targets, index) ==
    LET r    == TimedRead(f)
        next == [k \in DOMAIN targets |-> Advance(targets[k], index[k], r.c)]
        done == {k \in DOMAIN targets : next[k] = Len(targets[k])}
    IN  IF r.c = NONE THEN [found |-> 0, rest |-> r.rest]
        ELSE IF done # {} THEN [found |-> Min(done), rest |-> r.rest]
        ELSE Search(r.rest, targets, next)

FindMulti(f, targets) ==
    LET empty == {k \in DOMAIN targets : targets[k] = <<>>}
    IN  IF empty # {} THEN [found |-> Min(empty), rest |-> f]
        ELSE Search(f, targets, [k \in DOMAIN targets |-> 0])

\* findUntil: whether the first of the two was found.
FindUntil(f, target, stop) ==
    LET r == FindMulti(f, <<target, stop>>)
    IN  [found |-> r.found = 1, rest |-> r.rest]

FindText(f, target) ==
    LET r == FindMulti(f, <<target>>)
    IN  [found |-> r.found = 1, rest |-> r.rest]

-----------------------------------------------------------------------------
(* parseInt and parseFloat.                                                  *)

RECURSIVE PeekNextDigit(_, _, _)
PeekNextDigit(f, lookahead, detectDecimal) ==
    LET p == TimedPeek(f)
    IN  IF p.c = NONE \/ p.c = "-" \/ IsDigit(p.c) \/ (detectDecimal /\ p.c = ".") THEN p
        ELSE IF lookahead = "SKIP_NONE" \/ (lookahead = "SKIP_WHITESPACE" /\ ~IsSpace(p.c))
        THEN [c |-> NONE, rest |-> p.rest]
        ELSE PeekNextDigit(Tail(p.rest), lookahead, detectDecimal)

NoNumber == [negative |-> FALSE, fraction |-> FALSE, value |-> 0, places |-> 0]

\* One turn of the loop, for the character c.
Noted(n, c, ignore, decimal) ==
    IF c = ignore THEN n
    ELSE IF c = "-" THEN [n EXCEPT !.negative = TRUE]
    ELSE IF decimal /\ c = "." THEN [n EXCEPT !.fraction = TRUE]
    ELSE IF IsDigit(c)
    THEN [n EXCEPT !.value = @ * 10 + Digits[c], !.places = IF n.fraction THEN @ + 1 ELSE @]
    ELSE n

RECURSIVE Parse(_, _, _, _, _)
Parse(f, c, n, ignore, decimal) ==
    LET now  == Noted(n, c, ignore, decimal)
        next == TimedPeek(Tail(f))
    IN  IF IsDigit(next.c) \/ next.c = ignore \/ (decimal /\ next.c = "." /\ ~now.fraction)
        THEN Parse(next.rest, next.c, now, ignore, decimal)
        ELSE [number |-> now, rest |-> next.rest]

ParseNumber(f, lookahead, ignore, decimal) ==
    LET p == PeekNextDigit(f, lookahead, decimal)
    IN  IF p.c = NONE THEN [number |-> NoNumber, rest |-> p.rest]
        ELSE Parse(p.rest, p.c, NoNumber, ignore, decimal)

ParseInt(f, lookahead, ignore) == ParseNumber(f, lookahead, ignore, FALSE)
ParseFloat(f, lookahead, ignore) == ParseNumber(f, lookahead, ignore, TRUE)

-----------------------------------------------------------------------------
(* readBytes, readBytesUntil, readString, readStringUntil.                   *)

RECURSIVE ReadUntil(_, _, _, _)
ReadUntil(f, terminator, length, text) ==
    LET r == TimedRead(f)
    IN  IF Len(text) = length THEN [text |-> text, rest |-> f]
        ELSE IF r.c \in {NONE, terminator} THEN [text |-> text, rest |-> r.rest]
        ELSE ReadUntil(r.rest, terminator, length, Append(text, r.c))

ReadBytesUntil(f, terminator, length) == ReadUntil(f, terminator, length, <<>>)
ReadBytes(f, length) == ReadUntil(f, NONE, length, <<>>)
ReadStringUntil(f, terminator) == ReadUntil(f, terminator, -1, <<>>)
ReadString(f) == ReadUntil(f, NONE, -1, <<>>)

-----------------------------------------------------------------------------
StreamInit == feed \in FeedsUpTo(MaxFeed, Letters \union {PAUSE})
                       \union FeedsUpTo(MaxDigits, Signs \union {PAUSE})

Targets == FeedsUpTo(MaxTarget, Letters)
Stops == FeedsUpTo(MaxStop, Letters)
Ignores == {NO_IGNORE_CHAR, ","}

Find(target) == feed' = FindText(feed, target).rest
FindOrStop(target, stop) == feed' = FindUntil(feed, target, stop).rest
Integer(lookahead, ignore) == feed' = ParseInt(feed, lookahead, ignore).rest
Float(lookahead, ignore) == feed' = ParseFloat(feed, lookahead, ignore).rest
Text(terminator) == feed' = ReadStringUntil(feed, terminator).rest
Bytes(terminator, length) == feed' = ReadBytesUntil(feed, terminator, length).rest

StreamNext ==
    \/ \E target \in Targets : Find(target) \/ \E stop \in Stops : FindOrStop(target, stop)
    \/ \E lookahead \in Lookaheads, ignore \in Ignores :
         Integer(lookahead, ignore) \/ Float(lookahead, ignore)
    \/ \E t \in {"a", ",", NONE} : Text(t) \/ \E n \in 0..MaxFeed : Bytes(t, n)

StreamSpec == StreamInit /\ [][StreamNext]_feed

-----------------------------------------------------------------------------
(* Properties.                                                               *)

\* The characters before the first pause, and what follows the first n of them
\* or, when they do not do, the pause.
Arrived(f) == SubSeq(f, 1, Min({i \in DOMAIN f : f[i] = PAUSE} \union {Len(f) + 1}) - 1)
After(f, n) == SubSeq(f, n + 1, Len(f))
TimedOut(f) == After(f, Len(Arrived(f)) + 1)

\* The first place where one of the targets ends, and which one that is.
FoundFirst(f, targets) ==
    LET s == Arrived(f)
        EndsAt(k, n) == n >= Len(targets[k]) /\ SubSeq(s, n - Len(targets[k]) + 1, n) = targets[k]
        ends == {n \in 0..Len(s) : \E k \in DOMAIN targets : EndsAt(k, n)}
    IN  IF ends = {} THEN [found |-> 0, rest |-> TimedOut(f)]
        ELSE [found |-> Min({k \in DOMAIN targets : EndsAt(k, Min(ends))}),
              rest  |-> After(f, Min(ends))]

\* The number a token stands for.
RECURSIVE Decimal(_)
Decimal(s) == IF s = <<>> THEN 0 ELSE 10 * Decimal(SubSeq(s, 1, Len(s) - 1)) + Digits[s[Len(s)]]

Meaning(token) ==
    LET points == {i \in DOMAIN token : token[i] = "."}
        places == IF points = {} THEN <<>> ELSE After(token, Min(points))
    IN  [negative |-> token[1] = "-",
         fraction |-> points # {},
         value    |-> Decimal(SelectSeq(token, IsDigit)),
         places   |-> Len(SelectSeq(places, IsDigit))]

\* What may be skipped is; then a sign, a digit or a point starts a token of
\* digits, ignored characters and at most one point.
NumberRead(f, lookahead, ignore, decimal) ==
    LET s == Arrived(f)
        Starts(i) == s[i] = "-" \/ IsDigit(s[i]) \/ (decimal /\ s[i] = ".")
        Halts(i)  == Starts(i) \/ lookahead = "SKIP_NONE"
                     \/ (lookahead = "SKIP_WHITESPACE" /\ ~IsSpace(s[i]))
        halts == {i \in DOMAIN s : Halts(i)}
        i     == Min(halts)
        Runs(e) == \A k \in (i + 1)..e :
            \/ IsDigit(s[k]) \/ s[k] = ignore
            \/ decimal /\ s[k] = "." /\ \A j \in i..(k - 1) : s[j] # "."
        e     == Max({n \in i..Len(s) : Runs(n)})
    IN  IF halts = {} THEN [number |-> NoNumber, rest |-> TimedOut(f)]
        ELSE IF ~Starts(i) THEN [number |-> NoNumber, rest |-> After(f, i - 1)]
        ELSE [number |-> Meaning(SubSeq(s, i, e)),
              rest   |-> IF e = Len(s) THEN TimedOut(f) ELSE After(f, e)]

\* All before the terminator or the pause, or as many characters as asked for.
TextRead(f, terminator, length) ==
    LET s == Arrived(f)
        n == Min({i \in DOMAIN s : s[i] = terminator} \union {Len(s) + 1}) - 1
    IN  IF length \in 0..n THEN [text |-> SubSeq(s, 1, length), rest |-> After(f, length)]
        ELSE [text |-> SubSeq(s, 1, n), rest |-> After(f, n + 1)]

\* Each call finds the first occurrence, reads the number or the text that
\* stands next in the stream, and leaves the stream behind it; what it skips
\* and where it gives up is what its parameters say.
ReadsAsSpecified ==
    /\ \A target \in Targets : FindMulti(feed, <<target>>) = FoundFirst(feed, <<target>>)
    /\ \A target \in Targets, stop \in Stops :
         FindMulti(feed, <<target, stop>>) = FoundFirst(feed, <<target, stop>>)
    /\ \A l \in Lookaheads, ignore \in Ignores :
         /\ ParseInt(feed, l, ignore) = NumberRead(feed, l, ignore, FALSE)
         /\ ParseFloat(feed, l, ignore) = NumberRead(feed, l, ignore, TRUE)
    /\ \A t \in {"a", ",", NONE} :
         /\ ReadStringUntil(feed, t) = TextRead(feed, t, -1)
         /\ \A n \in 0..MaxFeed : ReadBytesUntil(feed, t, n) = TextRead(feed, t, n)
=============================================================================

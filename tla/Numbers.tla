------------------------------- MODULE Numbers ------------------------------
(* Numbers as text: Print::print and println, ltoa and ultoa (String(n)), and *)
(* a peer that reads each line with parseInt or parseFloat.  A long has      *)
(* LongBits bits.  A fraction is a number of eighths, which a double holds    *)
(* exactly; Scale units make 1, so that rounding and digits are exact too.   *)
EXTENDS StreamParser

CONSTANTS
    LongBits,   \* bits of a long
    MaxEighths, \* bound: fractions that are printed
    MaxPlaces   \* bound: digits behind the point

ASSUME NumberAssumption ==
    /\ LongBits \in Nat \ {0} /\ MaxEighths \in Nat
    /\ MaxPlaces \in 0..3

VARIABLE sent           \* the number in the line, and how it was printed

Word == 2 ^ LongBits
Longs == (0 - Word \div 2)..(Word \div 2 - 1)
Scale == 16000
Nothing == [kind |-> "nothing"]
Bases == {2, 8, 10, 16}
Upper == Numerals \o <<"A", "B", "C", "D", "E", "F">>
Lower == Numerals \o <<"a", "b", "c", "d", "e", "f">>

-----------------------------------------------------------------------------
(* Whole numbers.                                                            *)

\* The digits that division by the base yields, the last one first.
RECURSIVE Numeral(_, _, _)
Numeral(n, base, glyphs) ==
    LET last == <<glyphs[(n % base) + 1]>>
    IN  IF n \div base = 0 THEN last ELSE Numeral(n \div base, base, glyphs) \o last

PrintNumber(n, base) == Numeral(n, IF base < 2 THEN 10 ELSE base, Upper)

PrintLongUnsigned(n, base) == PrintNumber(n % Word, base)       \* mutant

\* print(long, base): a sign in base 10 only.
PrintLong(n, base) ==
    IF base = 10 /\ n < 0 THEN <<"-">> \o PrintNumber((0 - n) % Word, 10)
    ELSE PrintNumber(n % Word, base)

\* ltoa, of which itoa, utoa and ultoa are variants.
Ltoa(n, radix) ==
    IF radix = 10 /\ n < 0 THEN <<"-">> \o Numeral((0 - n) % Word, 10, Lower)
    ELSE Numeral(n % Word, radix, Lower)

\* print(int64_t, base): a sign in every base, and never base 1.
PrintLL(n, base) ==
    (IF n < 0 THEN <<"-">> ELSE <<>>)
    \o Numeral((IF n < 0 THEN 0 - n ELSE n) % Word, IF base < 2 THEN 2 ELSE base, Upper)

-----------------------------------------------------------------------------
(* Fractions.                                                                *)

\* The loop of printFloat: one digit after the other.
RECURSIVE Fraction(_, _)
Fraction(remainder, digits) ==
    IF digits = 0 THEN <<>>
    ELSE PrintLong((remainder * 10) \div Scale, 10) \o Fraction((remainder * 10) % Scale, digits - 1)

Absolute(n) == IF n < 0 THEN 0 - n ELSE n

PrintFloat(eighths, digits) ==
    LET number == Absolute(eighths) * (Scale \div 8) + (Scale \div 2) \div 10 ^ digits
    IN  (IF eighths < 0 THEN <<"-">> ELSE <<>>)
        \o PrintNumber(number \div Scale, 10)
        \o (IF digits > 0 THEN <<".">> ELSE <<>>)
        \o Fraction(number % Scale, digits)

Println(text) == feed' = feed \o text \o <<"\r", "\n">>

-----------------------------------------------------------------------------
NumberInit == feed = <<>> /\ sent = Nothing

PrintALong(n, base) ==
    /\ sent = Nothing
    /\ \/ Println(PrintLong(n, base))
       \/ Println(Ltoa(n, base))
    /\ sent' = [kind |-> "long", n |-> n, base |-> base]

PrintALongLong(n, base) ==
    /\ sent = Nothing /\ Println(PrintLL(n, base))
    /\ sent' = [kind |-> "long long", n |-> n, base |-> base]

PrintAFloat(n, digits) ==
    /\ sent = Nothing /\ Println(PrintFloat(n, digits))
    /\ sent' = [kind |-> "float", n |-> n, digits |-> digits]

\* The peer takes the number and leaves the end of the line for the next call.
ReadNumber ==
    /\ sent # Nothing /\ sent' = Nothing
    /\ feed' = IF sent.kind # "float"
               THEN IF sent.base = 10 THEN ParseInt(feed, "SKIP_ALL", NO_IGNORE_CHAR).rest
                    ELSE ReadBytes(feed, Len(feed) - 2).rest
               ELSE ParseFloat(feed, "SKIP_ALL", NO_IGNORE_CHAR).rest

NumberNext ==
    \/ \E n \in Longs, base \in Bases : PrintALong(n, base) \/ PrintALongLong(n, base)
    \/ \E n \in (0 - MaxEighths)..MaxEighths, digits \in 0..MaxPlaces : PrintAFloat(n, digits)
    \/ ReadNumber

-----------------------------------------------------------------------------
(* Properties.                                                               *)

\* What digits of a base stand for.
RECURSIVE Valued(_, _)
Valued(digits, base) ==
    IF digits = <<>> THEN 0
    ELSE LET d == CHOOSE d \in 1..16 : digits[Len(digits)] \in {Upper[d], Lower[d]}
         IN  Valued(SubSeq(digits, 1, Len(digits) - 1), base) * base + d - 1

\* parseInt and parseFloat read back the number that print() or String() made
\* a text of, a fraction to the nearest one with so many digits, ties up; in another
\* base the text is that of the two's complement, or of a long long with its
\* sign (Print.cpp:86-126, 260-386,
\* itoa.c:66-162, Stream.cpp:139-209).
PrintedIsRead ==
    /\ sent.kind \in {"long", "long long"} /\ sent.base = 10 =>
         LET read == ParseInt(feed, "SKIP_ALL", NO_IGNORE_CHAR).number
         IN  read.value = Absolute(sent.n) /\ read.negative = (sent.n < 0)
    /\ sent.kind \in {"long", "long long"} /\ sent.base # 10 =>
         Valued(SelectSeq(feed, LAMBDA c : c \notin {"-", "\r", "\n"}), sent.base) =
             IF sent.kind = "long" THEN sent.n % Word ELSE Absolute(sent.n)
    /\ sent.kind = "long long" => ("-" \in Range(feed) <=> sent.n < 0)
    /\ sent.kind = "float" =>
         LET read == ParseFloat(feed, "SKIP_ALL", NO_IGNORE_CHAR).number
             off  == read.value * 8 - Absolute(sent.n) * 10 ^ sent.digits
         IN  /\ read.places = sent.digits /\ read.negative = (sent.n < 0)
             /\ off \in -3..4
=============================================================================

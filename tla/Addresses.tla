------------------------------ MODULE Addresses -----------------------------
(* IPAddress (IPAddress.cpp): an IPv4 or IPv6 address in 16 bytes, the last   *)
(* four those of an IPv4 address, its text, and the parser that reads texts. *)
EXTENDS Integers, Sequences, FiniteSetsExt, Functions, SequencesExt

CONSTANTS
    Octets,     \* the numbers IPv4 addresses are made of,
    Fields,     \* and those of IPv6 addresses
    MaxGroups4, \* bound: numbers of a text that may be an IPv4 address,
    MaxGroups6  \* and of one that may be an IPv6 address

ASSUME AddressAssumption ==
    /\ Octets \subseteq 0..255 /\ Fields \subseteq 0..65535
    /\ {MaxGroups4, MaxGroups6} \subseteq Nat

VARIABLES
    ip,         \* the object: type, bytes and zone
    typed       \* the text that it was made from, or that was made from it

IPADDRESS_V4_BYTES_INDEX == 12
IP6_NO_ZONE == 0
Hex == <<"0", "1", "2", "3", "4", "5", "6", "7", "8", "9", "a", "b", "c", "d", "e", "f">>
HexDigits == [c \in Range(Hex) |-> CHOOSE d \in 0..15 : Hex[d + 1] = c]
IsDecimal(c) == c \in DOMAIN HexDigits /\ HexDigits[c] < 10
NoBytes == [i \in 0..15 |-> 0]

\* Memory where an object is made, for which no call names a zone.
Fresh == [type |-> "IPv4", bytes |-> NoBytes, zone |-> IP6_NO_ZONE]

-----------------------------------------------------------------------------
(* Making and comparing addresses.                                           *)

\* From four octets, an int or a pointer to bytes.
FromOctets(octets) ==
    [Fresh EXCEPT !.bytes = [i \in 0..15 |->
        IF i >= IPADDRESS_V4_BYTES_INDEX THEN octets[i - IPADDRESS_V4_BYTES_INDEX + 1] ELSE 0]]

FromFields(fields, z) ==
    [type |-> "IPv6", zone |-> z,
     bytes |-> [i \in 0..15 |-> IF i % 2 = 0 THEN fields[i \div 2 + 1] \div 256
                                ELSE fields[i \div 2 + 1] % 256]]

\* to_ip_addr_t and from_ip_addr_t: the stack's form, which has one word for an
\* IPv4 address.
ToIpAddrT(a) ==
    IF a.type = "IPv6" THEN [type |-> "V6", addr |-> a.bytes, zone |-> a.zone]
    ELSE [type |-> "V4", addr |-> [i \in 0..3 |-> a.bytes[IPADDRESS_V4_BYTES_INDEX + i]]]

FromIpAddrT(a, t) ==
    IF t.type = "V6" THEN [type |-> "IPv6", bytes |-> t.addr, zone |-> t.zone]
    ELSE [FromOctets([i \in 1..4 |-> t.addr[i - 1]]) EXCEPT !.zone = a.zone]

FieldOf(bytes, f) == bytes[2 * f] * 256 + bytes[2 * f + 1]

\* operator==: the zone does not count.
Same(a, b) ==
    /\ a.type = b.type
    /\ \A i \in (IF a.type = "IPv4" THEN 12..15 ELSE 0..15) : a.bytes[i] = b.bytes[i]

-----------------------------------------------------------------------------
(* toString and printTo, which write the same texts; printTo adds the zone.  *)

RECURSIVE InBase(_, _)
InBase(n, base) ==
    (IF n < base THEN <<>> ELSE InBase(n \div base, base)) \o <<Hex[(n % base) + 1]>>

\* The first of the longest runs of more than one zero field.
LongestRun(bytes) ==
    LET Zeroes(s, n) == s + n <= 8 /\ \A f \in s..(s + n - 1) : FieldOf(bytes, f) = 0
        lengths == {n \in 2..8 : \E s \in 0..7 : Zeroes(s, n)}
    IN  IF lengths = {} THEN [start |-> -1, length |-> 1]
        ELSE [start |-> Min({s \in 0..7 : Zeroes(s, Max(lengths))}), length |-> Max(lengths)]

TextOf6(bytes) ==
    LET run == LongestRun(bytes)
        Written6(f) ==
            IF f < run.start \/ f >= run.start + run.length
            THEN InBase(FieldOf(bytes, f), 16) \o (IF f < 7 THEN <<":">> ELSE <<>>)
            ELSE IF f = run.start THEN (IF f = 0 THEN <<":", ":">> ELSE <<":">>)
            ELSE <<>>
    IN  FlattenSeq([k \in 1..8 |-> Written6(k - 1)])

Octet(bytes, i) == InBase(bytes[IPADDRESS_V4_BYTES_INDEX + i], 10)

TextOfAddress(a) ==
    IF a.type = "IPv6" THEN TextOf6(a.bytes)
    ELSE Octet(a.bytes, 0) \o <<".">> \o Octet(a.bytes, 1) \o <<".">>
         \o Octet(a.bytes, 2) \o <<".">> \o Octet(a.bytes, 3)

PrintTo(a) ==
    TextOfAddress(a) \o IF a.type = "IPv6" /\ a.zone > 0 THEN <<"%">> \o InBase(a.zone - 1, 10) ELSE <<>>

-----------------------------------------------------------------------------
(* fromString.                                                               *)

\* fromString4, character by character; a text that is refused leaves the
\* bytes it had got to.
RECURSIVE Parse4(_, _, _, _)
Parse4(text, bytes, acc, dots) ==
    LET c     == Head(text)
        value == (IF acc < 0 THEN 0 ELSE acc * 10) + HexDigits[c]
        byte  == IPADDRESS_V4_BYTES_INDEX + dots
    IN  IF text = <<>>
        THEN IF dots # 3 \/ acc < 0 THEN [ok |-> FALSE, bytes |-> bytes]
             ELSE [ok |-> TRUE, bytes |-> [bytes EXCEPT ![15] = acc]]
        ELSE IF IsDecimal(c)
        THEN IF value > 255 THEN [ok |-> FALSE, bytes |-> bytes]
             ELSE Parse4(Tail(text), bytes, value, dots)
        ELSE IF c # "." \/ dots = 3 \/ acc < 0 THEN [ok |-> FALSE, bytes |-> bytes]
        ELSE Parse4(Tail(text), [bytes EXCEPT ![byte] = acc], -1, dots + 1)

\* What follows a '%': the first number in it.
RECURSIVE ZoneOf(_)
ZoneOf(text) ==
    IF text = <<>> THEN 1
    ELSE IF ~IsDecimal(Head(text)) THEN ZoneOf(Tail(text))
    ELSE LET n == Max({k \in DOMAIN text : \A i \in 1..k : IsDecimal(text[i])})
         IN  1 + FoldLeft(LAMBDA z, c : 10 * z + HexDigits[c], 0, SubSeq(text, 1, n))

Starts(text, c) == text # <<>> /\ Head(text) = c
Halves(bytes, f, acc) == [bytes EXCEPT ![2 * f] = acc \div 256, ![2 * f + 1] = acc % 256]

\* fromString6.  p: bytes, zone, colons, where the double colon was (-1) and
\* whether the text is good so far.
RECURSIVE Parse6(_, _, _)
Parse6(text, p, acc) ==
    LET c     == Head(text)
        rest  == Tail(text)
        twice == c = ":" /\ Starts(rest, ":")
        bad   == [p EXCEPT !.ok = FALSE]
        next  == [p EXCEPT !.bytes = Halves(@, p.colons, acc), !.colons = @ + 1,
                           !.double = IF twice THEN p.colons + (IF acc # 0 THEN 1 ELSE 0) ELSE @]
    IN  IF text = <<>> THEN [p EXCEPT !.acc = acc]
        ELSE IF c \in DOMAIN HexDigits
        THEN IF acc * 16 + HexDigits[c] > 65535 THEN bad
             ELSE Parse6(rest, p, acc * 16 + HexDigits[c])
        ELSE IF c = "%" THEN [p EXCEPT !.acc = acc, !.zone = ZoneOf(rest)]
        ELSE IF \/ c # ":" \/ rest = <<>> \/ p.colons = 7
                \/ twice /\ (p.double >= 0 \/ Starts(Tail(rest), ":"))
        THEN bad
        ELSE Parse6(IF twice THEN Tail(rest) ELSE rest, next, 0)

SpreadInPlace(bytes, count, double) == bytes                    \* mutant

\* The fields behind the double colon move to the end.
Spread(bytes, count, double) ==
    [i \in 0..15 |->
        IF double = -1 \/ i < double * 2 THEN bytes[i]
        ELSE IF i < 16 - count * 2 + double * 2 THEN 0
        ELSE bytes[i - 16 + count * 2]]

FromString6(a, text) ==
    LET p == Parse6(text, [ok |-> TRUE, bytes |-> a.bytes, zone |-> a.zone, colons |-> 0,
                           double |-> -1, acc |-> 0], 0)
        few  == p.double = -1 /\ p.colons # 7
        many == p.double > -1 /\ p.colons > 6
    IN  IF ~p.ok \/ few \/ many THEN [ok |-> FALSE, to |-> [a EXCEPT !.bytes = p.bytes, !.zone = p.zone]]
        ELSE [ok |-> TRUE,
              to |-> [type |-> "IPv6", zone |-> p.zone,
                      bytes |-> Spread(Halves(p.bytes, p.colons, p.acc), p.colons + 1, p.double)]]

FromString(a, text) ==
    LET four == Parse4(text, NoBytes, -1, 0)
    IN  IF four.ok THEN [ok |-> TRUE, to |-> [a EXCEPT !.type = "IPv4", !.bytes = four.bytes]]
        ELSE FromString6([a EXCEPT !.bytes = four.bytes], text)

-----------------------------------------------------------------------------
\* Groups of digits with separators between them.
Joint(groups, separator) ==
    FlattenSeq([k \in 1..(2 * Len(groups) - 1) |->
                   IF k % 2 = 1 THEN groups[(k + 1) \div 2] ELSE <<separator>>])

Groups4 == {<<>>, <<"1">>, <<"0", "9">>, <<"2", "5", "5">>, <<"2", "5", "6">>}
Groups6 == {<<>>, <<"1">>, <<"0">>}
Odd6 == {<<"f", "f", "f", "f">>, <<"1", "0", "0", "0", "0">>, <<"g">>, <<"1", "%", "e", "7">>}

Typed4 == {Joint(g, ".") : g \in UNION {[1..n -> Groups4] : n \in 1..MaxGroups4}}
Typed6 == {Joint(g, ":") : g \in UNION {[1..n -> Groups6] : n \in 1..MaxGroups6}}
          \union {Joint(g, ":") : g \in UNION {[1..n -> Groups6 \union Odd6] : n \in 1..3}}

AddressInit == ip = Fresh /\ typed \in {<<>>} \union Typed4 \union Typed6

\* operator=(const char *).
Assigned == typed # <<>> /\ ip' = FromString(ip, typed).to /\ typed' = <<>>

Numbered ==
    /\ typed = <<>> /\ ip = Fresh
    /\ \/ \E octets \in [1..4 -> Octets] : ip' = FromOctets(octets)
       \/ \E fields \in [1..8 -> Fields], z \in 0..1 : ip' = FromFields(fields, z)
    /\ UNCHANGED typed

AddressNext == Assigned \/ Numbered

-----------------------------------------------------------------------------
(* Properties, against RFC 4291 and RFC 6874.                                *)

\* A text that is an address: four numbers, or eight fields of which two colons
\* may replace some.  Known to be read otherwise, and left out: a text that
\* begins with a single colon is accepted, two colons at an end of a text
\* with seven fields are not.
OctetValue(g) == FoldLeft(LAMBDA z, c : 10 * z + HexDigits[c], 0, g)

Read4(groups) ==
    /\ Len(groups) = 4
    /\ \A g \in Range(groups) : g # <<>> /\ \A k \in DOMAIN g : IsDecimal(g[k])
    /\ \A g \in Range(groups) : OctetValue(g) <= 255

RECURSIVE Splits(_, _)
Splits(text, separator) ==
    LET at == {i \in DOMAIN text : text[i] = separator}
    IN  IF at = {} THEN <<text>>
        ELSE <<SubSeq(text, 1, Min(at) - 1)>> \o Splits(SubSeq(text, Min(at) + 1, Len(text)), separator)

\* A field holds up to four digits: the parser takes more of them when they
\* are small.
IsField(g) == g # <<>> /\ Len(g) <= 4 /\ \A k \in DOMAIN g : g[k] \in DOMAIN HexDigits
FieldValue(g) == FoldLeft(LAMBDA z, c : 16 * z + HexDigits[c], 0, g)

\* The eight fields of a text, none when it is no address.
Meaning6(text) ==
    LET doubles == {i \in 1..(Len(text) - 1) : text[i] = ":" /\ text[i + 1] = ":"}
        d       == Min(doubles)
        Side(t) == IF t = <<>> THEN <<>> ELSE Splits(t, ":")
        left    == Side(SubSeq(text, 1, d - 1))
        right   == Side(SubSeq(text, d + 2, Len(text)))
        all     == Splits(text, ":")
        gap     == 8 - Len(left) - Len(right)
        fields  == IF doubles = {} THEN all ELSE left \o [k \in 1..gap |-> <<"0">>] \o right
    IN  IF /\ Cardinality(doubles) <= 1 /\ Len(fields) = 8 /\ (doubles # {} => gap > 0)
           /\ \A g \in Range(fields) : IsField(g)
        THEN [k \in 1..8 |-> FieldValue(fields[k])] ELSE <<>>

ReadOtherwise(text) ==
    \/ Starts(text, ":") /\ ~Starts(Tail(text), ":")
    \/ Len(Splits(text, ":")) = 9 /\ (Starts(text, ":") \/ Last(text) = ":")

\* The text of an address, zone included, and the form the network stack takes
\* are read back as that address, and of all texts exactly those that are
\* addresses are read, as what they mean (IPAddress.cpp:108-305, 352-472).
AddressesRead ==
    /\ typed = <<>> => LET read == FromString(Fresh, PrintTo(ip))
                       IN  /\ read.ok /\ Same(read.to, ip)
                           /\ ip.type = "IPv6" => read.to.zone = ip.zone
                           /\ Same(FromIpAddrT(ip, ToIpAddrT(ip)), ip)
    /\ typed # <<>> =>
         LET read == FromString(Fresh, typed)
             text == Splits(typed, "%")[1]
             octets == Splits(typed, ".")
         IN  IF Read4(octets)
             THEN read.ok /\ read.to = FromOctets([k \in 1..4 |-> OctetValue(octets[k])])
             ELSE ReadOtherwise(text) \/
                  IF Meaning6(text) = <<>> THEN ~read.ok
                  ELSE read.ok /\ Same(read.to, FromFields(Meaning6(text), 0))
=============================================================================

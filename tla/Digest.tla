-------------------------------- MODULE Digest --------------------------------
(* The hash builders (SHA1Builder, SHA2Builder, SHA3Builder), how they cut a *)
(* message that comes in pieces into blocks and pad its end, and             *)
(* PBKDF2_HMACBuilder on top of one of them.                                 *)
(*                                                                           *)
(* The compression of a block is free: a state is the sequence of the blocks *)
(* it has absorbed, and a digest has only itself as a preimage.  Bytes are   *)
(* tagged tuples, those of a message numbered in order.  Sizes are scaled: a *)
(* unit stands for the 8 bytes of the length field.                          *)
(*                                                                           *)
(* Assumed of the sketch while Careful is TRUE: it avoids the messages whose *)
(* padding goes wrong (SHA-384/512 with one unit too little left, SHA-3 with *)
(* one byte left) and HMAC on builders with blocks other than 64 bytes; it   *)
(* calls begin() before anything else, gives PBKDF2 a builder it is not      *)
(* using, and starts over (begin) when a new builder's hash has another size.*)
EXTENDS Integers, Sequences, SequencesExt, FiniteSetsExt

CONSTANTS
    Builders,       \* the objects of the sketch
    Algorithms,     \* what they may be made for
    MaxMessage,     \* bound: bytes of a message
    StreamBuf,      \* the buffer of addStream
    HexBuf,         \* the buffer of addHexString
    Secrets,        \* lengths of passwords and salts
    Iterations,     \* iteration counts
    Careful,        \* see above
    MaxCalls        \* bound: calls

ASSUME DigestAssumption ==
    /\ Algorithms \subseteq {"sha1", "sha256", "sha512", "sha3"}
    /\ {MaxMessage, MaxCalls} \subseteq Nat
    /\ {StreamBuf, HexBuf} \subseteq Nat \ {0}
    /\ Secrets \subseteq Nat /\ Iterations \subseteq Nat \ {0}
    /\ Careful \in BOOLEAN

VARIABLES
    builder,    \* the fields of each builder
    message,    \* history: what was added to it since begin()
    ours,       \* history: the builders that PBKDF2 has not used since begin()
    pbkdf,      \* the fields of the PBKDF2 object
    calls       \* counter for the bound

digestVars == <<builder, message, ours, pbkdf, calls>>

-----------------------------------------------------------------------------
(* Sizes and bytes.                                                          *)

BlockSize(alg) == CASE alg \in {"sha1", "sha256"} -> 4
                    [] alg = "sha512" -> 8
                    [] alg = "sha3" -> 5
HashSize(alg)  == IF alg = "sha512" THEN 3 ELSE 2
HMAC_BLOCK_SIZE == 4
LengthSize     == 1

Data(from, n)  == [i \in 1..n |-> <<"data", from + i>>]
Secret(tag, n) == [i \in 1..n |-> <<tag, i>>]
Zero           == <<"0x00", 0>>
Zeros(n)       == [i \in 1..n |-> Zero]
Mark           == <<"0x80", 0>>
Domain         == <<"0x06", 0>>
DomainAndMark  == <<"0x86", 0>>
Length(n)      == <<"length", n>>

Cut(s, size)   == [i \in 1..(Len(s) \div size) |-> SubSeq(s, (i - 1) * size + 1, i * size)]
Rest(s, size)  == SubSeq(s, Len(s) - (Len(s) % size) + 1, Len(s))

\* memcpy of data to buffer + at.
Overwrite(buffer, at, data) ==
    [i \in DOMAIN buffer |-> IF i \in (at + 1)..(at + Len(data)) THEN data[i - at] ELSE buffer[i]]

-----------------------------------------------------------------------------
(* The builders.                                                             *)

Unused(alg) ==
    [alg |-> alg, blocks |-> <<>>, buffer |-> Zeros(BlockSize(alg)), size |-> 0,
     total |-> 0, finalized |-> FALSE, hash |-> <<>>]

\* SHA1Builder clears its hash as well.
Begun(b) ==
    [Unused(b.alg) EXCEPT !.hash = IF b.alg = "sha1" THEN Zeros(HashSize(b.alg)) ELSE b.hash]

Absorbed(b, data) == [b EXCEPT !.blocks = @ \o Cut(data, BlockSize(b.alg))]

\* SHA3Builder::process_block.
Keccak(b, block) == [b EXCEPT !.blocks = Append(@, block)]

\* SHA1Builder::add: what is left in the buffer follows from the total.
Sha1Added(b, data) ==
    LET B     == BlockSize(b.alg)
        left  == b.total % B
        fill  == B - left
        fills == left > 0 /\ Len(data) >= fill
        more  == IF fills THEN SubSeq(data, fill + 1, Len(data)) ELSE data
        first == IF fills THEN SubSeq(b.buffer, 1, left) \o SubSeq(data, 1, fill) ELSE <<>>
        tail  == IF fills \/ left = 0 THEN Rest(more, B) ELSE data
    IN  IF b.finalized \/ data = <<>> THEN b
        ELSE [Absorbed(Absorbed(b, first), more) EXCEPT
                !.total = @ + Len(data),
                !.buffer = Overwrite(IF fills THEN first ELSE @, IF fills THEN 0 ELSE left, tail)]

\* SHA2Builder::add and SHA3Builder::add: buffer_size says what is left.
Sha2Added(b, data) ==
    LET B     == BlockSize(b.alg)
        n     == IF b.size > 0 THEN Min({Len(data), B - b.size}) ELSE 0
        held  == Overwrite(b.buffer, b.size, SubSeq(data, 1, n))
        full  == b.size + n = B
        more  == SubSeq(data, n + 1, Len(data))
        tail  == Rest(more, B)
    IN  IF b.finalized \/ data = <<>> THEN b
        ELSE [Absorbed(Absorbed(b, IF full THEN held ELSE <<>>), more) EXCEPT
                !.total = @ + Len(data),
                !.size = IF tail # <<>> THEN Len(tail) ELSE IF full THEN 0 ELSE b.size + n,
                !.buffer = Overwrite(held, 0, tail)]

Added(b, data) == IF b.alg = "sha1" THEN Sha1Added(b, data) ELSE Sha2Added(b, data)

\* SHA1Builder::calculate pads with the padding's first bytes, then adds the
\* length.
Sha1Padded(b) ==
    LET B    == BlockSize(b.alg)
        last == b.total % B
        padn == IF last < B - LengthSize THEN B - LengthSize - last ELSE 2 * B - LengthSize - last
    IN  Sha1Added(Sha1Added(b, <<Mark>> \o Zeros(padn - 1)), <<Length(b.total)>>)

SpillsLate(n, B) == n > B                                       \* mutant

\* SHA2Builder::pad: no room is left for the length.
Spills(n, B) == n + LengthSize > B

\* SHA-384/512 then clear the length's upper half, where data may be.
Sha2Padded(b) ==
    LET B      == BlockSize(b.alg)
        marked == Overwrite(b.buffer, b.size, <<Mark>>)
        n      == b.size + 1
        spills == Spills(n, B)
        first  == IF spills THEN Overwrite(marked, n, Zeros(B - n)) ELSE <<>>
        from   == IF spills THEN 0 ELSE n
        zeroed == Overwrite(marked, from, Zeros(B - LengthSize - from))
        ended  == Overwrite(zeroed, B - LengthSize, <<Length(b.total)>>)
        upper  == IF b.alg = "sha512" THEN Overwrite(ended, B - 2 * LengthSize, <<Zero>>) ELSE ended
    IN  [Absorbed(Absorbed(b, first), upper) EXCEPT !.buffer = upper]

Sha3Padded(b) ==
    LET B       == BlockSize(b.alg)
        cleared == Overwrite(b.buffer, b.size, Zeros(B - b.size))
        block   == Overwrite(Overwrite(cleared, b.size, <<Domain>>), B - 1, <<Mark>>)
    IN  [Keccak(b, block) EXCEPT !.buffer = block]

\* The first byte stands for them all.
HashBytes(alg, blocks) == <<<<"hash", <<alg, blocks>>>>>> \o Secret("hash+", HashSize(alg) - 1)

\* calculate().
Calculated(b) ==
    LET padded == CASE b.alg = "sha1" -> Sha1Padded(b)
                    [] b.alg \in {"sha256", "sha512"} -> Sha2Padded(b)
                    [] b.alg = "sha3" -> Sha3Padded(b)
    IN  IF b.finalized THEN b
        ELSE [padded EXCEPT !.finalized = TRUE, !.hash = HashBytes(b.alg, padded.blocks)]

-----------------------------------------------------------------------------
(* HMAC and PBKDF2: what the builder is left with, hash included.            *)

Xored(tag, s) == [i \in DOMAIN s |-> <<tag, s[i]>>]

HmacKeyNotBegun(b, key) ==                                      \* mutant
    IF Len(key) > HMAC_BLOCK_SIZE THEN Calculated(Added(b, key)).hash ELSE key

\* A key longer than a block is replaced by its hash.
HmacKey(b, key) ==
    IF Len(key) > HMAC_BLOCK_SIZE THEN Calculated(Added(Begun(b), key)).hash ELSE key

Filled(key) == key \o Zeros(HMAC_BLOCK_SIZE - Len(key))

Outer(inner, pad) == Calculated(Added(Added(Begun(inner), Xored("0x5c", pad)), inner.hash))

Inner(b, pad, data) == Outer(Calculated(Added(Added(Begun(b), Xored("0x36", pad)), data)), pad)

Hmac(b, key, data) == Inner(b, Filled(HmacKey(b, key)), data)

\* U1 to Uc, each with the builder that made it.
Rounds(b, p, i) ==
    LET u[c \in 1..p.iterations] ==
            Hmac(IF c = 1 THEN b ELSE u[c - 1], p.password,
                 IF c = 1 THEN Append(p.salt, <<"int", i>>) ELSE u[c - 1].hash)
    IN  u

\* The bytes of U1 to Uc combined; no two of them are equal.
Combined(us, size) == [k \in 1..size |-> <<"xor", {us[c].hash[k] : c \in DOMAIN us}>>]

\* The blocks of the key one after the other, the last one cut.
Joined(rounds, size, len) ==
    [builder |-> Last(Last(rounds)),
     key |-> SubSeq(FlattenSeq([i \in DOMAIN rounds |-> Combined(rounds[i], size)]), 1, len)]

Pbkdf2(b, p, len) ==
    Joined([i \in 1..((len + HashSize(b.alg) - 1) \div HashSize(b.alg)) |-> Rounds(b, p, i)],
           HashSize(b.alg), len)

-----------------------------------------------------------------------------
NoKey == [set |-> FALSE, password |-> <<>>, salted |-> FALSE, salt |-> <<>>, iterations |-> 1,
          key |-> <<>>, len |-> 0, calculated |-> FALSE, stale |-> FALSE, with |-> "none"]

DigestInit ==
    /\ \E alg \in [Builders -> Algorithms] : builder = [o \in Builders |-> Unused(alg[o])]
    /\ message = [o \in Builders |-> <<>>] /\ ours = {}
    /\ \E o \in Builders : pbkdf = [NoKey EXCEPT !.with = o]
    /\ calls = 0

Bounded == calls < MaxCalls /\ calls' = calls + 1

Begin(o) ==
    /\ Bounded
    /\ builder' = [builder EXCEPT ![o] = Begun(@)]
    /\ message' = [message EXCEPT ![o] = <<>>]
    /\ ours' = ours \cup {o}
    /\ UNCHANGED pbkdf

\* Pieces that are added one after the other by one call.
AddPieces(o, lengths) ==
    LET n  == FoldSeq(LAMBDA a, c : a + c, 0, lengths)
        at == Len(message[o])
        piece(i) == Data(at + FoldSeq(LAMBDA a, c : a + c, 0, SubSeq(lengths, 1, i - 1)), lengths[i])
    IN  /\ at + n <= MaxMessage
        /\ builder' = [builder EXCEPT ![o] =
             FoldLeft(Added, @, [i \in DOMAIN lengths |-> piece(i)])]
        /\ message' = IF builder[o].finalized THEN message
                      ELSE [message EXCEPT ![o] = @ \o Data(at, n)]
        /\ UNCHANGED <<ours, pbkdf>>

Add(o) == Bounded /\ o \in ours /\ \E n \in 0..MaxMessage : AddPieces(o, <<n>>)

\* addStream: as much as is there, as the buffer holds and as was asked for,
\* until nothing more comes.
AddStream(o) ==
    /\ Bounded /\ o \in ours
    /\ \E n \in 1..MaxMessage, first \in 1..StreamBuf :
         /\ first <= n /\ n - first <= StreamBuf
         /\ AddPieces(o, IF first = n THEN <<n>> ELSE <<first, n - first>>)

\* addHexString: whole chunks of the buffer.  An odd digit at the end is lost, so
\* n pairs of digits do the same with and without one.
AddHexString(o) ==
    /\ Bounded /\ o \in ours
    /\ \E n \in 0..MaxMessage :
         AddPieces(o, [i \in 1..((n + HexBuf - 1) \div HexBuf) |-> Min({HexBuf, n - (i - 1) * HexBuf})])

\* A message whose padding goes wrong.
Misfit(alg, n) ==
    \/ alg = "sha512" /\ n % 8 = 6
    \/ alg = "sha3" /\ n % 5 = 4

Calculate(o) ==
    /\ Bounded /\ o \in ours
    /\ Careful => ~Misfit(builder[o].alg, Len(message[o]))
    /\ builder' = [builder EXCEPT ![o] = Calculated(@)]
    /\ UNCHANGED <<message, ours, pbkdf>>

-----------------------------------------------------------------------------
SetPassword(n) ==
    /\ Bounded
    /\ pbkdf' = [pbkdf EXCEPT !.set = TRUE, !.password = Secret("password", n), !.calculated = FALSE]
    /\ UNCHANGED <<builder, message, ours>>

SetSalt(n) ==
    /\ Bounded
    /\ pbkdf' = [pbkdf EXCEPT !.salted = TRUE, !.salt = Secret("salt", n), !.calculated = FALSE]
    /\ UNCHANGED <<builder, message, ours>>

\* Neither of these forgets the key that was calculated, nor its length.
SetIterations(n) ==
    /\ Bounded
    /\ pbkdf' = [pbkdf EXCEPT !.iterations = n, !.stale = TRUE]
    /\ UNCHANGED <<builder, message, ours>>

SetHashAlgorithm(o) ==
    /\ Bounded
    /\ pbkdf' = [pbkdf EXCEPT !.with = o, !.stale = TRUE]
    /\ UNCHANGED <<builder, message, ours>>

\* begin(): clearData().
PbkdfBegin ==
    /\ Bounded
    /\ pbkdf' = [pbkdf EXCEPT !.key = <<>>, !.len = 0, !.calculated = FALSE, !.stale = FALSE]
    /\ UNCHANGED <<builder, message, ours>>

InUse(o) == o \in ours /\ message[o] # <<>> /\ ~builder[o].finalized

\* calculate(): the builder is left with the hash of its last message.
PbkdfCalculate ==
    LET o   == pbkdf.with
        b   == builder[o]
        len == IF pbkdf.len = 0 THEN HashSize(b.alg) ELSE pbkdf.len
    IN  /\ Bounded
        /\ pbkdf.set /\ pbkdf.salted
        /\ Careful => /\ ~InUse(o) /\ len = HashSize(b.alg)
                      /\ BlockSize(b.alg) = HMAC_BLOCK_SIZE
        /\ \E r \in {Pbkdf2(b, pbkdf, len)} :
             /\ builder' = [builder EXCEPT ![o] = r.builder]
             /\ pbkdf' = [pbkdf EXCEPT !.key = r.key, !.len = len, !.calculated = TRUE, !.stale = FALSE]
        /\ message' = [message EXCEPT ![o] = <<>>] /\ ours' = ours \ {o}

DigestNext ==
    \/ \E o \in Builders : Begin(o) \/ Add(o) \/ AddStream(o) \/ AddHexString(o) \/ Calculate(o)
    \/ \E n \in Secrets : SetPassword(n) \/ SetSalt(n)
    \/ \E n \in Iterations : SetIterations(n)
    \/ \E o \in Builders : SetHashAlgorithm(o)
    \/ PbkdfBegin \/ PbkdfCalculate

DigestSpec == DigestInit /\ [][DigestNext]_digestVars

-----------------------------------------------------------------------------
(* Properties, against FIPS 180-4, FIPS 202, RFC 2104 and RFC 8018.          *)

\* The blocks of a whole message.
PaddedTo(alg, m) ==
    LET B    == BlockSize(alg)
        n    == Len(m)
        room == IF alg = "sha512" THEN 2 * LengthSize ELSE LengthSize
        k    == CHOOSE k \in 0..(2 * B) : (n + 1 + k + room) % B = 0
                                        /\ \A j \in 0..(k - 1) : (n + 1 + j + room) % B # 0
    IN  IF alg = "sha3"
        THEN m \o IF n % B = B - 1 THEN <<DomainAndMark>>
                  ELSE <<Domain>> \o Zeros(B - 2 - (n % B)) \o <<Mark>>
        ELSE m \o <<Mark>> \o Zeros(k + room - LengthSize) \o <<Length(n)>>

HashOf(alg, m) == HashBytes(alg, Cut(PaddedTo(alg, m), BlockSize(alg)))

HmacOf(alg, key, data) ==
    LET B == BlockSize(alg)
        k == IF Len(key) > B THEN HashOf(alg, key) ELSE key
        p == k \o Zeros(B - Len(k))
    IN  HashOf(alg, Xored("0x5c", p) \o HashOf(alg, Xored("0x36", p) \o data))

KeyOf(alg, p) ==
    LET u[c \in 1..p.iterations] ==
            HmacOf(alg, p.password, IF c = 1 THEN Append(p.salt, <<"int", 1>>) ELSE u[c - 1])
    IN  [k \in 1..HashSize(alg) |-> <<"xor", {u[c][k] : c \in 1..p.iterations}>>]

\* The digest of a message is the one of the standard, however the message
\* was cut into calls, chunks and streams, and whatever was hashed before
\* with the same object (SHA1Builder.cpp:216-320, SHA2Builder.cpp:244-400,
\* SHA3Builder.cpp:115-245).
DigestAsSpecified ==
    \A o \in ours : builder[o].finalized =>
        builder[o].hash = HashOf(builder[o].alg, message[o])

\* A key that getBytes() returns is that of the password, salt, iterations
\* and hash that are set, for any use of the object and of its builder before
\* (PBKDF2_HMACBuilder.cpp:61-143, 174-261).
KeyAsSpecified ==
    pbkdf.calculated /\ ~pbkdf.stale =>
        pbkdf.key = KeyOf(builder[pbkdf.with].alg, pbkdf)
=============================================================================

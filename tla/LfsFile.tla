------------------------------- MODULE LfsFile --------------------------------
(* The file layer of lfs.c on the flash of gdlittlefs.c: a file of blocks    *)
(* that point backwards (a CTZ skip list) or a small one inside its          *)
(* directory entry, the cache of its handle, the read cache and its buffer,  *)
(* which a flush shares, blocks that cannot be erased or programmed, and the *)
(* blocks the allocator believes to be in use.                               *)
(*                                                                           *)
(* A cell stands for the four bytes of a pointer, so that the arithmetic of  *)
(* lfs_ctz_index is that of the code.  read_size, prog_size and cache_size   *)
(* are the block size (gdlittlefs.c:85-93): a cache holds one block.  The    *)
(* commit of the entry is one step (module LittleFS shows it is).  A power   *)
(* failure inside a call leaves the entry and, as Untouched says, its blocks.*)
(*                                                                           *)
(* Assumed of the sketch: after an error it closes the file.                 *)
EXTENDS Integers, Sequences, SequencesExt, FiniteSetsExt

CONSTANTS
    N,              \* blocks for data
    B,              \* cells of a block
    InlineMax,      \* longest file inside its entry
    FileMax,        \* longest file
    Lengths,        \* of the sketch's reads and writes
    Offsets,        \* it seeks to
    Sizes,          \* it truncates to
    MaxBad,         \* bound: bad blocks
    Careful,        \* no bad block fails while the allocator looks for blocks
    MaxCalls        \* bound: calls

ASSUME LfsFileAssumption ==
    /\ {N, InlineMax, FileMax, MaxBad, MaxCalls} \subseteq Nat /\ B \in Nat /\ B > 5
    /\ InlineMax <= B /\ Lengths \subseteq Nat \ {0}
    /\ Offsets \subseteq 0..FileMax /\ Sizes \subseteq 0..FileMax
    /\ Careful \in BOOLEAN

VARIABLES
    s,              \* the library's state and the medium
    mode,           \* of the handle, as in ByteFile
    data,           \* of the last read or write
    calls           \* counter for the bound

vars == <<s, mode, data, calls>>

Device      == 0..(N - 1)
LFS_BLOCK_NULL   == N
LFS_BLOCK_INLINE == N + 1
Metadata    == N + 2            \* the read cache holds a directory

\* Cells: data is positive.
Fill        == 0
Erased      == -1
Garbage     == -2
Pointer(b)  == -10 - b
Target(c)   == -10 - c

Raw(n)      == [i \in 1..n |-> Erased]

-----------------------------------------------------------------------------
(* Arithmetic of the skip list.                                              *)

Ones[n \in Nat] == IF n = 0 THEN 0 ELSE (n % 2) + Ones[n \div 2]       \* lfs_popc
Trailing[n \in Nat \ {0}] == IF n % 2 = 1 THEN 0 ELSE 1 + Trailing[n \div 2]  \* lfs_ctz
Log2Up(n)   == CHOOSE k \in 0..n : 2^k >= n /\ \A j \in 0..(k - 1) : 2^j < n  \* lfs_npw2

\* lfs_ctz_index: the block a position is in, and where in it.
CtzIndex(pos) ==
    LET b == B - 2
        i == pos \div b
        k == (pos - (Ones[i - 1] + 2)) \div b
    IN  IF i = 0 THEN [index |-> 0, off |-> pos]
        ELSE [index |-> k, off |-> pos - b * k - Ones[k]]

-----------------------------------------------------------------------------
(* The block device and its caches.  "file" is the cache of the handle;      *)
(* "lfs" and "orig" are two tags of the one read buffer.                     *)

Ok(d)        == d.err = "ok"
Fail(d, err) == IF Ok(d) THEN [d EXCEPT !.err = err] ELSE d

\* A call is a chain of steps: each goes on from what the one before left,
\* unless that failed; some are tried again when a block is bad.
With(d, Step(_)) == Step(d)
Then(d, Step(_)) == IF Ok(d) THEN Step(d) ELSE d
IfBad(d, Step(_)) == IF d.err = "bad" THEN Step([d EXCEPT !.err = "ok"]) ELSE d

Tag(d, c) == CASE c = "file" -> d.file.cache.block [] c = "lfs" -> d.rtag [] c = "orig" -> d.otag
Cells(d, c) == IF c = "file" THEN d.file.cache.cells ELSE d.rbuf

\* lfs_bd_read, the part that fills a cache.
Load(d, c, b) ==
    IF b \notin Device THEN Fail(d, "corrupt")
    ELSE IF Tag(d, c) = b THEN d
    ELSE CASE c = "file" -> [d EXCEPT !.file.cache = [block |-> b, size |-> B, cells |-> d.flash[b]]]
           [] c = "lfs"  -> [d EXCEPT !.rtag = b, !.rbuf = d.flash[b]]
           [] c = "orig" -> [d EXCEPT !.otag = b, !.rbuf = d.flash[b]]

\* The pointers of a chain that starts at a block of an index, as
\* lfs_ctz_traverse follows them; they are read through the handle's cache.
\* LFS_BLOCK_INLINE, the head of a file that was outlined since its last
\* flush, is a block modulo the size of the device.
RECURSIVE Chain(_, _, _)
Chain(d, head, index) ==
    LET cells == IF d.file.cache.block = head THEN d.file.cache.cells ELSE d.flash[head]
        count == 2 - (index % 2)
        heads == [i \in 1..count |-> Target(cells[i])]
    IN  IF index = 0 THEN {IF head = LFS_BLOCK_INLINE THEN N - 2 ELSE head}
        ELSE IF head \notin Device THEN {Metadata}
        ELSE {head} \cup {heads[i] : i \in 1..(count - 1)} \cup Chain(d, heads[count], index - count)

BlocksOf(d, head, size) == IF size = 0 THEN {} ELSE Chain(d, head, CtzIndex(size - 1).index)

EntryBlocks(d) == IF d.entry.inline THEN {} ELSE BlocksOf(d, d.entry.head, d.entry.size)

InUseOpen(d) ==                                                       \* mutant
    LET f == d.file IN
    (IF f.dirty /\ ~f.inline THEN BlocksOf(d, f.head, f.size) ELSE {})
    \cup (IF f.writing /\ ~f.inline THEN BlocksOf(d, f.block, f.pos) ELSE {})

InUseSaved(d) == EntryBlocks(d)                                       \* mutant

\* lfs_fs_traverse_, on this file.
InUse(d) ==
    LET f == d.file IN
    EntryBlocks(d)
    \cup (IF f.dirty /\ ~f.inline THEN BlocksOf(d, f.head, f.size) ELSE {})
    \cup (IF f.writing /\ ~f.inline THEN BlocksOf(d, f.block, f.pos) ELSE {})

Checkpoint(d) == [d EXCEPT !.look.ckpoint = N]          \* lfs_alloc_ckpoint

\* The handle is at the first byte of its block, so that its position belongs
\* to the block before.
OutOfStep(f) == f.writing /\ ~f.inline /\ f.pos > 0 /\ f.off # B
                /\ CtzIndex(f.pos - 1).off = B - 1

\* lfs_alloc and lfs_alloc_scan; the window is the device (gdlittlefs.c:92).
RECURSIVE Alloc(_)
Alloc(d) ==
    LET l    == d.look
        at(k) == (l.start + k) % N
        free == {k \in l.next..(l.size - 1) : at(k) \notin l.used}
        next == Min((free \ {Min(free)}) \cup {l.size})
        left == l.ckpoint - (l.size - l.next)
        scan(used) ==
            IF used \subseteq Device
            THEN Alloc([d EXCEPT !.look = [start |-> at(l.size), next |-> 0, size |-> left,
                                           ckpoint |-> left, used |-> used],
                                 !.rtag = Metadata, !.rbuf = Raw(B),
                                 !.late = @ \/ OutOfStep(d.file)])
            ELSE [Fail(d, "corrupt") EXCEPT !.look = [l EXCEPT !.size = 0, !.next = 0, !.ckpoint = N]]
    IN  IF free # {}
        THEN [d EXCEPT !.look.next = next, !.look.ckpoint = @ - (next - l.next), !.got = at(Min(free))]
        ELSE IF left <= 0 THEN Fail(d, "nospc")
        ELSE scan(InUse(d))

\* A write to the medium; one to a block of the saved file is remembered.
Touch(d, b) == [d EXCEPT !.harm = @ \/ b \in EntryBlocks(d)]

\* lfs_bd_erase
Erase(d, b) ==
    IF ~Ok(d) THEN d
    ELSE IF d.bad[b] = "erase" THEN Fail(Touch(d, b), "bad")
    ELSE [Touch(d, b) EXCEPT !.flash[b] = Raw(B)]

Dropped(cache) == [cache EXCEPT !.block = LFS_BLOCK_NULL]                   \* lfs_cache_drop
Zeroed(cache)  == [cache EXCEPT !.block = LFS_BLOCK_NULL, !.cells = Raw(B)] \* lfs_cache_zero

\* lfs_bd_flush of a cache, validated: the read cache then holds the block.
\* Flash that is not erased, or bad, does not take the data.
Program(d, b, cells) ==
    LET works == d.bad[b] # "prog" /\ d.flash[b] = Raw(B)
        after == IF works THEN cells ELSE IF d.flash[b] = Raw(B) THEN d.flash[b]
                 ELSE [i \in 1..B |-> Garbage]
        t     == [Touch(d, b) EXCEPT !.flash[b] = after, !.rtag = b, !.rbuf = after]
    IN  IF works THEN t ELSE Fail(t, "bad")

FlushCache(d) ==
    LET c == d.file.cache IN
    IF c.block \notin Device THEN d
    ELSE Then(Program(d, c.block, c.cells), LAMBDA p : [p EXCEPT !.file.cache = Zeroed(@)])

\* lfs_bd_prog through the handle's cache, to one block.
Prog(d, b, off, cells) ==
    LET c    == d.file.cache
        size == Max({IF c.block = b THEN c.size ELSE 0, off + Len(cells)})
        new  == [i \in 1..B |-> IF i \in (off + 1)..(off + Len(cells)) THEN cells[i - off] ELSE c.cells[i]]
        p    == [d EXCEPT !.file.cache = [block |-> b, size |-> size, cells |-> new]]
    IN  IF ~Ok(d) THEN d
        ELSE IF c.block \notin {b, LFS_BLOCK_NULL} THEN Fail(d, "assert")
        ELSE IF size = B THEN FlushCache(p) ELSE p

-----------------------------------------------------------------------------
(* The skip list.                                                            *)

\* lfs_ctz_find: the block of an index, from the block of a later one.
RECURSIVE Follow(_, _, _, _, _)
Follow(d, c, head, current, target) ==
    LET skip == Min({Log2Up(current - target + 1) - 1, Trailing[current]}) IN
    IF current <= target THEN [d EXCEPT !.got = head]
    ELSE Then(Load(d, c, head),
              LAMBDA l : Follow(l, c, Target(Cells(l, c)[skip + 1]), current - 2^skip, target))

CtzFind(d, c, head, size, pos) ==
    IF size = 0 THEN [d EXCEPT !.got = LFS_BLOCK_NULL]
    ELSE Follow(d, c, head, CtzIndex(size - 1).index, CtzIndex(pos).index)

\* The pointers of a new block: to the last block, then each the one that
\* the block before has at the same place.
RECURSIVE Pointers(_, _, _, _)
Pointers(d, head, i, n) ==
    IF i = n THEN <<>>
    ELSE <<Pointer(head)>> \o Pointers(d, IF head \in Device THEN Target(d.flash[head][i + 1])
                                          ELSE LFS_BLOCK_NULL, i + 1, n)

\* A new block, erased.
Fresh(d) == Then(Alloc(d), LAMBDA a : Erase(a, a.got))

\* lfs_ctz_extend: a new block that continues a list of a size, or a copy of
\* its last block when there is room in it; another one while they are bad.
RECURSIVE CtzExtend(_, _, _)
CtzExtend(d, head, size) ==
    LET last == CtzIndex(size - 1)
        noff == last.off + 1
        skip == Trailing[last.index + 1] + 1
        copy(e) == Then(Load(e, "lfs", head), LAMBDA l : Prog(l, e.got, 0, SubSeq(l.rbuf, 1, noff)))
        link(e, ps) == Prog(IF skip > 1 THEN Load(e, "lfs", Target(ps[skip - 1])) ELSE e, e.got, 0, ps)
        begin(e) == IF size = 0 THEN e
                    ELSE IF noff # B THEN copy(e) ELSE link(e, Pointers(e, head, 0, skip))
        there(e) == [e EXCEPT !.file.block = e.got,
                              !.file.off = IF size = 0 THEN 0 ELSE IF noff # B THEN noff ELSE skip]
    IN  IfBad(Then(Then(Fresh(d), begin), there),
              LAMBDA x : CtzExtend([x EXCEPT !.file.cache = Dropped(@)], head, size))

-----------------------------------------------------------------------------
(* The file.                                                                 *)

\* lfs_file_relocate: what is before the handle's offset, from its cache or
\* from the medium, becomes the cache of a new block; and another one while
\* that cannot be erased.  (The library's own program cache is only used
\* inside, and is empty again.)
RECURSIVE Relocate(_)
Relocate(d) ==
    LET f    == d.file
        here == f.inline \/ f.cache.block = f.block
        move(l) ==
            IF f.off = B THEN Fail(l, "assert")
            ELSE [l EXCEPT !.file.cache =
                               [block |-> IF f.off = 0 THEN LFS_BLOCK_NULL ELSE l.got, size |-> f.off,
                                cells |-> SubSeq(IF here THEN f.cache.cells ELSE l.rbuf, 1, f.off)
                                          \o Raw(B - f.off)],
                           !.file.block = l.got, !.file.writing = TRUE]
    IN  IfBad(Then(Fresh(d), LAMBDA e : Then(IF f.off = 0 \/ here THEN e ELSE Load(e, "lfs", f.block), move)),
              Relocate)

\* lfs_file_outline
Outline(d) ==
    Then(Relocate(Checkpoint([d EXCEPT !.file.off = d.file.pos])),
         LAMBDA r : [r EXCEPT !.file.inline = FALSE])

\* The start of a block, in lfs_file_flushedwrite.
NextBlock(d) ==
    LET f == d.file
        last == IF f.writing \/ f.pos = 0 THEN d
                ELSE Then(CtzFind(d, "file", f.head, f.size, f.pos - 1),
                          LAMBDA x : [x EXCEPT !.file.block = x.got, !.file.cache = Zeroed(@)])
        next == IF f.inline THEN [d EXCEPT !.file.block = LFS_BLOCK_INLINE, !.file.off = f.pos]
                ELSE Then(last, LAMBDA g : CtzExtend(Checkpoint(g), g.file.block, f.pos))
    IN  IF f.writing /\ f.off # B THEN d
        ELSE Then(next, LAMBDA n : [n EXCEPT !.file.writing = TRUE])

\* A block is programmed, another one while it is bad.
RECURSIVE ProgHere(_, _)
ProgHere(d, cells) ==
    IfBad(Prog(d, d.file.block, d.file.off, cells), LAMBDA x : ProgHere(Relocate(x), cells))

\* The error is also kept in the handle.
RECURSIVE FlushedWrite(_, _)
FlushedWrite(d, cells) ==
    LET f == d.file
        o == IF f.inline /\ Max({f.pos + Len(cells), f.size}) > InlineMax THEN Outline(d) ELSE d
        erring(x) == IF Ok(x) THEN x ELSE [x EXCEPT !.file.erred = TRUE]
        into(b) ==
            LET n == Min({Len(cells), B - b.file.off})
            IN  Then(ProgHere(b, SubSeq(cells, 1, n)),
                     LAMBDA p : FlushedWrite(Checkpoint([p EXCEPT !.file.pos = @ + n, !.file.off = @ + n]),
                                             SubSeq(cells, n + 1, Len(cells))))
    IN  IF cells = <<>> THEN d ELSE erring(Then(Then(o, NextBlock), into))

\* Zeros, one at a time.
RECURSIVE Fills(_, _)
Fills(d, n) == IF n = 0 THEN d ELSE Then(FlushedWrite(d, <<Fill>>), LAMBDA w : Fills(w, n - 1))

\* lfs_file_flushedread through one of the caches; o stands for the handle
\* that is read, got for what comes.
RECURSIVE FlushedRead(_, _, _, _)
FlushedRead(d, c, o, n) ==
    LET want == Min({n, o.size - o.pos})
        stop(x) == [d |-> x, handle |-> o, bytes |-> <<>>]
        copy(l, p, here, diff) ==
            LET from == IF Tag(l, c) = here THEN Cells(l, c) ELSE l.flash[here]
            IN  [FlushedRead(l, c, [p EXCEPT !.pos = @ + diff, !.off = @ + diff], n - diff)
                    EXCEPT !.bytes = SubSeq(from, p.off + 1, p.off + diff) \o @]
        read(x, p) ==
            LET here == IF p.inline THEN LFS_BLOCK_INLINE ELSE p.block  \* lfs_dir_getread or lfs_bd_read
                diff == Min({want, B - p.off})
                skip == p.off = 0 /\ diff = B /\ here \in Device
            IN  With(IF Tag(x, c) = here \/ skip THEN x ELSE Load(x, c, here),
                     LAMBDA l : IF Ok(l) THEN copy(l, p, here, diff) ELSE stop(l))
        found(x) == IF Ok(x) THEN read(x, [o EXCEPT !.block = x.got, !.off = CtzIndex(o.pos).off, !.reading = TRUE])
                    ELSE stop(x)
    IN  IF want <= 0 THEN stop(d)
        ELSE IF o.reading /\ o.off # B THEN read(d, o)
        ELSE IF o.inline
        THEN read(d, [o EXCEPT !.block = LFS_BLOCK_INLINE, !.off = o.pos, !.reading = TRUE])
        ELSE found(CtzFind(d, c, o.head, o.size, o.pos))

-----------------------------------------------------------------------------
(* lfs_file_flush, lfs_file_sync_ and the calls that a sketch makes.         *)

\* The read buffer was used for something else: neither tag holds any more.
DropCopies(d) == IF d.rtag = LFS_BLOCK_NULL THEN d
                 ELSE [d EXCEPT !.rtag = LFS_BLOCK_NULL, !.otag = LFS_BLOCK_NULL]

\* What is behind the position is copied from the file as it was.
RECURSIVE CopyRest(_, _)
CopyRest(d, orig) ==
    IF d.file.pos >= d.file.size THEN d
    ELSE With(FlushedRead(d, "orig", orig, 1),
              LAMBDA r : Then(Then(r.d, LAMBDA k : FlushedWrite(k, r.bytes)),
                              LAMBDA w : CopyRest(DropCopies(w), r.handle)))

\* What is in the cache is written, to another block while this one is bad.
RECURSIVE FlushHere(_)
FlushHere(d) == IfBad(Then(d, FlushCache), LAMBDA x : FlushHere(Relocate(x)))

FileFlush(d) ==
    LET f    == d.file
        r    == IF f.reading THEN [d EXCEPT !.file.reading = FALSE,
                                            !.file.cache = IF f.inline THEN @ ELSE Dropped(@)] ELSE d
        orig == [head |-> f.head, size |-> f.size, pos |-> f.pos, off |-> 0, block |-> 0,
                 inline |-> FALSE, reading |-> FALSE]
        w    == IF f.inline THEN [r EXCEPT !.file.pos = Max({f.pos, f.size})]
                ELSE FlushHere(CopyRest([r EXCEPT !.otag = r.rtag, !.rtag = LFS_BLOCK_NULL], orig))
    IN  IF ~f.writing THEN r
        ELSE Then(w, LAMBDA x : [x EXCEPT !.file.head = x.file.block, !.file.size = x.file.pos,
                                          !.file.writing = FALSE, !.file.dirty = TRUE, !.file.pos = f.pos])

\* The commit of the entry uses the read cache.
FileSync(d) ==
    LET commit(w) ==
            LET f == w.file IN
            IF ~Ok(w) THEN [w EXCEPT !.file.erred = TRUE]
            ELSE IF ~f.dirty THEN w
            ELSE [w EXCEPT !.entry = [inline |-> f.inline, head |-> f.head, size |-> f.size,
                                      cells |-> IF f.inline THEN SubSeq(f.cache.cells, 1, f.size) ELSE <<>>],
                           !.rtag = Metadata, !.rbuf = Raw(B), !.file.dirty = FALSE]
    IN  IF d.file.erred THEN d ELSE commit(FileFlush(d))

\* lfs_file_read_
FileRead(d, n) ==
    LET took(r) ==
            LET f == r.handle IN
            [d |-> [r.d EXCEPT !.file.pos = f.pos, !.file.off = f.off, !.file.block = f.block,
                               !.file.reading = f.reading],
             bytes |-> r.bytes]
        read(k) == IF Ok(k) THEN took(FlushedRead(k, "file", k.file, n)) ELSE [d |-> k, bytes |-> <<>>]
    IN  read(IF d.file.writing THEN FileFlush(d) ELSE d)

\* lfs_file_write_, with the gap it fills.
FileWrite(d, cells) ==
    LET write(r) ==
            LET f   == r.file
                pos == IF f.append /\ f.pos < f.size THEN f.size ELSE f.pos
            IN  IF ~f.writing /\ pos > f.size
                THEN Fills([r EXCEPT !.file.pos = f.size], pos - f.size)
                ELSE [r EXCEPT !.file.pos = pos]
    IN  Then(Then(Then(IF d.file.reading THEN FileFlush(d) ELSE d, write),
                  LAMBDA z : FlushedWrite(z, cells)),
             LAMBDA w : [w EXCEPT !.file.erred = FALSE])

RECURSIVE WriteFills(_, _)
WriteFills(d, n) ==
    IF n = 0 THEN d ELSE Then(d, LAMBDA e : WriteFills(FileWrite(e, <<Fill>>), n - 1))

\* lfs_file_seek_: a handle that only read stays in its cache if it can.
FileSeek(d, pos) ==
    LET f    == d.file
        new  == CtzIndex(pos)
        near == /\ f.reading /\ f.off # B
                /\ CtzIndex(f.pos).index = new.index /\ new.off < f.cache.size
    IN  IF pos = f.pos THEN d
        ELSE IF near THEN [d EXCEPT !.file.pos = pos, !.file.off = new.off]
        ELSE Then(FileFlush(d), LAMBDA w : [w EXCEPT !.file.pos = pos])

FileSize(d) == IF d.file.writing THEN Max({d.file.pos, d.file.size}) ELSE d.file.size

\* lfs_file_truncate_: back into the entry, to a shorter list, or zeros.
Inlined(d, size) ==
    LET keep(r) ==
            IF ~Ok(r.d) THEN r.d
            ELSE [r.d EXCEPT
                    !.rbuf = r.bytes \o SubSeq(@, Len(r.bytes) + 1, B),
                    !.file = [r.handle EXCEPT
                       !.head = LFS_BLOCK_INLINE, !.size = size, !.dirty = TRUE, !.reading = TRUE, !.inline = TRUE,
                       !.cache = [block |-> LFS_BLOCK_INLINE, size |-> B,
                                  cells |-> r.bytes \o SubSeq(r.d.file.cache.cells, Len(r.bytes) + 1, B)]]]
    IN  Then(FileSeek(d, 0),
             LAMBDA k : keep(FlushedRead([k EXCEPT !.rtag = LFS_BLOCK_NULL], "file", k.file, size)))

Shortened(d, size) ==
    Then(Then(FileFlush(d), LAMBDA k : CtzFind(k, "file", k.file.head, k.file.size, size - 1)),
         LAMBDA x : [x EXCEPT !.file.block = x.got, !.file.head = x.got, !.file.pos = size, !.file.size = size,
                              !.file.dirty = TRUE, !.file.reading = TRUE])

FileTruncate(d, size) ==
    LET old == FileSize(d) IN
    Then(IF size < old THEN IF size <= InlineMax THEN Inlined(d, size) ELSE Shortened(d, size)
         ELSE IF size > old THEN Then(FileSeek(d, old), LAMBDA k : WriteFills(k, size - old))
         ELSE d,
         LAMBDA t : FileSeek(t, d.file.pos))

-----------------------------------------------------------------------------
Handle(entry, append, trunc) ==
    LET in == entry.inline \/ trunc IN
    [inline |-> in, append |-> append, dirty |-> trunc, reading |-> FALSE, writing |-> FALSE,
     erred |-> FALSE, pos |-> 0, off |-> 0, block |-> 0,
     head |-> IF in THEN LFS_BLOCK_INLINE ELSE entry.head, size |-> IF trunc THEN 0 ELSE entry.size,
     cache |-> [block |-> IF in THEN LFS_BLOCK_INLINE ELSE LFS_BLOCK_NULL, size |-> B,
                cells |-> IF entry.inline /\ ~trunc THEN entry.cells \o Raw(B - entry.size) ELSE Raw(B)]]

Empty  == [inline |-> TRUE, head |-> LFS_BLOCK_INLINE, size |-> 0, cells |-> <<>>]
NoFile == Handle(Empty, FALSE, FALSE)

\* After a mount the allocator starts anywhere (lfs_mount_).
Mounted(d, start) ==
    [d EXCEPT !.rtag = LFS_BLOCK_NULL, !.rbuf = Raw(B), !.file = NoFile,
              !.look = [start |-> start, next |-> 0, size |-> 0, ckpoint |-> N, used |-> {}]]

\* The blocks are alike: the allocator starts at the first.
Init ==
    /\ \E bad \in [Device -> {"no", "erase", "prog"}] :
         /\ Cardinality({b \in Device : bad[b] # "no"}) <= MaxBad
         /\ s = [flash |-> [b \in Device |-> Raw(B)], bad |-> bad, entry |-> Empty, file |-> NoFile,
                 rtag |-> LFS_BLOCK_NULL, otag |-> LFS_BLOCK_NULL, rbuf |-> Raw(B), got |-> 0,
                 look |-> [start |-> 0, next |-> 0, size |-> 0, ckpoint |-> N, used |-> {}],
                 err |-> "ok", harm |-> FALSE, late |-> FALSE]
    /\ mode = "closed" /\ data = <<>> /\ calls = 0

IsOpen  == mode \in {"open", "append"}
Bounded == calls < MaxCalls /\ calls' = calls + 1

\* What a call leaves; after an error only closing is left.
Ends(d) ==
    /\ Careful => ~d.late
    /\ s' = [d EXCEPT !.err = "ok"]
    /\ mode' = IF Ok(d) THEN mode ELSE IF d.err = "nospc" THEN "failed" ELSE d.err

Open ==
    /\ Bounded /\ mode = "closed"
    /\ \E append, trunc \in BOOLEAN :
         /\ s' = [s EXCEPT !.file = Handle(s.entry, append, trunc)]
         /\ mode' = IF append THEN "append" ELSE "open"
    /\ UNCHANGED data

Write ==
    /\ Bounded /\ IsOpen
    /\ \E n \in Lengths :
         /\ Max({s.file.pos, IF s.file.append THEN FileSize(s) ELSE 0}) + n <= FileMax
         /\ data' = [i \in 1..n |-> 100 * calls' + i]
         /\ Ends(FileWrite(s, data'))

Read ==
    /\ Bounded /\ IsOpen
    /\ \E n \in Lengths : \E r \in {FileRead(s, n)} :
         /\ data' = IF Ok(r.d) THEN r.bytes ELSE data
         /\ Ends(r.d)

Seek == Bounded /\ IsOpen /\ UNCHANGED data /\ \E pos \in Offsets : Ends(FileSeek(s, pos))

Truncate == Bounded /\ IsOpen /\ UNCHANGED data /\ \E size \in Sizes : Ends(FileTruncate(s, size))

Sync == Bounded /\ IsOpen /\ UNCHANGED data /\ Ends(FileSync(s))

\* lfs_file_close_: a failed handle saves nothing; when close itself fails the
\* handle is gone as well, and another close does nothing.
Close ==
    /\ Bounded /\ (IsOpen \/ mode = "failed")
    /\ \E d \in {IF mode = "failed" THEN s ELSE FileSync(s)} :
         /\ Careful => ~d.late
         /\ s' = [d EXCEPT !.err = "ok", !.file = NoFile]
         /\ mode' = IF Ok(d) THEN "closed" ELSE IF d.err = "nospc" THEN "failed" ELSE d.err
    /\ UNCHANGED data

PowerFailure ==
    /\ Bounded /\ mode # "off" /\ mode' = "off"
    /\ s' = Mounted(s, s.look.start)
    /\ UNCHANGED data

Mount ==
    /\ mode = "off" /\ mode' = "closed"
    /\ \E start \in Device : s' = Mounted(s, start)
    /\ UNCHANGED <<data, calls>>

Next == Open \/ Write \/ Read \/ Seek \/ Truncate \/ Sync \/ Close \/ PowerFailure \/ Mount

Spec == Init /\ [][Next]_vars

-----------------------------------------------------------------------------
(* Properties.                                                               *)

\* The cells of a list, read from its head to its start.
RECURSIVE Listed(_, _, _)
Listed(d, head, index) ==
    LET cells == IF head \notin Device THEN Raw(B)
                 ELSE IF d.file.cache.block = head THEN d.file.cache.cells ELSE d.flash[head]
    IN  IF index = 0 THEN cells
        ELSE Listed(d, Target(cells[1]), index - 1) \o SubSeq(cells, Trailing[index] + 2, B)

Contents(d, head, size) ==
    IF size = 0 THEN <<>> ELSE SubSeq(Listed(d, head, CtzIndex(size - 1).index), 1, size)

View ==
    LET f == s.file IN
    IF ~IsOpen THEN <<>>
    ELSE IF f.inline THEN SubSeq(f.cache.cells, 1, FileSize(s))
    ELSE IF f.writing THEN Contents(s, f.block, f.pos) \o SubSeq(Contents(s, f.head, f.size), f.pos + 1, f.size)
    ELSE Contents(s, f.head, f.size)

Saved == IF s.entry.inline THEN s.entry.cells
         ELSE Contents([s EXCEPT !.file = NoFile], s.entry.head, s.entry.size)

File == INSTANCE ByteFile WITH content <- View, saved <- Saved,
            position <- IF IsOpen THEN s.file.pos ELSE 0

\* The layers of caches, lists and relocations amount to a file of bytes:
\* every read returns what was written, a handle that is closed or synced has
\* saved what it sees, and a power failure finds the last such contents
\* (lfs.h:634-735).
FileSpec == File!Spec

\* Nothing is erased or programmed in a block of the saved file, so that a
\* power failure inside any call finds it whole (lfs.c:276-285, 177-210).
Untouched == ~s.harm
===============================================================================

------------------------------ MODULE LittleFS ------------------------------
(* The file system a sketch reaches through File and LittleFS: vfs_api.cpp,  *)
(* gdlittlefs.c and the littlefs engine lfs.c under them.  Calls come from   *)
(* one task, so a call is one action; what can come between its writes is a  *)
(* power failure, and what can go wrong in them is a block that wears out.   *)
(* The functions of lfs.c are operators from a state s to the state they     *)
(* leave: s.disk is the flash, s.tick counts the blocks written, s.loss is   *)
(* the write at which the power fails and s.bad the one that the flash does  *)
(* not keep, s.err ends a call as `if (err) return err` does, and s.ret is   *)
(* what the last function returned.  A prog is a whole block here            *)
(* (prog_size = block_size), so every commit is a compaction.                *)
EXTENDS Integers, Sequences, SequencesExt, FiniteSetsExt

CONSTANTS
    N,          \* block_count
    MaxEnts,    \* entries that fit in half a metadata block (more: split)
    Room,       \* entries that fit in a whole one (more: LFS_ERR_NOSPC)
    Top, Dirs, Leaves,  \* the names it uses in the root; Leaves in the Dirs
    Modes,      \* how it opens files
    Inline,     \* bytes that fit in an inline file
    Seeds,      \* where the allocator may start after a mount
    Cautious,   \* the sketch leaves the path of its open file alone
    Settled,    \* and changes something after a mount before it looks
    MaxOps, MaxLosses, MaxFaults,   \* bounds: calls, power cuts, worn blocks
    MaxWrites,  \* bound: bytes in a file
    None

ASSUME LittleFSAssumption ==
    /\ N \in Nat \ 0..3 /\ MaxEnts \in Nat \ 0..1 /\ Room >= MaxEnts
    /\ Top \subseteq Nat \ {0} /\ Dirs \subseteq Top /\ Leaves \subseteq Nat \ {0}
    /\ Cautious \in BOOLEAN /\ Settled \in BOOLEAN

Paths == {<<a>> : a \in Top} \cup {<<a, b>> : a \in Dirs, b \in Leaves}

Cycles == 50                    \* (block_cycles + 1) | 1, above the bounds
Root == <<0, 1>>
Gone == <<>>                    \* held: the open file has no entry any more
Blank == [t |-> "blank", rev |-> 0, ents |-> <<>>, tail |-> <<>>,
          split |-> FALSE, delta |-> {}, val |-> <<>>]
Data(v) == [Blank EXCEPT !.t = "data", !.val = v]
Super == [name |-> 0, kind |-> "super", at |-> <<>>, val |-> <<>>]
NoMdir == [pair |-> <<>>, rev |-> 0, n |-> 0, tail |-> <<>>, split |-> TRUE,
           fresh |-> TRUE]
Off == [on |-> FALSE]

VARIABLES
    disk,       \* the blocks
    fs,         \* lfs_t: gstate g, gdisk gd, gdelta ge, lookahead, mlist
    res,        \* the last call and its answer
    tree, held, \* history: what the medium shows, the path of the open file
    ops, losses, faults     \* what has been spent of the bounds

vars == <<disk, fs, res, tree, held, ops, losses, faults>>

\* Steps of a call: one goes on from what another left, unless that failed.
With(x, Step(_)) == Step(x)
Then(s, Step(_)) == IF s.err = "ok" THEN Step(s) ELSE s

Blocks(pair) == Range(pair)
Meet(p, q) == Blocks(p) \cap Blocks(q) # {}         \* lfs_pair_cmp(...) == 0
Delta(a, b) == (a \ b) \cup (b \ a)                 \* lfs_gstate_xor

\* The global state as it is written: the orphan mark, without the count,
\* and the move.
Orphan == [id |-> 0, pair |-> <<>>]
Facts(g) == (IF g.orph > 0 THEN {Orphan} ELSE {}) \cup g.move
MoveHere(g, pair) == {f \in g.move : Meet(f.pair, pair)}

-----------------------------------------------------------------------------
(* Metadata pairs                                                            *)

\* lfs_dir_fetch: the block with the later revision is the current one.
Fetch(d, pair) ==
    LET old(b) == d[b].t # "meta"
        of(p) == [pair |-> p, rev |-> d[p[1]].rev, n |-> Len(d[p[1]].ents), tail |-> d[p[1]].tail,
                  split |-> d[p[1]].split, fresh |-> FALSE]
    IN  of(IF old(pair[1]) \/ (~old(pair[2]) /\ d[pair[2]].rev > d[pair[1]].rev)
           THEN <<pair[2], pair[1]>> ELSE pair)

Ents(d, m) == IF m.n = 0 THEN <<>> ELSE SubSeq(d[m.pair[1]].ents, 1, m.n)

\* lfs_dir_getgstate
Carried(d, m) == IF m.fresh THEN {} ELSE d[m.pair[1]].delta

\* The list that runs through all metadata pairs.
RECURSIVE ThreadFrom(_, _, _)
ThreadFrom(d, pair, seen) ==
    IF pair = <<>> \/ Blocks(pair) \cap seen # {} THEN <<>>
    ELSE With(Fetch(d, pair),
              LAMBDA m : <<m>> \o ThreadFrom(d, m.tail, seen \cup Blocks(pair)))
Thread(d) == ThreadFrom(d, Root, {})

\* lfs_fs_pred
Before(t, pair) ==
    LET I == {i \in DOMAIN t : Meet(t[i].tail, pair)}
    IN  IF I = {} THEN NoMdir ELSE t[Min(I)]
Pred(d, pair) == Before(Thread(d), pair)

\* An entry whose move is recorded on disk is not there any more.
Hidden(g, m) == {f.id + 1 : f \in MoveHere(g, m.pair)}
Visible(d, g, m) ==
    {i \in 1..m.n : i \notin Hidden(g, m) /\ Ents(d, m)[i].kind # "super"}

\* lfs_dir_get: what the library finds under an id, one past the entry from
\* the move on, and nothing under the id of the move itself.
Get(d, g, m, id) ==
    LET skip == \E h \in Hidden(g, m) : h - 1 < id
        k == IF skip THEN id + 2 ELSE id + 1
    IN  IF id + 1 \in Hidden(g, m) \/ k > m.n THEN {} ELSE {Ents(d, m)[k]}

\* lfs_fs_parent
Naming(s, m, pair) ==
    {i \in Visible(s.disk, s.gd, m) :
        Ents(s.disk, m)[i].kind = "dir" /\ Meet(Ents(s.disk, m)[i].at, pair)}
Parenthood(s, m, k) ==
    [dir |-> m, at |-> Ents(s.disk, m)[k].at,
     id |-> k - 1 - Cardinality({h \in Hidden(s.gd, m) : h < k})]
ParentAmong(s, I, t, pair) ==
    IF I = {} THEN [dir |-> NoMdir]
    ELSE Parenthood(s, t[Min(I)], Max(Naming(s, t[Min(I)], pair)))
Parent(s, pair) ==
    With(Thread(s.disk),
         LAMBDA t : ParentAmong(s, {i \in DOMAIN t : Naming(s, t[i], pair) # {}}, t, pair))

-----------------------------------------------------------------------------
(* The block allocator                                                       *)

\* lfs_fs_traverse_ with orphans: the blocks in use
HandleBlocks(h) ==
    IF h.type # "reg" \/ h.inl THEN {}
    ELSE (IF h.dirty THEN {h.head} ELSE {}) \cup (IF h.writing THEN {h.block} ELSE {})

InUseListed(s) ==                                    \* mutant
    LET t == Thread(s.disk) IN UNION {Blocks(t[i].pair) : i \in DOMAIN t}
Owned(s, m) ==
    UNION {UNION {Blocks(e.at) : e \in Get(s.disk, s.gd, m, id)} : id \in 0..(m.n - 1)}
InUse(s) ==
    With(Thread(s.disk), LAMBDA t : UNION {Blocks(t[i].pair) \cup Owned(s, t[i]) : i \in DOMAIN t})
    \cup UNION {HandleBlocks(s.ml[k]) : k \in DOMAIN s.ml}

Checkpoint(s) == [s EXCEPT !.look.ckpt = N]         \* lfs_alloc_ckpoint

\* lfs_alloc
Scan(s, start, left) ==
    [s EXCEPT !.look = [start |-> start, next |-> 0, size |-> left, ckpt |-> left, used |-> InUse(s)]]
RECURSIVE Alloc(_)
Alloc(s) ==
    LET l == s.look
        at(k) == (l.start + k) % N
        left == l.ckpt - (l.size - l.next)
        free == {k \in l.next..(l.size - 1) : at(k) \notin l.used}
        next == Min((free \ {Min(free)}) \cup {l.size})
    IN  IF s.err # "ok" THEN s
        ELSE IF free # {}
        THEN [s EXCEPT !.look.next = next, !.look.ckpt = @ - (next - l.next), !.ret = at(Min(free))]
        ELSE IF left <= 0 THEN [s EXCEPT !.err = "full"]
        ELSE Alloc(Scan(s, at(l.size), left))

\* lfs_dir_alloc: a revision above the one the first block may still hold
NewPair(s, b) ==
    [s EXCEPT !.ret = [NoMdir EXCEPT
        !.pair = <<s.ret, b>>, !.split = FALSE,
        !.rev = ((s.disk[s.ret].rev + Cycles - 1) \div Cycles) * Cycles]]
SecondOf(s) == IF s.err # "ok" THEN s ELSE With(Alloc(s), LAMBDA x : Then(x, LAMBDA y : NewPair(y, s.ret)))
DirAlloc(s) == SecondOf(Alloc(s))

\* Erase and program one block.  A failing block leaves s.bad = 0.
Prog(s, b, new, wears) ==
    LET k == s.tick + 1
    IN  IF k = s.loss
        THEN [s EXCEPT !.tick = k, !.disk[b] = Blank, !.err = "lost"]
        ELSE IF k = s.bad /\ wears
        THEN [s EXCEPT !.tick = k, !.disk[b] = Blank, !.bad = 0]
        ELSE [s EXCEPT !.tick = k, !.disk[b] = new]

-----------------------------------------------------------------------------
(* Committing to a metadata pair                                             *)

\* The attributes of a commit.
Create(id, ent) == [k |-> "create", id |-> id, ent |-> ent]
Delete(id) == [k |-> "delete", id |-> id]
Struct(id, at, val) == [k |-> "struct", id |-> id, at |-> at, val |-> val]
ToTail(pair, split) == [k |-> "tail", pair |-> pair, split |-> split]

Apply(ents, a) ==
    CASE a.k = "create" -> InsertAt(ents, a.id + 1, a.ent)
      [] a.k = "delete" -> RemoveAt(ents, a.id + 1)
      [] a.k = "struct" -> [ents EXCEPT ![a.id + 1].at = a.at, ![a.id + 1].val = a.val]
      [] a.k = "tail" -> ents

WithTail(m, a) ==
    IF a.k = "tail" THEN [m EXCEPT !.tail = a.pair, !.split = a.split] ELSE m

\* What a complete commit holds; with no checksum to close it the block counts
\* as blank.
Written(m, ents, delta) ==
    [t |-> "meta", rev |-> m.rev, ents |-> ents, tail |-> m.tail,
     split |-> m.split, delta |-> delta, val |-> <<>>]

\* lfs_dir_compact: write the entries into the older block of the pair, with
\* what has changed of the global state, and make it the current one.  A bad
\* block is replaced; the global state then waits for the next commit.
RECURSIVE Compact(_, _, _, _)
Change(s, m, moved) ==
    Delta(Delta(IF moved THEN {} ELSE Delta(Facts(s.g), Facts(s.gd)), s.ge), Carried(s.disk, m))
Compacted(x, s, m, ents, moved) ==
    IF x.err # "ok" THEN x
    ELSE IF x.bad # s.bad
    THEN Then(Alloc(x), LAMBDA y : Compact(y, [m EXCEPT !.pair[2] = y.ret], ents, TRUE))
    ELSE [x EXCEPT !.ge = {}, !.gd = IF moved THEN @ ELSE s.g,
            !.ret = [st |-> IF moved THEN "relocated" ELSE "ok",
                     dir |-> [m EXCEPT !.pair = <<m.pair[2], m.pair[1]>>,
                                       !.n = Len(ents), !.fresh = FALSE]]]
Compact(s, m, ents, moved) ==
    IF s.err # "ok" THEN s
    ELSE IF Len(ents) > Room THEN [s EXCEPT !.err = "full"]
    ELSE Compacted(Prog(s, m.pair[2], Written(m, ents, Change(s, m, moved)), ~Meet(m.pair, Root)),
                   s, m, ents, moved)

\* lfs_dir_drop: the next commit carries what this pair has carried.
TakeOver(s, m) == [s EXCEPT !.ge = Delta(@, Carried(s.disk, m))]

Revised(m) == [m EXCEPT !.rev = @ + 1]

\* Where lfs_dir_splittingcompact cuts: it halves until the rest fits.
RECURSIVE Cut(_, _)
Cut(from, to) == IF to - from <= MaxEnts THEN from
                 ELSE Cut(from + (to - from) \div 2, to)

\* lfs_dir_split: the later entries get a pair of their own behind this one.
SplitOff(s, m, ents) ==
    Then(DirAlloc(s),
         LAMBDA s1 : Compact(s1, Revised([s1.ret EXCEPT !.tail = m.tail, !.split = m.split]),
                             ents, FALSE))

\* lfs_dir_splittingcompact: with no block left for a split the pair stays one.
RECURSIVE Splitting(_, _, _)
SplitAt(s, m, ents, cut) ==
    IF cut = 0 \/ s.err = "full"
    THEN Compact([s EXCEPT !.err = "ok"], Revised(m), ents, FALSE)
    ELSE IF s.err # "ok" THEN s
    ELSE Splitting(s, [m EXCEPT !.tail = s.ret.dir.pair, !.split = TRUE], SubSeq(ents, 1, cut))
Splitting(s, m, ents) ==
    LET cut == Cut(0, Len(ents))
    IN  SplitAt(IF cut = 0 THEN s ELSE SplitOff(s, m, SubSeq(ents, cut + 1, Len(ents))), m, ents, cut)

\* The directories and files the library keeps track of follow a commit.
FollowAttr(d, a) ==
    IF a.k = "delete" /\ d.id = a.id /\ d.type # "dir"
    THEN [d EXCEPT !.m.pair = <<>>]
    ELSE IF a.k = "delete" /\ d.id > a.id THEN [d EXCEPT !.id = @ - 1]
    ELSE IF a.k = "create" /\ d.id >= a.id THEN [d EXCEPT !.id = @ + 1]
    ELSE d

RECURSIVE FollowSplit(_, _)
FollowSplit(disk_, d) ==
    IF d.id >= d.m.n /\ d.m.split
    THEN FollowSplit(disk_, [d EXCEPT !.id = @ - d.m.n, !.m = Fetch(disk_, d.m.tail)])
    ELSE d

FixList(s, pair, attrs, self) ==
    LET follow(k) ==
            LET d == [s.ml[k] EXCEPT !.m = s.ret.dir]
            IN  FollowSplit(s.disk, IF k = self THEN d ELSE FoldLeft(FollowAttr, d, attrs))
    IN  [s EXCEPT !.ml = [k \in DOMAIN s.ml |->
            IF Meet(s.ml[k].m.pair, pair) THEN follow(k) ELSE s.ml[k]]]

\* lfs_dir_relocatingcommit: a pair that would become empty is left to be
\* dropped from its directory instead.
Deletes(attrs) == \E i \in DOMAIN attrs : attrs[i].k = "delete"
WriteOrDrop(s, new, ents, attrs, pred) ==
    IF ents = <<>> /\ Deletes(attrs) /\ pred # NoMdir /\ pred.split
    THEN [s EXCEPT !.ret = [st |-> "dropped", dir |-> [new EXCEPT !.n = 0], pred |-> pred]]
    ELSE Splitting(s, new, ents)
Committed(s, m, ents, attrs, self, mayDrop) ==
    IF ents = <<>> /\ Deletes(attrs) /\ ~mayDrop THEN [s EXCEPT !.err = "assert"]
    ELSE Then(WriteOrDrop(s, FoldLeft(WithTail, m, attrs), ents, attrs, Pred(s.disk, m.pair)),
              LAMBDA x : FixList(x, m.pair, attrs, self))
RelocatingCommit(s, m, attrs, self, mayDrop) ==
    IF s.err # "ok" THEN s
    ELSE Committed(s, m, FoldLeft(Apply, Ents(s.disk, m), attrs), attrs, self, mayDrop)

PrepOrphansNot(s, k) == s                            \* mutant
PrepOrphans(s, k) == [s EXCEPT !.g.orph = @ + k]
PrepMoveNot(s, id, pair) == s                        \* mutant
PrepMove(s, id, pair) == [s EXCEPT !.g.move = {[id |-> id, pair |-> pair]}]
ClearMove(s) == [s EXCEPT !.g.move = {}]
\* A move out of this pair is completed on the way.
FixMove(s, m) ==
    LET f == MoveHere(s.g, m.pair)
    IN  [ids |-> {x.id : x \in f}, s |-> IF f = {} THEN s ELSE ClearMove(s),
         attrs |-> SetToSeq({Delete(x.id) : x \in f})]

\* lfs_dir_orphaningcommit, after the commit: a relocated pair is written into
\* its parent and into the list, which may relocate these in turn.
RECURSIVE Relocations(_, _, _)
Ending(s, orphans) == [s EXCEPT !.ret = [st |-> IF orphans THEN "orphaned" ELSE "ok"]]
Followed(s, pair) ==
    [s EXCEPT !.ml = [k \in DOMAIN s.ml |->
        IF Meet(s.ml[k].m.pair, pair) THEN [s.ml[k] EXCEPT !.m.pair = s.ret.dir.pair] ELSE s.ml[k]]]
InParent(fix, par, new) ==
    LET id == par.id - Cardinality({i \in fix.ids : i < par.id})
    IN  RelocatingCommit(fix.s, par.dir, fix.attrs \o <<Struct(id, new.pair, <<>>)>>, None, FALSE)
InList(fix, pred, new) ==
    RelocatingCommit(fix.s, pred, fix.attrs \o <<ToTail(new.pair, pred.split)>>, None, FALSE)
Further(s, new, orphans, marked, pred) ==
    IF pred = NoMdir THEN Ending(s, orphans)
    ELSE Relocations(InList(FixMove(IF marked THEN PrepOrphans(s, -1) ELSE s, pred), pred, new),
                     pred.pair, orphans)
Upwards(s, par, pair, new, orphans) ==
    IF s.err # "ok" THEN s
    ELSE IF par.dir # NoMdir /\ s.ret.st = "relocated" THEN Relocations(s, par.dir.pair, TRUE)
    ELSE Further(s, new, orphans, par.dir # NoMdir /\ s.g.orph > 0, Pred(s.disk, pair))
Moved(s, par, pair, new, orphans) ==
    Upwards(IF par.dir = NoMdir THEN s ELSE InParent(FixMove(PrepOrphans(s, 1), par.dir), par, new),
            par, pair, new, orphans)
Relocations(s, pair, orphans) ==
    IF s.err # "ok" THEN s
    ELSE IF s.ret.st # "relocated" THEN Ending(s, orphans)
    ELSE With(Followed(s, pair), LAMBDA x : Moved(x, Parent(x, pair), pair, s.ret.dir, orphans))

\* lfs_dir_orphaningcommit.  It returns the directory as it is now.
Dropping(s, r) ==
    RelocatingCommit(TakeOver(s, r.dir), r.pred, <<ToTail(r.dir.tail, r.dir.split)>>, None, FALSE)
Orphaning(s, pair, dropped) ==
    IF s.err # "ok" THEN s
    ELSE Then(Relocations(IF dropped THEN Dropping(s, s.ret) ELSE s,
                          IF dropped THEN s.ret.pred.pair ELSE pair, FALSE),
              LAMBDA x : [x EXCEPT !.ret = [st |-> x.ret.st, dir |-> s.ret.dir]])
OrphaningCommit(s, m, attrs, self) ==
    With(RelocatingCommit(s, m, attrs, self, TRUE),
         LAMBDA x : Orphaning(x, m.pair, x.err = "ok" /\ x.ret.st = "dropped"))

-----------------------------------------------------------------------------
(* Consistency after a power failure                                         *)

\* lfs_fs_deorphan: one pass for pairs whose parent has their new blocks
\* already, one for pairs without a parent.
RECURSIVE Walk(_, _, _, _, _)
IsHalf(par, pass, pdir) ==
    ~pdir.split /\ pass = 0 /\ par.dir # NoMdir /\ Blocks(par.at) # Blocks(pdir.tail)
IsFull(par, pass, pdir, powerloss) == ~pdir.split /\ pass = 1 /\ par.dir = NoMdir /\ powerloss
HalfFix(fix, par) == [s |-> fix.s, attrs |-> fix.attrs \o <<ToTail(par.at, FALSE)>>]
FullFix(s, dir) == [s |-> TakeOver(s, dir), attrs |-> <<ToTail(dir.tail, dir.split)>>]
Fixed(c, pass, pdir, more, powerloss) ==
    Then(OrphaningCommit(c.s, pdir, c.attrs, None),
         LAMBDA x : Walk(x, pass, x.ret.dir, more \/ x.ret.st = "orphaned", powerloss))
Look(s, par, pass, pdir, dir, more, powerloss) ==
    IF IsHalf(par, pass, pdir) \/ IsFull(par, pass, pdir, powerloss)
    THEN Fixed(IF pass = 0 THEN HalfFix(FixMove(s, pdir), par) ELSE FullFix(s, dir),
               pass, pdir, more, powerloss)
    ELSE Walk(s, pass, dir, more, powerloss)
Walk(s, pass, pdir, more, powerloss) ==
    IF pdir.tail # <<>>
    THEN Look(s, Parent(s, pdir.tail), pass, pdir, Fetch(s.disk, pdir.tail), more, powerloss)
    ELSE IF more \/ pass = 0
    THEN Walk(s, IF more THEN 0 ELSE 1, [NoMdir EXCEPT !.tail = Root], FALSE, powerloss)
    ELSE [s EXCEPT !.g.orph = 0]

Deorphan(s, powerloss) ==
    IF s.err # "ok" \/ s.g.orph = 0 THEN s
    ELSE Walk(s, 0, [NoMdir EXCEPT !.tail = Root], FALSE, powerloss)

\* lfs_dir_commit
DirCommit(s, m, attrs, self) ==
    Then(OrphaningCommit(s, m, attrs, self),
         LAMBDA s1 : IF s1.ret.st # "orphaned" THEN s1
                     ELSE [Deorphan(s1, FALSE) EXCEPT !.ret = s1.ret])

\* lfs_fs_demove
Demove(s) ==
    LET f == CHOOSE x \in s.gd.move : TRUE
    IN  IF s.err # "ok" \/ s.gd.move = {} THEN s
        ELSE DirCommit(ClearMove(s), Fetch(s.disk, f.pair), <<Delete(f.id)>>, None)

ForceConsistency(s) == Deorphan(Demove(s), TRUE)
-----------------------------------------------------------------------------
(* The calls                                                                 *)

\* lfs_dir_fetchmatch: the entry of that name in a pair, or where it would
\* go.  Names are sorted; the entry of a recorded move does not count.
MatchAt(s, m, name, k) ==
    LET ent == Ents(s.disk, m)[k]
        hid == Hidden(s.gd, m)
        id  == k - 1 - Cardinality({h \in hid : h < k})
    IN  IF ent.name = name /\ k \notin hid
        THEN [st |-> "ok", m |-> m, id |-> id, ent |-> ent]
        ELSE [st |-> "noent", m |-> m, id |-> id]
Match(s, m, name) ==
    LET ents == Ents(s.disk, m)
        I    == {i \in 1..m.n : ents[i].kind # "super" /\ ents[i].name >= name}
    IN  IF I = {} THEN [st |-> "end", m |-> m, id |-> m.n] ELSE MatchAt(s, m, name, Min(I))

\* lfs_dir_find, in one directory and then along a path
RECURSIVE FindName(_, _, _)
FindNext(s, m, f, name) ==
    IF f.st # "end" THEN f
    ELSE IF m.split THEN FindName(s, m.tail, name)
    ELSE [f EXCEPT !.st = "noent"]
FindName(s, pair, name) ==
    With(Fetch(s.disk, pair), LAMBDA m : FindNext(s, m, Match(s, m, name), name))

FindBelow(s, up, p) ==
    IF Len(p) = 1 THEN up
    ELSE IF up.st # "ok" THEN [st |-> "noparent"]
    ELSE IF up.ent.kind # "dir" THEN [st |-> "notdir"]
    ELSE FindName(s, up.ent.at, p[2])
Find(s, p) == FindBelow(s, FindName(s, Root, p[1]), p)

\* lfs_stat_
Got(s, f) == IF f.st = "ok" THEN Get(s.disk, s.gd, f.m, f.id) ELSE {}
StatBelow(s, up, p) ==
    IF Len(p) = 1 THEN up
    ELSE UNION {Got(s, FindName(s, e.at, p[2])) : e \in {x \in up : x.kind = "dir"}}
Stat(s, p) == StatBelow(s, Got(s, FindName(s, Root, p[1])), p)

Refuse(s) == IF s.err = "ok" THEN [s EXCEPT !.err = "refused"] ELSE s
Track(s, k, d) == [s EXCEPT !.ml = (k :> d) @@ @]
Untrack(s, k) == [s EXCEPT !.ml = [j \in DOMAIN @ \ {k} |-> @[j]]]
Held(m) == [type |-> "held", m |-> m, id |-> 0]

\* lfs_mkdir_
RECURSIVE LastOf(_, _)
LastOf(d, m) == IF m.split THEN LastOf(d, Fetch(d, m.tail)) ELSE m

EnterDir(s, cwd, id, name, dir) ==
    DirCommit(s, cwd,
        <<Create(id, [name |-> name, kind |-> "dir", at |-> dir.pair, val |-> <<>>])>>
        \o (IF cwd.split THEN <<>> ELSE <<ToTail(dir.pair, FALSE)>>), None)
\* In a directory of several pairs the last one gets the tail first.
Linked(s) == IF s.err # "ok" THEN Untrack(s, "cwd")
             ELSE [PrepOrphans(Untrack(s, "cwd"), -1) EXCEPT !.ret = s.ml["cwd"].m]
LinkDir(s, m, dir, pred) ==
    IF ~m.split THEN [s EXCEPT !.ret = m]
    ELSE Linked(DirCommit(Track(PrepOrphans(s, 1), "cwd", Held(m)), pred,
                          <<ToTail(dir.pair, FALSE)>>, None))
MakeDir(s, f, name, pred) ==
    Then(DirAlloc(Checkpoint(s)), LAMBDA x :
    Then(DirCommit(x, x.ret, <<ToTail(pred.tail, FALSE)>>, None), LAMBDA y :
    Then(LinkDir(y, f.m, y.ret.dir, pred), LAMBDA z :
    EnterDir(z, z.ret, f.id, name, y.ret.dir))))
MkdirAt(s, f, name) ==
    IF f.st # "noent" THEN Refuse(s) ELSE MakeDir(s, f, name, LastOf(s.disk, f.m))
LfsMkdir(s, p) == Then(ForceConsistency(s), LAMBDA x : MkdirAt(x, Find(x, p), Last(p)))

\* The pair of an emptied directory leaves the list (lfs_dir_drop).
DropPair(s, dir) ==
    DirCommit(TakeOver(PrepOrphans(s, -1), dir), Pred(s.disk, dir.pair),
              <<ToTail(dir.tail, dir.split)>>, None)
DropDir(s) == IF s.err # "ok" THEN s ELSE DropPair(s, s.ml["cwd"].m)

IsEmpty(m) == m.n = 0 /\ ~m.split

\* lfs_remove_
RemovedDir(s, isdir) == IF isdir THEN Untrack(DropDir(s), "cwd") ELSE s
RemoveEntry(s, f, isdir, dir) ==
    IF isdir /\ ~IsEmpty(dir) THEN Refuse(s)
    ELSE RemovedDir(DirCommit(IF isdir THEN Track(PrepOrphans(s, 1), "cwd", Held(dir)) ELSE s,
                              f.m, <<Delete(f.id)>>, None), isdir)
RemoveFound(s, f) ==
    IF f.st # "ok" THEN Refuse(s)
    ELSE RemoveEntry(s, f, f.ent.kind = "dir", Fetch(s.disk, f.ent.at))
LfsRemove(s, p) == Then(ForceConsistency(s), LAMBDA x : RemoveFound(x, Find(x, p)))

\* lfs_rename_, of what was found to what was found, with a new name
Over(t) == t.st = "ok"
OverDir(t) == Over(t) /\ t.ent.kind = "dir"
Together(f, t) == Meet(f.m.pair, t.m.pair)
OldId(f, t) == IF ~Over(t) /\ Together(f, t) /\ t.id <= f.id THEN f.id + 1 ELSE f.id
RenameMark(s, f, t) ==
    With(IF OverDir(t) THEN Track(PrepOrphans(s, 1), "cwd", Held(Fetch(s.disk, t.ent.at))) ELSE s,
         LAMBDA x : IF Together(f, t) THEN x ELSE PrepMove(x, OldId(f, t), f.m.pair))
RenameEnter(s, f, t, name) ==
    DirCommit(s, t.m,
        (IF Over(t) THEN <<Delete(t.id)>> ELSE <<>>)
        \o <<Create(t.id, [f.ent EXCEPT !.name = name])>>
        \o (IF Together(f, t) THEN <<Delete(OldId(f, t))>> ELSE <<>>), None)
RenameLeave(s, f, t) ==
    IF s.err = "ok" /\ ~Together(f, t) /\ s.g.move # {}
    THEN DirCommit(ClearMove(s), f.m, <<Delete(f.id)>>, None) ELSE s
RenameFound(s, f, t, name) ==
    IF f.st # "ok" \/ t.st \notin {"ok", "noent"} THEN Refuse(s)
    ELSE IF Over(t) /\ t.ent.kind # f.ent.kind THEN Refuse(s)
    ELSE IF Over(t) /\ Together(f, t) /\ t.id = f.id THEN s
    ELSE IF OverDir(t) /\ ~IsEmpty(Fetch(s.disk, t.ent.at)) THEN Refuse(s)
    ELSE RemovedDir(RenameLeave(RenameEnter(RenameMark(s, f, t), f, t, name), f, t), OverDir(t))
LfsRename(s, p, q) ==
    Then(ForceConsistency(s), LAMBDA x : RenameFound(x, Find(x, p), Find(x, q), Last(q)))

\* lfs_dir_open_
DirOpen(s, k, at) == Track(s, k, [type |-> "dir", id |-> 0, m |-> Fetch(s.disk, at)])

\* lfs_rm_dir of gdlittlefs.c: it walks the directory while it removes from it.
RECURSIVE RmFile(_, _), RmEntries(_, _, _)
RmEmpty(s, p, k, e) ==
    IF e.kind = "reg" THEN s ELSE Untrack(RmEntries(DirOpen(s, k, e.at), p, k), k)
RmFound(s, p, f) ==
    IF f = {} THEN Refuse(s)
    ELSE Then(RmEmpty(s, p, IF Len(p) = 1 THEN "dir" ELSE "subdir", CHOOSE e \in f : TRUE),
              LAMBDA x : LfsRemove(x, p))
RmFile(s, p) == IF s.err # "ok" THEN s ELSE RmFound(s, p, Stat(s, p))

\* lfs_dir_read_, and the call for what it found
Skipped(s, k) == Track(s, k, [s.ml[k] EXCEPT !.id = @ + 1])
RmEntry(s, p, e) == IF e = {} THEN s ELSE RmFile(s, Append(p, (CHOOSE x \in e : TRUE).name))
RmEntries(s, p, k) ==
    LET d == s.ml[k]
    IN  IF s.err # "ok" \/ (d.id = d.m.n /\ ~d.m.split) THEN s
        ELSE RmEntries(IF d.id = d.m.n
                       THEN Track(s, k, [d EXCEPT !.id = 0, !.m = Fetch(s.disk, d.m.tail)])
                       ELSE RmEntry(Skipped(s, k), p, Get(s.disk, s.gd, d.m, d.id)), p, k)

-----------------------------------------------------------------------------
(* Open files                                                                *)

\* lfs_file_opencfg_
NewHandle(f) ==
    [type |-> "reg", m |-> f.m, id |-> f.id, inl |-> TRUE, head |-> None,
     block |-> None, val |-> <<>>, dirty |-> FALSE, writing |-> FALSE, erred |-> FALSE]
Created(s) == IF s.err # "ok" THEN Untrack(s, "file") ELSE s
CreateFile(s, f, name) ==
    Created(DirCommit(Track(s, "file", NewHandle(f)), f.m,
        <<Create(f.id, [name |-> name, kind |-> "reg", at |-> <<>>, val |-> <<>>])>>, "file"))
Loaded(s, f, at) ==
    IF at = <<>> THEN [NewHandle(f) EXCEPT !.val = f.ent.val]
    ELSE [NewHandle(f) EXCEPT !.inl = FALSE, !.head = at[1], !.val = s.disk[at[1]].val]
OpenFound(s, f, name, mode) ==
    IF f.st = "noent" THEN CreateFile(s, f, name)
    ELSE IF f.st # "ok" \/ f.ent.kind # "reg" THEN Refuse(s)
    ELSE Track(s, "file", IF mode = "w" THEN [NewHandle(f) EXCEPT !.dirty = TRUE]
                          ELSE Loaded(s, f, f.ent.at))
FileOpen(s, p, mode) ==
    Then(ForceConsistency(s), LAMBDA x : OpenFound(x, Find(x, p), Last(p), mode))

\* The constructor of VFSFileImpl and lfs_open.  A path without a second slash
\* is taken for its own parent; lfs_open looks at info.type even when lfs_stat
\* has not written it.
AnyWay(s) == IF s.err = "lost" THEN s ELSE [s EXCEPT !.err = "ok"]
VfsOpenFile(s, p, mode, garbage, f) ==
    IF \E e \in f : e.kind = "dir" THEN Refuse(s)
    ELSE IF f = {} /\ garbage THEN Refuse(s)
    ELSE FileOpen(s, p, mode)
VfsOpen(s, p, mode, garbage) ==
    LET parent == SubSeq(p, 1, IF Len(p) > 1 THEN Len(p) - 1 ELSE 1)
    IN  Then(IF Stat(s, parent) = {} THEN AnyWay(LfsMkdir(s, parent)) ELSE s,
             LAMBDA x : VfsOpenFile(x, p, mode, garbage, Stat(x, p)))

\* lfs_file_relocate: a new block for the end of the file
NewBlock(s) ==
    Then(Alloc(s), LAMBDA x : [x EXCEPT !.ml["file"].block = x.ret, !.ml["file"].writing = TRUE])

\* lfs_file_outline, and lfs_ctz_extend, which copies what was there
Outline(s) == NewBlock(Checkpoint(s))
Extend(s) == NewBlock(Checkpoint(s))

\* lfs_file_flushedwrite
Took(s, val, fits) ==
    IF s.err # "ok" THEN [s EXCEPT !.ml["file"].erred = TRUE]
    ELSE [Checkpoint(s) EXCEPT !.ml["file"].val = val, !.ml["file"].erred = FALSE,
                               !.ml["file"].inl = fits]
FileWrite(s, x) ==
    LET h == s.ml["file"]
        val == h.val \o x
        fits == h.inl /\ Len(val) <= Inline
    IN  Took(IF fits THEN [s EXCEPT !.ml["file"].writing = TRUE]
             ELSE IF h.inl THEN Outline(s)
             ELSE IF ~h.writing THEN Extend(s) ELSE s, val, fits)

\* lfs_file_flush: the data goes out, to another block when this one is bad.
RECURSIVE FileFlush(_)
Flushed(x, bad) ==
    IF x.bad # bad THEN FileFlush(NewBlock(x))
    ELSE [x EXCEPT !.ml["file"].head = x.ml["file"].block, !.ml["file"].writing = FALSE,
                   !.ml["file"].dirty = TRUE]
FileFlush(s) ==
    LET h == s.ml["file"]
    IN  IF s.err # "ok" \/ ~h.writing THEN s
        ELSE Flushed(IF h.inl THEN s ELSE Prog(s, h.block, Data(h.val), TRUE), s.bad)

\* lfs_file_sync_
EntryOf(h) == IF h.inl THEN Struct(h.id, <<>>, h.val) ELSE Struct(h.id, <<h.head>>, <<>>)
Erring(s) == IF s.err = "ok" THEN s ELSE [s EXCEPT !.ml["file"].erred = TRUE]
FileCommit(s, h) ==
    IF ~h.dirty \/ h.m.pair = <<>> THEN s
    ELSE Then(DirCommit(s, h.m, <<EntryOf(h)>>, "file"),
              LAMBDA x : [x EXCEPT !.ml["file"].dirty = FALSE])
FileSync(s) ==
    IF s.ml["file"].erred THEN s
    ELSE Erring(Then(FileFlush(s), LAMBDA x : FileCommit(x, x.ml["file"])))

\* lfs_file_close_
FileClose(s) == Untrack(FileSync(s), "file")
-----------------------------------------------------------------------------
(* The sketch                                                                *)

State(d, f, loss, bad) ==
    [disk |-> d, g |-> f.g, gd |-> f.gd, ge |-> f.ge, look |-> f.look, ml |-> f.ml,
     tick |-> 0, loss |-> loss, bad |-> bad, err |-> "ok", ret |-> 0]
Ram(s) == [on |-> TRUE, g |-> s.g, gd |-> s.gd, ge |-> s.ge, look |-> s.look, ml |-> s.ml]

\* lfs_mount_: the global state is the sum of what the pairs carry.
Sum(d) == FoldLeft(LAMBDA a, m : Delta(a, Carried(d, m)), {}, Thread(d))
GState(d) == With(Sum(d), LAMBDA S : [orph |-> IF Orphan \in S THEN 1 ELSE 0, move |-> S \ {Orphan}])
Mounted(d, seed) ==
    With(GState(d), LAMBDA g :
        [on |-> TRUE, g |-> g, gd |-> g, ge |-> {}, ml |-> <<>>,
         look |-> [start |-> seed, next |-> 0, size |-> 0, ckpt |-> N, used |-> {}]])

\* lfs_format_: both blocks of the root get the superblock.
Blanks ==
    State([b \in 0..(N - 1) |-> Blank],
          [g |-> [orph |-> 0, move |-> {}], gd |-> [orph |-> 0, move |-> {}], ge |-> {}, ml |-> <<>>,
           look |-> [start |-> 0, next |-> 0, size |-> N, ckpt |-> N, used |-> {}]], 0, 0)
FirstCommit(s) == DirCommit(s, s.ret, <<Create(0, Super)>>, None)
SecondCommit(s) == DirCommit(s, s.ret.dir, <<>>, None)
Formatted == SecondCommit(FirstCommit(DirAlloc(Blanks))).disk

\* The tree on the medium, as the next mount will show it.
RECURSIVE Chain(_, _)
Chain(d, pair) ==
    With(Fetch(d, pair), LAMBDA m : IF m.split THEN <<m>> \o Chain(d, m.tail) ELSE <<m>>)
Entries(d, g, pair, above) ==
    LET of(c) == UNION {{[m |-> c[j], id |-> i - 1, ent |-> Ents(d, c[j])[i],
                          path |-> Append(above, Ents(d, c[j])[i].name)] :
                            i \in Visible(d, g, c[j])} : j \in DOMAIN c}
    IN  of(Chain(d, pair))
All(d) ==
    LET below(g, top) == top \cup UNION {Entries(d, g, x.ent.at, x.path) :
                                           x \in {y \in top : y.ent.kind = "dir"}}
    IN  With(GState(d), LAMBDA g : below(g, Entries(d, g, Root, <<>>)))
Node(d, e) == [kind |-> e.kind, val |-> IF e.kind = "dir" THEN <<>>
                                        ELSE IF e.at = <<>> THEN e.val ELSE d[e.at[1]].val]
View(d) ==
    With(All(d), LAMBDA all : [p \in {x.path : x \in all} |->
        Node(d, (CHOOSE x \in all : x.path = p).ent)])

HeldPath(s) ==
    LET h == s.ml["file"]
        at == {x \in All(s.disk) : Meet(x.m.pair, h.m.pair) /\ x.id = h.id}
    IN  IF "file" \notin DOMAIN s.ml THEN None
        ELSE IF at = {} THEN Gone ELSE (CHOOSE x \in at : TRUE).path
Init ==
    /\ disk = Formatted /\ tree = View(disk) /\ held = None
    /\ fs = Off
    /\ res = <<"begin">>
    /\ ops = 0 /\ losses = 0 /\ faults = 0

Answer(s) == IF s.err = "ok" THEN "ok" ELSE s.err

\* A call: it runs to its end, or the power fails at one of its writes; a
\* block that it writes may turn out to be bad.
Ends(call, s, worn) ==
    /\ disk' = s.disk /\ fs' = Ram(s) /\ tree' = View(s.disk) /\ held' = HeldPath(s)
    /\ res' = call \o <<Answer(s)>>
    /\ ops' = ops + 1 /\ faults' = faults + worn
    /\ UNCHANGED losses

Fails(call, s, worn) ==
    /\ disk' = s.disk /\ fs' = Off /\ tree' = View(s.disk) /\ held' = None
    /\ res' = <<"off">> \o call
    /\ ops' = ops + 1 /\ losses' = losses + 1 /\ faults' = faults + worn

Run(call, Body(_)) ==
    /\ fs.on /\ ops < MaxOps
    /\ LET at(loss, bad) == Body(State(disk, fs, loss, bad))
           plain == at(0, 0)
           cut(bad, last, worn) ==
               /\ losses < MaxLosses
               /\ \E loss \in (bad + 1)..last : Fails(call, at(loss, bad), worn)
       IN  \/ Ends(call, plain, 0)
           \/ cut(0, plain.tick, 0)
           \/ /\ faults < MaxFaults
              /\ \E bad \in 1..plain.tick :
                   LET worn == at(0, bad)
                   IN  /\ worn.bad = 0
                       /\ Ends(call, worn, 1) \/ cut(bad, worn.tick, 1)

Holding == fs.on /\ "file" \in DOMAIN fs.ml
Spares(S) == Cautious => held \notin S

Mkdir(p) == Run(<<"mkdir", p>>, LAMBDA s : LfsMkdir(s, p))

RemovePath(p) == Spares({p}) /\ Run(<<"remove", p>>, LAMBDA s : LfsRemove(s, p))

Looks == Settled => fs.gd.move = {}

Exists(p) ==
    /\ fs.on /\ Looks /\ ops < MaxOps
    /\ res' = <<"exists", p, IF Stat(State(disk, fs, 0, 0), p) = {} THEN "no" ELSE "yes">>
    /\ ops' = ops + 1
    /\ UNCHANGED <<disk, fs, tree, held, losses, faults>>

RmDir(p) ==
    /\ fs.on /\ Looks
    /\ Cautious /\ held # None => ~IsPrefix(p, held)
    /\ Run(<<"rmdir", p>>, LAMBDA s : RmFile(s, p))

\* No directory is renamed into another: paths have two names at most, and
\* the code does not look whether a directory goes into itself.
Rename(p, q) ==
    /\ p # q => Spares({p, q})
    /\ p \in DOMAIN tree /\ Len(q) = 2 => tree[p].kind = "reg"
    /\ Run(<<"rename", p, q>>, LAMBDA s : LfsRename(s, p, q))

Open(p, mode) ==
    /\ fs.on /\ Looks /\ ~Holding
    /\ \E garbage \in {FALSE, p \notin DOMAIN tree} :
         Run(<<"open", p, mode>>, LAMBDA s : VfsOpen(s, p, mode, garbage))

Piece(n, x) == [i \in 1..n |-> x]
Write ==
    /\ Holding
    /\ \E n \in 1..(MaxWrites - Len(fs.ml["file"].val)) :
         Run(<<"write">>, LAMBDA s : FileWrite(s, Piece(n, ops)))

Flush == Holding /\ Run(<<"flush">>, LAMBDA s : FileSync(s))
Close == Holding /\ Run(<<"close">>, LAMBDA s : FileClose(s))

\* end() without an open file, or the power fails between two calls.
Stop ==
    /\ fs.on /\ losses < MaxLosses
    /\ fs' = Off /\ held' = None /\ res' = <<"off">>
    /\ losses' = losses + 1
    /\ UNCHANGED <<disk, tree, ops, faults>>

Begin ==
    /\ ~fs.on
    /\ \E seed \in Seeds : fs' = Mounted(disk, seed)
    /\ res' = <<"begin">>
    /\ UNCHANGED <<disk, tree, held, ops, losses, faults>>

Next ==
    \/ \E p \in Paths : Mkdir(p) \/ RemovePath(p) \/ RmDir(p) \/ Exists(p)
    \/ \E p, q \in Paths : Rename(p, q)
    \/ \E p \in Paths, mode \in Modes : Open(p, mode)
    \/ Write \/ Flush \/ Close \/ Stop \/ Begin

Spec == Init /\ [][Next]_vars

-----------------------------------------------------------------------------
(* Properties                                                                *)

\* Every call has happened whole or not at all, at each moment at which the
\* power may fail in it: removals, renames between directories, relocations
\* and the clean-up after the mount show no tree in between (lfs_dir_commit,
\* lfs_rename_, lfs_fs_forceconsistency).
Promise == INSTANCE FileTree WITH
    Values <- {Piece(n, x) : n \in 1..MaxWrites, x \in 0..MaxOps},
    buf <- IF Holding THEN fs.ml["file"].val ELSE <<>>
TreeAtomic == Promise!Spec

\* No block belongs to two owners: the list of pairs can be read to its end,
\* and its blocks, those of the files and those an open file has in hand are
\* all different (lfs_alloc, lfs_fs_traverse_).
BlocksOwned ==
    LET t == Thread(disk)
        all == All(disk)
        files == {x \in all : x.ent.kind = "reg" /\ x.ent.at # <<>>}
        blk(x) == x.ent.at[1]
        pairs == UNION {Blocks(t[i].pair) : i \in DOMAIN t}
                 \cup UNION {Blocks(x.ent.at) : x \in {y \in all : y.ent.kind = "dir"}}
    IN  /\ \A i \in DOMAIN t : disk[t[i].pair[1]].t = "meta"
        /\ \A i \in DOMAIN t : i = Len(t) <=> t[i].tail = <<>>
        /\ \A x \in files : blk(x) \notin pairs /\ disk[blk(x)].t = "data"
        /\ \A x, y \in files : blk(x) = blk(y) => x = y
        /\ Holding => LET h == fs.ml["file"]
                          mine == IF h.writing /\ ~h.inl THEN {h.block} ELSE {}
                      IN  mine \cap (pairs \cup {blk(x) : x \in files}) = {}

\* What a power failure leaves to be cleaned up is announced on the medium: a
\* directory in the list without its entry, or with an entry that names other
\* blocks, never lacks the orphan mark (lfs_fs_preporphans, lfs_fs_deorphan).
OrphansMarked ==
    LET t == Thread(disk)
        g == GState(disk)
        dirs == {x.ent.at : x \in {y \in All(disk) : y.ent.kind = "dir"}}
        loose(i) == /\ ~t[i - 1].split
                    /\ \A at \in dirs : Blocks(at) # Blocks(t[i].pair)
    IN  (\E i \in 2..Len(t) : loose(i)) => Orphan \in Sum(disk)

\* The library's copy of the global state is the sum of what the pairs carry,
\* or the next commit would write a wrong difference (lfs_dir_getgstate,
\* lfs_dir_drop).
StateMatches == fs.on => Sum(disk) = Facts(fs.gd) /\ fs.ge = {}

\* What a power failure interrupts is announced on the medium, and the library
\* knows what is announced there.
StateAnnounced == OrphansMarked /\ StateMatches
=============================================================================

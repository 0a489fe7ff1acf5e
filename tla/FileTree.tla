------------------------------ MODULE FileTree ------------------------------
(* What the file system promises a sketch: every call takes effect at once   *)
(* or not at all, a file changes on the medium only when its handle is       *)
(* synchronised or closed, and when the power fails in a call the medium is  *)
(* as before or as after that call.                                          *)
EXTENDS Integers, Sequences, FiniteSets

CONSTANTS
    Paths,      \* the paths the sketch uses: sequences of names
    Values,     \* what a write appends
    None

VARIABLES
    tree,       \* the medium: a node for each path that exists
    held,       \* the path of the open file, None when there is none
    buf,        \* its content, as the handle sees it
    res         \* the last call and its answer

OpenModes == {"w", "a"}       \* FILE_WRITE, FILE_APPEND

Dir == [kind |-> "dir", val |-> <<>>]
File(v) == [kind |-> "reg", val |-> v]

Above(p) == SubSeq(p, 1, Len(p) - 1)
Under(p, q) == Len(q) > Len(p) /\ SubSeq(q, 1, Len(p)) = p
IsDir(t, p) == p = <<>> \/ (p \in DOMAIN t /\ t[p].kind = "dir")
IsFile(t, p) == p \in DOMAIN t /\ t[p].kind = "reg"
Empty(t, p) == \A q \in DOMAIN t : ~Under(p, q)

Put(t, p, node) == [q \in DOMAIN t \cup {p} |-> IF q = p THEN node ELSE t[q]]
Drop(t, S) == [q \in DOMAIN t \ S |-> t[q]]

CanMake(t, p) == IsDir(t, Above(p)) /\ p \notin DOMAIN t
CanRemove(t, p) == p \in DOMAIN t /\ Empty(t, p)
CanRename(t, p, q) ==
    /\ p \in DOMAIN t
    /\ IsDir(t, Above(q))
    /\ q \in DOMAIN t => /\ t[p].kind = t[q].kind
                         /\ q = p \/ Empty(t, q)

\* open() makes the parent directory first, and takes a path in the root for
\* its own parent: it makes a directory of that name and refuses it.
Parent(p) == IF Above(p) = <<>> THEN p ELSE Above(p)
WithParent(t, p) == IF CanMake(t, Parent(p)) THEN Put(t, Parent(p), Dir) ELSE t

Moved(p, q, r) == IF r = p \/ Under(p, r)
                  THEN q \o SubSeq(r, Len(p) + 1, Len(r)) ELSE r

Renamed(t, p, q) ==
    LET old == {r \in DOMAIN t : r = p \/ Under(p, r)}
        new == {Moved(p, q, r) : r \in old}
    IN  [r \in (DOMAIN t \ old) \cup new |->
           IF r \in new THEN t[CHOOSE o \in old : Moved(p, q, o) = r] ELSE t[r]]

Init == tree = <<>> /\ held = None /\ buf = <<>> /\ res = <<"begin">>

\* The power fails in the call: the medium shows one of the given trees, or
\* the call has changed nothing.
Cut(call, trees) ==
    /\ tree' \in {tree} \cup trees
    /\ held' = None /\ buf' = <<>> /\ res' = <<"off">> \o call

\* A call that changes the tree to t when its precondition holds, and does
\* nothing when the medium is full.
Call(call, pre, t) ==
    \/ pre /\ tree' = t /\ res' = call \o <<"ok">>
    \/ ~pre /\ tree' = tree /\ res' = call \o <<"refused">>
    \/ tree' = tree /\ res' = call \o <<"full">>

After(pre, t) == IF pre THEN {t} ELSE {}

Mkdir(p) ==
    LET call == <<"mkdir", p>>
        pre == CanMake(tree, p)
        t == Put(tree, p, Dir)
    IN  \/ Call(call, pre, t) /\ UNCHANGED <<held, buf>>
        \/ Cut(call, After(pre, t))

Remove(p) ==
    LET call == <<"remove", p>>
        pre == CanRemove(tree, p)
        t == Drop(tree, {p})
    IN  \/ Call(call, pre, t) /\ held # p /\ UNCHANGED <<held, buf>>
        \/ Cut(call, After(pre, t))

\* rmdir() removes one entry after the other, children before their parent.
RemoveTree(p) ==
    LET call == <<"rmdir", p>>
        all == {q \in DOMAIN tree : q = p \/ Under(p, q)}
        partly == {S \in SUBSET all : p \in S => S = all}
    IN  \/ /\ Call(call, p \in DOMAIN tree, Drop(tree, all))
           /\ held \notin all /\ UNCHANGED <<held, buf>>
        \/ Cut(call, {Drop(tree, S) : S \in partly})

Rename(p, q) ==
    LET call == <<"rename", p, q>>
        pre == CanRename(tree, p, q)
        t == Renamed(tree, p, q)
    IN  \/ /\ Call(call, pre, t)
           /\ pre => held \notin {p, q} \/ p = q
           /\ held' = IF held # None /\ res'[4] = "ok"
                      THEN Moved(p, q, held) ELSE held
           /\ UNCHANGED buf
        \/ Cut(call, After(pre, t))

Exists(p) ==
    /\ res' = <<"exists", p, IF p \in DOMAIN tree THEN "yes" ELSE "no">>
    /\ UNCHANGED <<tree, held, buf>>

\* Opening truncates in the handle, not on the medium.  A file that does not
\* exist yet may be refused: the code then looks at a type it never read.
Open(p, mode) ==
    LET call == <<"open", p, mode>>
        t == WithParent(tree, p)
        new == p \notin DOMAIN t
        fits == IsDir(t, Above(p)) /\ ~IsDir(t, p)
        made == IF new THEN Put(t, p, File(<<>>)) ELSE t
    IN  /\ held = None
        /\ \/ /\ fits /\ tree' = made /\ held' = p /\ res' = call \o <<"ok">>
              /\ buf' = IF new \/ mode = "w" THEN <<>> ELSE t[p].val
           \/ /\ ~fits \/ new
              /\ tree' = t /\ res' = call \o <<"refused">>
              /\ UNCHANGED <<held, buf>>
           \/ /\ tree' \in {tree, t} /\ res' = call \o <<"full">>
              /\ UNCHANGED <<held, buf>>
           \/ Cut(call, {t} \cup After(fits, made))

Write(x) ==
    /\ held # None
    /\ \/ buf' = buf \o x /\ res' = <<"write", "ok">>
       \/ buf' = buf /\ res' = <<"write", "full">>
    /\ UNCHANGED <<tree, held>>

Stored == Put(tree, held, File(buf))

Flush ==
    /\ held # None
    /\ \/ tree' = Stored /\ res' = <<"flush", "ok">> /\ UNCHANGED <<held, buf>>
       \/ tree' = tree /\ res' = <<"flush", "full">> /\ UNCHANGED <<held, buf>>
       \/ Cut(<<"flush">>, {Stored})

Close ==
    /\ held # None
    /\ \/ /\ tree' = Stored /\ res' = <<"close", "ok">>
          /\ held' = None /\ buf' = <<>>
       \/ /\ tree' = tree /\ res' = <<"close", "full">>
          /\ held' = None /\ buf' = <<>>
       \/ Cut(<<"close">>, {Stored})

Begin ==
    /\ res' = <<"begin">>
    /\ UNCHANGED <<tree, held, buf>>

Next ==
    \/ \E p \in Paths : Mkdir(p) \/ Remove(p) \/ RemoveTree(p) \/ Exists(p)
    \/ \E p, q \in Paths : Rename(p, q)
    \/ \E p \in Paths, mode \in OpenModes : Open(p, mode)
    \/ \E x \in Values : Write(x)
    \/ Flush \/ Close \/ Begin \/ Cut(<<>>, {})

Spec == Init /\ [][Next]_<<tree, held, buf, res>>
=============================================================================

-------------------------- MODULE HttpServerProofs --------------------------
(* Theorems about the web server and the firmware update behind it, for      *)
(* every sector and slot size, every request and every behaviour of the      *)
(* peers.                                                                    *)
EXTENDS HttpServer, SequenceTheorems, FiniteSetTheorems, NaturalsInduction,
        WellFoundedInduction, TLAPS

-----------------------------------------------------------------------------
(* The inductive invariant.                                                  *)

Kind  == {"page", "missing", "plain", "raw", "fields", "upload", "form", "update", "none"}
Token == Bytes \cup {"request", "header", "", "length", "form", "bound", "field", "value",
                     "last", "file", "type", "tail"}
Cell  == Token \cup {"old", "blank"}

Statuses == {"idle", "uploading", "error", "success"}
Replies  == {0, 200, 400, 413, 500}
Flags    == SUBSET {0, 1}
Yes      == BOOLEAN

OtaStates ==
    [running : {0, 1}, newer : Flags, flash : [Cells -> Cell], offset : Nat, erase : Nat,
     updating : Yes, status : Statuses, reply : Replies]

\* What was erased is a number of whole sectors of the slot that is not running.
Aligned(o) == \E k \in 0..Sectors : o.erase = NewAddr(o) + Sector * k

TokensInv ==
    /\ rx \in Seq(Token) /\ sock \in Seq(Token) /\ left \in Seq(Token)
    /\ buf \in Seq(Token) /\ matched \in 0..3
    /\ pc = "file" => matched \in 0..2

\* Between the callbacks of one file.
Uploading == asked.kind = "update" /\ pc \in {"file", "fileEnd", "rawBytes"}

SlotInv ==
    /\ TokensInv
    /\ ota \in OtaStates
    /\ Uploading => Aligned(ota)

\* What a callback leaves of the update: the running slot and everything else
\* outside the other one.
Kept(o, p) ==
    /\ p \in OtaStates /\ Aligned(p) /\ p.running = o.running
    /\ \A a \in Cells \ SlotCells(1 - o.running) : p.flash[a] = o.flash[a]

-----------------------------------------------------------------------------
(* Numbers.                                                                  *)

\* Induction over the natural numbers, for a set of them.
LEMMA SetInduction ==
    ASSUME NEW S \in SUBSET Nat, 0 \in S, \A n \in S : n + 1 \in S
    PROVE  S = Nat
  <1> DEFINE T == Nat \ S
  <1>1. SUFFICES ASSUME T # {} PROVE FALSE  OBVIOUS
  <1>2. \E x \in T : \A y \in T : ~(<<y, x>> \in OpToRel(<, Nat))
    BY <1>1, WFMin, NatLessThanWellFounded
  <1>3. PICK x \in T : \A y \in T : ~(y < x)  BY <1>2 DEF OpToRel
  <1>4. x # 0 /\ x - 1 \in Nat /\ x - 1 < x  BY <1>3
  <1>5. x - 1 \in S  BY <1>3, <1>4
  <1>6. (x - 1) + 1 = x  BY <1>3, <1>4
  <1> QED  BY <1>3, <1>5, <1>6

LEMMA Division ==
    ASSUME NEW n \in Nat, NEW d \in Nat \ {0}
    PROVE  n \div d \in Nat /\ d * (n \div d) <= n /\ n < d * (n \div d) + d
  OBVIOUS

LEMMA Cancel ==
    ASSUME NEW a \in Int, NEW b \in Int, NEW d \in Nat \ {0}, d * a < d * b
    PROVE  a < b
  OBVIOUS

\* The sectors that hold the m cells after the first k sectors.
LEMMA Rounded ==
    ASSUME NEW s \in Nat \ {0}, NEW k \in Nat, NEW n \in Nat, NEW m \in Nat,
           m >= 1, k <= n, s * k + m <= s * n
    PROVE  (m + s - 1) \div s \in Nat /\ k + (m + s - 1) \div s <= n
  <1> DEFINE c == (m + s - 1) \div s
  <1>1. m + s - 1 \in Nat  OBVIOUS
  <1>2. c \in Nat /\ s * c <= m + s - 1  BY <1>1, Division
  <1> HIDE DEF c
  <1>3. s * (k + c) = s * k + s * c /\ s * (n + 1) = s * n + s  BY <1>2
  <1>4. s * k \in Int /\ s * n \in Int /\ s * c \in Int  BY <1>2
  <1>5. s * (k + c) < s * (n + 1)  BY <1>2, <1>3, <1>4
  <1>6. k + c < n + 1  BY <1>2, <1>5, Cancel
  <1> QED  BY <1>2, <1>6 DEF c

-----------------------------------------------------------------------------
(* The update.                                                               *)

LEMMA SlotTyped ==
    ASSUME NEW o \in OtaStates
    PROVE  /\ Sector \in Nat \ {0} /\ Sectors \in Nat \ {0} /\ Slot \in Nat
           /\ Slot = Sector * Sectors
           /\ NewAddr(o) \in Nat
           /\ SlotCells(1 - o.running) = NewAddr(o)..(NewAddr(o) + Slot - 1)
           /\ SlotCells(1 - o.running) \subseteq Cells
  <1>1. Sector \in Nat \ {0} /\ Sectors \in Nat \ {0}  BY FlashAssumption
  <1>2. Slot \in Nat /\ Slot = Sector * Sectors  BY <1>1 DEF Slot
  <1>3. o.running \in {0, 1}  BY DEF OtaStates
  <1>4. SlotStart(0) = Sector /\ SlotStart(1) = Sector + Slot /\ SlotStart(2) = Sector + Slot + Slot
    BY <1>1, <1>2 DEF SlotStart
  <1> HIDE DEF Slot
  <1>5. CASE o.running = 0
    <2>1. NewAddr(o) = Sector + Slot  BY <1>4, <1>5 DEF NewAddr
    <2>2. SlotCells(1) = (Sector + Slot)..(Sector + Slot + Slot - 1)
      BY <1>1, <1>2 DEF SlotCells, SlotStart
    <2>3. SlotCells(1) \subseteq Cells  BY <1>1, <1>2, <1>4, <2>2 DEF Cells
    <2> QED  BY <1>1, <1>2, <1>5, <2>1, <2>2, <2>3
  <1>6. CASE o.running = 1
    <2>1. NewAddr(o) = Sector  BY <1>4, <1>6 DEF NewAddr
    <2>2. SlotCells(0) = Sector..(Sector + Slot - 1)
      BY <1>1, <1>2 DEF SlotCells, SlotStart
    <2>3. SlotCells(0) \subseteq Cells  BY <1>1, <1>2, <1>4, <2>2 DEF Cells
    <2> QED  BY <1>1, <1>2, <1>6, <2>1, <2>2, <2>3
  <1> QED  BY <1>3, <1>5, <1>6

LEMMA IntervalSize ==
    ASSUME NEW a \in Int, NEW b \in Int
    PROVE  Cardinality(a..b) = IF a > b THEN 0 ELSE b - a + 1
  BY FS_Interval

LEMMA ErasedRange ==
    ASSUME NEW o, NEW upto \in Int, NEW from \in Int, from = o.erase,
           NEW missing \in Int, missing = upto - from, NEW sectors \in Int,
           sectors = IF missing <= 0 THEN 0 ELSE (missing + Sector - 1) \div Sector
    PROVE  Erased(o, upto) = from..(from + sectors * Sector - 1)
  BY FlashAssumption DEF Erased

\* What is erased for a piece that fits lies in the other slot, in whole sectors.
LEMMA ErasedInSlot ==
    ASSUME NEW o \in OtaStates, Aligned(o), NEW n \in Nat, o.offset + n <= Slot
    PROVE  LET cells == Erased(o, NewAddr(o) + o.offset + n)
           IN  /\ cells \subseteq SlotCells(1 - o.running)
               /\ Cardinality(cells) \in Nat
               /\ \E k \in 0..Sectors : o.erase + Cardinality(cells) = NewAddr(o) + Sector * k
  <1>1. /\ Sector \in Nat \ {0} /\ Sectors \in Nat \ {0} /\ Slot = Sector * Sectors
        /\ NewAddr(o) \in Nat /\ SlotCells(1 - o.running) = NewAddr(o)..(NewAddr(o) + Slot - 1)
    BY SlotTyped
  <1>2. o.offset \in Nat /\ o.erase \in Nat  BY DEF OtaStates
  <1>3. PICK start \in Nat : start = NewAddr(o)  BY <1>1
  <1>4. PICK from \in Nat : from = o.erase  BY <1>2
  <1>5. PICK upto \in Nat : upto = start + o.offset + n  BY <1>2, <1>3
  <1>6. PICK missing \in Int : missing = upto - from  BY <1>4, <1>5
  <1>7. PICK k \in 0..Sectors : from = start + Sector * k  BY <1>3, <1>4 DEF Aligned
  <1>7b. PICK done \in Nat : done = Sector * k  BY <1>1, <1>7
  <1>8. PICK sectors \in Nat :
          /\ sectors = IF missing <= 0 THEN 0 ELSE (missing + Sector - 1) \div Sector
          /\ k + sectors <= Sectors
    <2>1. CASE missing <= 0  BY <1>1, <1>7, <2>1
    <2>2. CASE missing > 0
      <3>1. missing \in Nat /\ missing >= 1  BY <1>6, <2>2
      <3>2. Slot \in Nat /\ from = start + done  BY <1>1, <1>7, <1>7b
      <3>4. done + missing <= Slot  BY <1>2, <1>5, <1>6, <3>2
      <3>5. Sector * k + missing <= Sector * Sectors  BY <1>1, <1>7b, <3>4
      <3>3. (missing + Sector - 1) \div Sector \in Nat /\ k + (missing + Sector - 1) \div Sector <= Sectors
        BY <1>1, <1>7, <3>1, <3>5, Rounded
      <3> QED  BY <2>2, <3>1, <3>3
    <2> QED  BY <1>6, <2>1, <2>2
  <1>9. Sector * (k + sectors) = Sector * k + sectors * Sector /\ Sector * (k + sectors) <= Sector * Sectors
    BY <1>1, <1>7, <1>8
  <1>10. PICK size \in Nat : size = sectors * Sector  BY <1>1, <1>8
  <1>11. PICK last \in Int : last = from + size - 1  BY <1>10
  <1>12. Erased(o, upto) = from..last
    BY SMTT(30), <1>4, <1>6, <1>8, <1>10, <1>11, ErasedRange
  <1>13. from..last \subseteq SlotCells(1 - o.running)
    <2>1. Slot \in Nat /\ from = start + done /\ done + size <= Slot
      BY <1>1, <1>7, <1>7b, <1>9, <1>10
    <2>2. from >= start /\ last <= start + Slot - 1  BY <1>11, <2>1
    <2> QED  BY <1>1, <1>3, <2>1, <2>2
  <1>14. Cardinality(from..last) = size
    <2>1. from \in Int /\ last \in Int  OBVIOUS
    <2>2. Cardinality(from..last) = IF from > last THEN 0 ELSE last - from + 1
      BY ONLY <2>1, IntervalSize
    <2> QED  BY <1>10, <1>11, <2>2
  <1>15. k + sectors \in 0..Sectors /\ from + size = start + Sector * (k + sectors)
    BY <1>1, <1>7, <1>8, <1>9, <1>10
  <1> QED  BY <1>3, <1>4, <1>5, <1>12, <1>13, <1>14, <1>15

LEMMA StartAligns ==
    ASSUME NEW o \in OtaStates
    PROVE  Kept(o, OtaStart([o EXCEPT !.reply = 0], TRUE))
  <1> DEFINE p == [o EXCEPT !.reply = 0, !.offset = 0, !.erase = NewAddr(o), !.updating = TRUE,
                            !.status = "uploading"]
  <1>1. OtaStart([o EXCEPT !.reply = 0], TRUE) = p
    BY DEF OtaStart, OtaBegin, OtaStates, NewAddr
  <1>2. p.running = o.running /\ p.flash = o.flash /\ p.erase = NewAddr(o)  BY DEF OtaStates
  <1>3. NewAddr(o) \in Nat /\ Sectors \in Nat /\ Sector \in Nat  BY SlotTyped
  <1>4. p \in OtaStates
    <2>1. TRUE \in Yes /\ "uploading" \in Statuses /\ 0 \in Replies  BY DEF Yes, Statuses, Replies
    <2> QED  BY <1>3, <2>1 DEF OtaStates
  <1>5. NewAddr(p) = NewAddr(o)  BY <1>2 DEF NewAddr
  <1> HIDE DEF p
  <1>6. Aligned(p)
    <2>1. 0 \in 0..Sectors /\ p.erase = NewAddr(p) + Sector * 0  BY <1>2, <1>3, <1>5
    <2> QED  BY <2>1 DEF Aligned
  <1> QED  BY <1>1, <1>2, <1>4, <1>6 DEF Kept

\* Erasing cells of a slot leaves the others as they were.
LEMMA BlankKeeps ==
    ASSUME NEW flash \in [Cells -> Cell], NEW slot, NEW cells, cells \subseteq slot
    PROVE  /\ Blank(flash, cells) \in [Cells -> Cell]
           /\ \A a \in Cells \ slot : Blank(flash, cells)[a] = flash[a]
  BY DEF Blank, Cell

\* So does writing them.
LEMMA StoreKeeps ==
    ASSUME NEW flash \in [Cells -> Cell], NEW at \in Nat, NEW data \in Seq(Token)
    PROVE  /\ Store(flash, at, data) \in [Cells -> Cell]
           /\ \A a \in Cells : a \notin at..(at + Len(data) - 1) => Store(flash, at, data)[a] = flash[a]
  <1> DEFINE span   == at..(at + Len(data) - 1)
             stored == Store(flash, at, data)
  <1>1. DOMAIN flash = Cells  OBVIOUS
  <1>2. stored = [a \in Cells |-> IF a \in span THEN data[a - at + 1] ELSE flash[a]]
    BY <1>1 DEF Store
  <1>3. \A a \in span : data[a - at + 1] \in Cell
    <2>1. Len(data) \in Nat /\ \A i \in 1..Len(data) : data[i] \in Token  OBVIOUS
    <2>2. \A a \in span : a - at + 1 \in 1..Len(data)  BY <2>1
    <2> QED  BY <2>1, <2>2 DEF Cell
  <1> HIDE DEF span, stored
  <1>5. stored \in [Cells -> Cell] /\ \A a \in Cells : a \notin span => stored[a] = flash[a]
    BY <1>2, <1>3
  <1> QED  BY <1>5 DEF stored, span

LEMMA KeptBy ==
    ASSUME NEW o \in OtaStates, NEW p \in OtaStates, p.running = o.running,
           \E k \in 0..Sectors : p.erase = NewAddr(o) + Sector * k,
           \A a \in Cells \ SlotCells(1 - o.running) : p.flash[a] = o.flash[a]
    PROVE  Kept(o, p)
  <1>1. NewAddr(p) = NewAddr(o)  BY DEF NewAddr
  <1>2. Aligned(p)  BY <1>1 DEF Aligned
  <1> QED  BY <1>2 DEF Kept

LEMMA OtaTyped ==
    ASSUME NEW o \in OtaStates
    PROVE  /\ o.running \in {0, 1} /\ o.newer \in Flags /\ o.flash \in [Cells -> Cell]
           /\ o.offset \in Nat /\ o.erase \in Nat /\ o.updating \in Yes
           /\ o.status \in Statuses /\ o.reply \in Replies
  BY DEF OtaStates

LEMMA FailsTyped ==
    ASSUME NEW o \in OtaStates, NEW code \in Replies
    PROVE  /\ Fails(o, code) \in OtaStates /\ Fails(o, code).running = o.running
           /\ Fails(o, code).flash = o.flash /\ Fails(o, code).erase = o.erase
  <1>1. "error" \in Statuses /\ FALSE \in Yes  BY DEF Statuses, Yes
  <1> QED  BY <1>1 DEF Fails, OtaStates

\* Cells of the other slot erased for data that is written there.
Spans(o, cells, at, data, erased) ==
    /\ cells \subseteq SlotCells(1 - o.running) /\ Cardinality(cells) \in Nat
    /\ \E k \in 0..Sectors : o.erase + Cardinality(cells) = NewAddr(o) + Sector * k
    /\ at..(at + Len(data) - 1) \subseteq SlotCells(1 - o.running)
    /\ erased = [o EXCEPT !.flash = Blank(o.flash, cells), !.erase = @ + Cardinality(cells)]

Stored(erased, at, data) ==
    [erased EXCEPT !.flash = Store(@, at, data), !.offset = @ + Len(data)]

LEMMA SpanKeeps ==
    ASSUME NEW o \in OtaStates, NEW cells, NEW at \in Nat, NEW data \in Seq(Token),
           NEW erased, Spans(o, cells, at, data, erased)
    PROVE  /\ Kept(o, erased) /\ Kept(o, Fails(erased, 500))
           /\ Kept(o, Stored(erased, at, data))
  <1>0. /\ cells \subseteq SlotCells(1 - o.running) /\ Cardinality(cells) \in Nat
        /\ \E k \in 0..Sectors : o.erase + Cardinality(cells) = NewAddr(o) + Sector * k
        /\ at..(at + Len(data) - 1) \subseteq SlotCells(1 - o.running)
        /\ erased = [o EXCEPT !.flash = Blank(o.flash, cells), !.erase = @ + Cardinality(cells)]
    BY DEF Spans
  <1> USE <1>0
  <1>1. /\ o.flash \in [Cells -> Cell] /\ o.offset \in Nat /\ o.erase \in Nat
        /\ 500 \in Replies /\ Len(data) \in Nat
    BY OtaTyped DEF Replies
  <1>2. PICK slot : slot = SlotCells(1 - o.running)  OBVIOUS
  <1>3. PICK flash \in [Cells -> Cell] : flash = o.flash  BY <1>1
  <1>4. PICK blank : blank = Blank(flash, cells)  OBVIOUS
  <1>5. blank \in [Cells -> Cell] /\ \A a \in Cells \ slot : blank[a] = flash[a]
    <2>1. cells \subseteq slot  BY <1>2
    <2> QED  BY ONLY <1>3, <1>4, <2>1, BlankKeeps
  <1>6. PICK full : full = Store(blank, at, data)  OBVIOUS
  <1>7. full \in [Cells -> Cell] /\ \A a \in Cells \ slot : full[a] = blank[a]
    <2>1. blank \in [Cells -> Cell] /\ at \in Nat /\ data \in Seq(Token)  BY <1>5
    <2>2. full \in [Cells -> Cell] /\ \A a \in Cells : a \notin at..(at + Len(data) - 1) => full[a] = blank[a]
      BY ONLY <1>6, <2>1, StoreKeeps
    <2>3. \A a \in at..(at + Len(data) - 1) : a \in slot  BY ONLY <1>0, <1>2
    <2> QED  BY ONLY <2>2, <2>3
  <1>8. PICK erase \in Nat : erase = o.erase + Cardinality(cells)  BY <1>1
  <1>9. PICK offset \in Nat : offset = o.offset + Len(data)  BY <1>1
  <1>10. erased = [o EXCEPT !.flash = blank, !.erase = erase]
    BY <1>3, <1>4, <1>8 DEF OtaStates
  <1>11. /\ erased \in OtaStates /\ erased.running = o.running /\ erased.flash = blank
         /\ erased.erase = erase /\ erased.offset = o.offset
    BY <1>5, <1>8, <1>10 DEF OtaStates
  <1>12. Kept(o, erased)
    BY ZenonT(40), <1>2, <1>3, <1>5, <1>8, <1>11, KeptBy
  <1>13. /\ Fails(erased, 500) \in OtaStates /\ Fails(erased, 500).running = o.running
         /\ Fails(erased, 500).flash = blank /\ Fails(erased, 500).erase = erase
    <2>1. 500 \in Replies  BY DEF Replies
    <2>2. erased \in OtaStates  BY <1>11
    <2>3. \A x \in OtaStates, c \in Replies :
            /\ Fails(x, c) \in OtaStates /\ Fails(x, c).running = x.running
            /\ Fails(x, c).flash = x.flash /\ Fails(x, c).erase = x.erase
      BY FailsTyped
    <2> QED  BY ONLY <1>11, <2>1, <2>2, <2>3
  <1>14. Kept(o, Fails(erased, 500))
    BY <1>2, <1>3, <1>5, <1>8, <1>13, KeptBy
  <1>15. PICK stored : stored = [erased EXCEPT !.flash = full, !.offset = offset]  OBVIOUS
  <1>16. stored = Stored(erased, at, data)
    BY <1>6, <1>9, <1>11, <1>15 DEF OtaStates, Stored
  <1>17. /\ stored \in OtaStates /\ stored.running = o.running /\ stored.flash = full
         /\ stored.erase = erase
    BY <1>7, <1>11, <1>15 DEF OtaStates
  <1>18. Kept(o, stored)
    BY <1>2, <1>3, <1>5, <1>7, <1>8, <1>17, KeptBy
  <1> QED  BY <1>12, <1>14, <1>16, <1>18

LEMMA WriteKeeps ==
    ASSUME NEW o \in OtaStates, Aligned(o), NEW data \in Seq(Token), NEW fault
    PROVE  Kept(o, OtaWrite(o, data, fault))
  <1> DEFINE place == NewAddr(o) + o.offset
             span  == Erased(o, place + Len(data))
             wiped == [o EXCEPT !.flash = Blank(o.flash, span), !.erase = @ + Cardinality(span)]
  <1>1. /\ ~OtaFits(o, data) => OtaWrite(o, data, fault) = Fails(o, 413)
        /\ OtaFits(o, data) =>
             OtaWrite(o, data, fault) \in
               {Fails(o, 500), Fails(wiped, 500),
                Stored(wiped, place, data)}
    BY ZenonT(30) DEF OtaWrite, Stored
  <1>2. \A code \in Replies : Kept(o, Fails(o, code))
    <2>1. \A code \in Replies : /\ Fails(o, code) \in OtaStates /\ Fails(o, code).running = o.running
                                /\ Fails(o, code).flash = o.flash /\ Fails(o, code).erase = o.erase
      BY FailsTyped
    <2>2. \E k \in 0..Sectors : o.erase = NewAddr(o) + Sector * k  BY DEF Aligned
    <2> QED  BY <2>1, <2>2, KeptBy
  <1>3. 413 \in Replies /\ 500 \in Replies  BY DEF Replies
  <1>4. CASE ~OtaFits(o, data)  BY <1>1, <1>2, <1>3, <1>4
  <1>5. CASE OtaFits(o, data)
    <2>1. Len(data) \in Nat /\ o.offset + Len(data) <= Slot  BY <1>5 DEF OtaFits
    <2>2. NewAddr(o) \in Nat /\ o.offset \in Nat  BY SlotTyped, OtaTyped
    <2>3. PICK at \in Nat : at = place  BY <2>2
    <2>4. PICK cells : cells = span  OBVIOUS
    <2>5. /\ cells \subseteq SlotCells(1 - o.running) /\ Cardinality(cells) \in Nat
          /\ \E k \in 0..Sectors : o.erase + Cardinality(cells) = NewAddr(o) + Sector * k
      BY <2>1, <2>4, ErasedInSlot
    <2>6. at..(at + Len(data) - 1) \subseteq SlotCells(1 - o.running)
      <3>1. PICK slot : slot = SlotCells(1 - o.running)  OBVIOUS
      <3>2. slot = NewAddr(o)..(NewAddr(o) + Slot - 1) /\ Slot \in Nat  BY <3>1, SlotTyped
      <3> QED  BY SMTT(30), <2>1, <2>2, <2>3, <3>1, <3>2
    <2>7. PICK erased : erased = wiped  OBVIOUS
    <2>8. erased = [o EXCEPT !.flash = Blank(o.flash, cells), !.erase = @ + Cardinality(cells)]
      BY <2>4, <2>7
    <2>9. /\ Kept(o, Fails(erased, 500))
          /\ Kept(o, Stored(erased, at, data))
      <3> HIDE DEF place, span, wiped
      <3>1. o \in OtaStates /\ at \in Nat /\ data \in Seq(Token)  OBVIOUS
      <3>2. Spans(o, cells, at, data, erased)  BY <2>5, <2>6, <2>8 DEF Spans
      <3> QED  BY ONLY <3>1, <3>2, SpanKeeps
    <2>10. OtaWrite(o, data, fault) \in
             {Fails(o, 500), Fails(erased, 500),
              Stored(erased, at, data)}
      <3> HIDE DEF span, wiped
      <3> QED  BY <1>1, <1>5, <2>3, <2>7
    <2> HIDE DEF place, span, wiped
    <2> QED  BY <1>2, <1>3, <2>9, <2>10
  <1> QED  BY <1>4, <1>5

LEMMA EndKeeps ==
    ASSUME NEW o \in OtaStates, Aligned(o), NEW failed
    PROVE  Kept(o, OtaEnd(o, failed)) /\ Kept(o, OtaAborted(o))
  <1>1. "error" \in Statuses /\ "success" \in Statuses /\ FALSE \in Yes /\ 200 \in Replies /\ 500 \in Replies
    BY DEF Statuses, Yes, Replies
  <1>2. \E k \in 0..Sectors : o.erase = NewAddr(o) + Sector * k  BY DEF Aligned
  <1>3. \A newer \in Flags, status \in Statuses, code \in Replies :
           Kept(o, [o EXCEPT !.newer = newer, !.updating = FALSE, !.status = status, !.reply = code])
    <2>1. TAKE newer \in Flags, status \in Statuses, code \in Replies
    <2> DEFINE p == [o EXCEPT !.newer = newer, !.updating = FALSE, !.status = status, !.reply = code]
    <2>2. p \in OtaStates /\ p.running = o.running /\ p.flash = o.flash /\ p.erase = o.erase
      BY <1>1 DEF OtaStates
    <2> HIDE DEF p
    <2>3. Kept(o, p)  BY <1>2, <2>2, KeptBy
    <2> QED  BY <2>3 DEF p
  <1>4. Kept(o, OtaEnd(o, failed))
    <2>1. PICK newer \in Flags : OtaEnd(o, failed) =
             IF failed # {} THEN Fails([o EXCEPT !.newer = newer], 500)
             ELSE [[o EXCEPT !.newer = newer] EXCEPT !.updating = FALSE, !.status = "success", !.reply = 200]
      <3> DEFINE other == 1 - o.running
                 older == IF 1 \in failed THEN o.newer ELSE o.newer \ {o.running}
                 wiped == IF 2 \in failed THEN older ELSE older \ {other}
                 newer == IF 3 \in failed THEN wiped ELSE wiped \cup {other}
      <3>1. other \in {0, 1} /\ o.newer \in Flags  BY OtaTyped
      <3>2. newer \in Flags  BY <3>1 DEF Flags
      <3>3. OtaEnd(o, failed) =
              IF failed # {} THEN Fails([o EXCEPT !.newer = newer], 500)
              ELSE [[o EXCEPT !.newer = newer] EXCEPT !.updating = FALSE, !.status = "success", !.reply = 200]
        BY Zenon DEF OtaEnd
      <3> HIDE DEF newer
      <3> QED  BY <3>2, <3>3, Zenon
    <2>2. /\ Fails([o EXCEPT !.newer = newer], 500)
               = [o EXCEPT !.newer = newer, !.updating = FALSE, !.status = "error", !.reply = 500]
          /\ [[o EXCEPT !.newer = newer] EXCEPT !.updating = FALSE, !.status = "success", !.reply = 200]
               = [o EXCEPT !.newer = newer, !.updating = FALSE, !.status = "success", !.reply = 200]
      BY DEF Fails, OtaStates
    <2>3. Kept(o, [o EXCEPT !.newer = newer, !.updating = FALSE, !.status = "error", !.reply = 500])
      BY ZenonT(40), <1>1, <1>3
    <2>4. Kept(o, [o EXCEPT !.newer = newer, !.updating = FALSE, !.status = "success", !.reply = 200])
      BY <1>1, <1>3
    <2>5. CASE failed # {}
      <3>1. OtaEnd(o, failed) = Fails([o EXCEPT !.newer = newer], 500)  BY <2>1, <2>5, Zenon
      <3> QED  BY <2>2, <2>3, <3>1, Zenon
    <2>6. CASE failed = {}
      <3>1. OtaEnd(o, failed)
              = [[o EXCEPT !.newer = newer] EXCEPT !.updating = FALSE, !.status = "success", !.reply = 200]
        BY <2>1, <2>6, Zenon
      <3> QED  BY <2>2, <2>4, <3>1, Zenon
    <2> QED  BY <2>5, <2>6
  <1>5. Kept(o, OtaAborted(o))
    <2>1. /\ OtaAborted(o) \in OtaStates /\ OtaAborted(o).running = o.running
          /\ OtaAborted(o).flash = o.flash /\ OtaAborted(o).erase = o.erase
      BY ZenonT(40), <1>1 DEF OtaAborted, OtaStates
    <2> QED  BY <1>2, <2>1, KeptBy
  <1> QED  BY <1>4, <1>5

-----------------------------------------------------------------------------
(* The callbacks.                                                            *)

\* Those of a file that has begun.
Later == [st : {"write", "end", "aborted"}, data : Seq(Token)]

LEMMA CallTyped ==
    ASSUME NEW data \in Seq(Token)
    PROVE  \A st \in {"write", "end", "aborted"} : Called(st, data) \in Later
  BY DEF Called, Later

Silent(o) == [o EXCEPT !.reply = 0]

LEMMA Answerless ==
    ASSUME NEW o \in OtaStates
    PROVE  /\ Silent(o) \in OtaStates /\ (Aligned(o) => Aligned(Silent(o)))
           /\ \A p : Kept(Silent(o), p) => Kept(o, p)
  <1>1. PICK q : q = [o EXCEPT !.reply = 0]  OBVIOUS
  <1>2. 0 \in Replies  BY DEF Replies
  <1>3. q \in OtaStates /\ q.running = o.running /\ q.flash = o.flash /\ q.erase = o.erase
    BY <1>1, <1>2 DEF OtaStates
  <1>4. NewAddr(q) = NewAddr(o)  BY <1>3 DEF NewAddr
  <1>5. Aligned(o) => Aligned(q)  BY <1>3, <1>4 DEF Aligned
  <1>6. \A p : Kept(q, p) => Kept(o, p)  BY <1>3 DEF Kept
  <1> QED  BY <1>1, <1>3, <1>5, <1>6 DEF Silent

LEMMA LaterKeeps ==
    ASSUME NEW o \in OtaStates, Aligned(o), NEW c \in Later, NEW fault, NEW failed
    PROVE  Kept(o, OtaCall(o, c, fault, failed))
  <1>1. PICK q : q = Silent(o)  OBVIOUS
  <1>2. q \in OtaStates /\ Aligned(q) /\ \A p : Kept(q, p) => Kept(o, p)
    BY <1>1, Answerless
  <1>3. c.st \in {"write", "end", "aborted"} /\ c.data \in Seq(Token)  BY DEF Later
  <1>4. OtaCall(o, c, fault, failed) \in {OtaWrite(q, c.data, fault), OtaEnd(q, failed), OtaAborted(q)}
    BY <1>1, <1>3 DEF OtaCall, Silent
  <1>5. Kept(q, OtaWrite(q, c.data, fault))  BY <1>2, <1>3, WriteKeeps
  <1>6. Kept(q, OtaEnd(q, failed)) /\ Kept(q, OtaAborted(q))  BY <1>2, EndKeeps
  <1> QED  BY <1>2, <1>4, <1>5, <1>6

LEMMA StartKeeps ==
    ASSUME NEW o \in OtaStates, NamedBin, NEW fault, NEW failed
    PROVE  Kept(o, OtaCall(o, Called("start", <<>>), fault, failed))
  <1>1. NamedBin = TRUE  BY ServerAssumption DEF ServerAssumption
  <1>2. OtaCall(o, Called("start", <<>>), fault, failed) = OtaStart([o EXCEPT !.reply = 0], TRUE)
    BY <1>1, Zenon DEF OtaCall, Called
  <1> QED  BY <1>2, StartAligns

\* What the calls one after the other make of the update.
LEMMA CallsRun ==
    ASSUME NEW cs, NEW n \in Nat, n = Len(cs), NEW fault, NEW failed
    PROVE  \E g : /\ OtaCalls(cs, fault, failed) = g[n]
                  /\ g[0] = ota
                  /\ \A i \in 1..n : g[i] = OtaCall(g[i - 1], cs[i], fault, failed)
  <1> DEFINE Runs(g, m) == /\ g = [i \in 0..m |-> IF i = 0 THEN ota
                                                 ELSE OtaCall(g[i - 1], cs[i], fault, failed)]
             S == {m \in Nat : \E g : Runs(g, m)}
  <1>1. 0 \in S
    <2>1. PICK g : g = [i \in 0..0 |-> ota]  OBVIOUS
    <2>2. g = [i \in 0..0 |-> IF i = 0 THEN ota ELSE OtaCall(g[i - 1], cs[i], fault, failed)]
      BY <2>1
    <2> QED  BY <2>2
  <1>2. ASSUME NEW m \in S PROVE m + 1 \in S
    <2>1. m \in Nat /\ m + 1 \in Nat  OBVIOUS
    <2>2. PICK g : Runs(g, m)  OBVIOUS
    <2>3. PICK next : next = OtaCall(g[m], cs[m + 1], fault, failed)  OBVIOUS
    <2>4. PICK h : h = [i \in 0..(m + 1) |-> IF i = m + 1 THEN next ELSE g[i]]  OBVIOUS
    <2>5. \A i \in 0..m : h[i] = g[i]  BY <2>1, <2>4
    <2>6. h[m + 1] = next  BY <2>1, <2>4
    <2>7. \A i \in 0..m : i # 0 => i - 1 \in 0..m  BY <2>1
    <2>8. \A i \in 0..m : h[i] = IF i = 0 THEN ota ELSE OtaCall(h[i - 1], cs[i], fault, failed)
      BY <2>1, <2>2, <2>5, <2>7
    <2>9. \A i \in 0..(m + 1) :
             h[i] = IF i = 0 THEN ota ELSE OtaCall(h[i - 1], cs[i], fault, failed)
      <3>1. TAKE i \in 0..(m + 1)
      <3>2. CASE i \in 0..m  BY <2>8, <3>2
      <3>3. CASE i = m + 1
        <4>1. i # 0 /\ i - 1 = m /\ m \in 0..m  BY <2>1, <3>3
        <4>2. h[m] = g[m]  BY <2>5, <4>1
        <4> QED  BY <2>3, <2>6, <3>3, <4>1, <4>2
      <3> QED  BY <2>1, <3>2, <3>3
    <2>10. h = [i \in 0..(m + 1) |-> h[i]]  BY <2>4
    <2>11. Runs(h, m + 1)  BY <2>9, <2>10
    <2> QED  BY <2>1, <2>11
  <1>3. S = Nat  BY <1>1, <1>2, SetInduction
  <1> DEFINE run == CHOOSE g : Runs(g, n)
  <1>4. Runs(run, n)  BY <1>3
  <1>5. OtaCalls(cs, fault, failed) = run[n]  BY DEF OtaCalls
  <1> HIDE DEF run
  <1>6. run[0] = ota /\ \A i \in 1..n : run[i] = OtaCall(run[i - 1], cs[i], fault, failed)
    BY <1>4
  <1> QED  BY <1>5, <1>6

LEMMA FirstCall ==
    ASSUME NEW cs, Len(cs) = 1, NEW fault, NEW failed
    PROVE  OtaCalls(cs, fault, failed) = OtaCall(ota, cs[1], fault, failed)
  <1>1. PICK n : n = Len(cs)  OBVIOUS
  <1>2. n \in Nat /\ n = Len(cs)  BY <1>1
  <1>3. PICK g : /\ OtaCalls(cs, fault, failed) = g[n] /\ g[0] = ota
                 /\ \A i \in 1..n : g[i] = OtaCall(g[i - 1], cs[i], fault, failed)
    BY ONLY <1>2, CallsRun
  <1>4. 1 \in 1..n /\ 1 - 1 = 0 /\ n = 1  BY <1>1
  <1>5. g[1] = OtaCall(ota, cs[1], fault, failed)  BY <1>3, <1>4
  <1> QED  BY <1>3, <1>4, <1>5

LEMMA KeptOn ==
    ASSUME NEW o \in OtaStates, NEW p, NEW q, Kept(o, p), Kept(p, q)
    PROVE  Kept(o, q)
  BY DEF Kept

LEMMA CallsKeep ==
    ASSUME ota \in OtaStates, Aligned(ota), NEW cs \in Seq(Later), NEW fault, NEW failed
    PROVE  Kept(ota, OtaCalls(cs, fault, failed))
  <1>1. PICK n \in Nat : n = Len(cs)  OBVIOUS
  <1>2. \A i \in 1..n : cs[i] \in Later  BY <1>1
  <1>3. PICK g : /\ OtaCalls(cs, fault, failed) = g[n]
                 /\ g[0] = ota
                 /\ \A i \in 1..n : g[i] = OtaCall(g[i - 1], cs[i], fault, failed)
    BY <1>1, CallsRun
  <1> DEFINE S == {m \in Nat : m <= n => Kept(ota, g[m])}
  <1>4. 0 \in S
    <2>1. Kept(ota, ota)  BY DEF Kept
    <2> QED  BY <1>3, <2>1
  <1>5. ASSUME NEW m \in S PROVE m + 1 \in S
    <2>1. m \in Nat /\ m + 1 \in Nat  OBVIOUS
    <2>2. SUFFICES ASSUME m + 1 <= n PROVE Kept(ota, g[m + 1])  BY <2>1
    <2>3. Kept(ota, g[m])  BY <2>1, <2>2
    <2>4. g[m] \in OtaStates /\ Aligned(g[m])  BY <2>3 DEF Kept
    <2>5. m + 1 \in 1..n /\ (m + 1) - 1 = m  BY <2>1, <2>2
    <2>6. g[m + 1] = OtaCall(g[m], cs[m + 1], fault, failed)  BY <1>3, <2>5
    <2>7. cs[m + 1] \in Later  BY <1>2, <2>5
    <2>8. Kept(g[m], g[m + 1])  BY <2>4, <2>6, <2>7, LaterKeeps
    <2> QED  BY <2>3, <2>8, KeptOn
  <1>6. S = Nat  BY <1>4, <1>5, SetInduction
  <1>7. Kept(ota, g[n])  BY <1>6
  <1> QED  BY <1>3, <1>7

LEMMA CallBackKeeps ==
    ASSUME NamedBin, ota \in OtaStates, NEW cs, CallBack(cs),
           \/ cs = <<Called("start", <<>>)>>
           \/ asked.kind # "update"
           \/ cs \in Seq(Later) /\ Aligned(ota)
    PROVE  IF asked.kind = "update" THEN Kept(ota, ota') ELSE ota' = ota
  <1>1. CASE asked.kind # "update"  BY <1>1 DEF CallBack
  <1>2. CASE asked.kind = "update"
    <2>1. PICK fault \in FlashFaults, failed \in FlagFaults : ota' = OtaCalls(cs, fault, failed)
      BY <1>2 DEF CallBack
    <2>2. CASE cs = <<Called("start", <<>>)>>
      <3>1. Len(cs) = 1 /\ cs[1] = Called("start", <<>>)  BY <2>2
      <3>4. ota' = OtaCall(ota, Called("start", <<>>), fault, failed)
        BY <2>1, <3>1, FirstCall
      <3> QED  BY <1>2, <3>4, StartKeeps
    <2>3. CASE cs \in Seq(Later) /\ Aligned(ota)
      BY <1>2, <2>1, <2>3, CallsKeep
    <2> QED  BY <1>2, <2>2, <2>3
  <1> QED  BY <1>1, <1>2

-----------------------------------------------------------------------------
(* The tokens of a request.                                                  *)

LEMMA Flattened ==
    ASSUME NEW ss \in Seq(Seq(Token)), Len(ss) # 0
    PROVE  FlattenSeq(ss) \in Seq(Token)
  <1>1. PICK n \in Nat : n = Len(ss) /\ n # 0  OBVIOUS
  <1>2. \A i \in 1..n : ss[i] \in Seq(Token)  BY <1>1
  <1> DEFINE Flat(g, m) == g = [i \in 1..m |-> IF i = 1 THEN ss[i] ELSE g[i - 1] \o ss[i]]
             S == {m \in Nat : \E g : Flat(g, m)}
  <1>3. 0 \in S
    <2>1. PICK g : g = [i \in 1..0 |-> ss]  OBVIOUS
    <2>2. Flat(g, 0)  BY <2>1
    <2> QED  BY <2>2
  <1>4. ASSUME NEW m \in S PROVE m + 1 \in S
    <2>1. m \in Nat /\ m + 1 \in Nat  OBVIOUS
    <2>2. PICK g : Flat(g, m)  OBVIOUS
    <2>3. PICK next : next = IF m = 0 THEN ss[m + 1] ELSE g[m] \o ss[m + 1]  OBVIOUS
    <2>4. PICK h : h = [i \in 1..(m + 1) |-> IF i = m + 1 THEN next ELSE g[i]]  OBVIOUS
    <2>5. (\A i \in 1..m : h[i] = g[i]) /\ h[m + 1] = next  BY <2>1, <2>4
    <2>6. \A i \in 1..(m + 1) : h[i] = IF i = 1 THEN ss[i] ELSE h[i - 1] \o ss[i]
      <3>1. TAKE i \in 1..(m + 1)
      <3>2. CASE i \in 1..m
        <4>1. g[i] = IF i = 1 THEN ss[i] ELSE g[i - 1] \o ss[i]  BY <2>2, <3>2
        <4>2. i # 1 => i - 1 \in 1..m  BY <2>1, <3>2
        <4> QED  BY <2>5, <3>2, <4>1, <4>2
      <3>3. CASE i = m + 1
        <4>1. CASE m = 0  BY <2>3, <2>5, <3>3, <4>1
        <4>2. CASE m # 0
          <5>1. m \in 1..m /\ i # 1 /\ i - 1 = m  BY <2>1, <3>3, <4>2
          <5>2. h[m] = g[m]  BY <2>5, <5>1
          <5> QED  BY <2>3, <2>5, <3>3, <4>2, <5>1, <5>2
        <4> QED  BY <4>1, <4>2
      <3> QED  BY <2>1, <3>2, <3>3
    <2>7. h = [i \in 1..(m + 1) |-> h[i]]  BY <2>4
    <2>8. Flat(h, m + 1)  BY <2>6, <2>7
    <2> QED  BY <2>1, <2>8
  <1>5. S = Nat  BY <1>3, <1>4, SetInduction
  <1> DEFINE flatten == CHOOSE g : Flat(g, n)
  <1>6. Flat(flatten, n)  BY <1>5
  <1>7. FlattenSeq(ss) = flatten[n]  BY <1>1 DEF FlattenSeq
  <1> HIDE DEF flatten
  <1> DEFINE T == {m \in Nat : m + 1 <= n => flatten[m + 1] \in Seq(Token)}
  <1>8. 0 \in T
    <2>1. 1 \in 1..n  BY <1>1
    <2>2. flatten[1] = ss[1]  BY <1>6, <2>1
    <2> QED  BY <1>2, <2>1, <2>2
  <1>9. ASSUME NEW m \in T PROVE m + 1 \in T
    <2>1. m \in Nat /\ m + 1 \in Nat  OBVIOUS
    <2>2. SUFFICES ASSUME (m + 1) + 1 <= n PROVE flatten[(m + 1) + 1] \in Seq(Token)
      BY <2>1
    <2>3. PICK k \in Nat : k = m + 1  BY <2>1
    <2>4. k + 1 \in 1..n /\ k + 1 # 1 /\ (k + 1) - 1 = k /\ k <= n  BY <2>1, <2>2, <2>3
    <2>5. flatten[k + 1] = flatten[k] \o ss[k + 1]  BY <1>6, <2>4
    <2>6. flatten[k] \in Seq(Token)  BY <2>1, <2>3, <2>4
    <2>7. ss[k + 1] \in Seq(Token)  BY <1>2, <2>4
    <2>8. flatten[k] \o ss[k + 1] \in Seq(Token)  BY <2>6, <2>7
    <2> QED  BY <2>3, <2>5, <2>8
  <1>10. T = Nat  BY <1>8, <1>9, SetInduction
  <1>11. n - 1 \in Nat /\ (n - 1) + 1 = n
    <2> n \in Nat /\ n # 0  BY <1>1
    <2> QED  OBVIOUS
  <1>12. PICK k : k = n - 1  OBVIOUS
  <1>13. k \in Nat /\ k + 1 = n  BY <1>11, <1>12
  <1>14. k \in T
    <2> HIDE DEF T
    <2> QED  BY <1>10, <1>13
  <1>15. k + 1 <= n  BY <1>13
  <1> QED  BY <1>7, <1>13, <1>14, <1>15

LEMMA Short ==
    ASSUME NEW S
    PROVE  /\ <<>> \in Seq(S)
           /\ \A a \in S : <<a>> \in Seq(S)
           /\ \A a, b \in S : <<a, b>> \in Seq(S)
           /\ \A a, b, c \in S : <<a, b, c>> \in Seq(S)
           /\ \A a, b, c, d \in S : <<a, b, c, d>> \in Seq(S)
  OBVIOUS

LEMMA Joined ==
    ASSUME NEW s \in Seq(Token), NEW t \in Seq(Token)
    PROVE  s \o t \in Seq(Token)
  OBVIOUS

LEMMA TokenNames ==
    /\ "x" \in Token /\ "y" \in Token /\ "cr" \in Token /\ "lf" \in Token /\ "mark" \in Token
    /\ "request" \in Token /\ "header" \in Token /\ "" \in Token /\ "length" \in Token
    /\ "form" \in Token /\ "bound" \in Token /\ "field" \in Token /\ "value" \in Token
    /\ "last" \in Token /\ "file" \in Token /\ "type" \in Token /\ "tail" \in Token
  BY DEF Token, Bytes

Parts == {"field", "file"}

LEMMA RequestTyped ==
    ASSUME NEW r \in Requests
    PROVE  r.file \in Seq(Token) /\ r.parts \in Seq(Parts) /\ (IsForm(r) => Len(r.parts) # 0)
  <1>1. \A n \in Nat : Image(n) \in Seq(Token)
    <2>1. TAKE n \in Nat
    <2>2. "x" \in Token /\ "y" \in Token  BY TokenNames
    <2>3. \A i \in 1..n : (IF i % 2 = 0 THEN "y" ELSE "x") \in Token  BY <2>2
    <2>4. Image(n) \in [1..n -> Token]  BY <2>3 DEF Image
    <2> QED  BY <2>1, <2>4
  <1>2. \A f \in Contents : f \in Seq(Token)
    <2>1. TAKE f \in Contents
    <2>2. PICK n \in 0..MaxFile : f \in [1..n -> {"x", "cr", "lf"}]  BY DEF Contents
    <2>3. n \in Nat  BY ServerAssumption DEF ServerAssumption
    <2>4. {"x", "cr", "lf"} \subseteq Token  BY DEF Token, Bytes
    <2>5. f \in [1..n -> Token]  BY <2>2, <2>4
    <2> QED  BY <2>3, <2>5
  <1>3. <<>> \in Seq(Token) /\ <<"x", "y">> \in Seq(Token) /\ <<"cr", "x">> \in Seq(Token)
    <2>1. "x" \in Token /\ "y" \in Token /\ "cr" \in Token  BY TokenNames
    <2> QED  BY <2>1, Short
  <1>4. /\ <<>> \in Seq(Parts) /\ <<"field">> \in Seq(Parts) /\ <<"file">> \in Seq(Parts)
        /\ <<"field", "field">> \in Seq(Parts) /\ <<"field", "file">> \in Seq(Parts)
        /\ <<"file", "field">> \in Seq(Parts)
    <2>1. "field" \in Parts /\ "file" \in Parts  BY DEF Parts
    <2> QED  BY <2>1, Short
  <1>5. 0..MaxFile \subseteq Nat /\ Images \subseteq Nat
    BY ServerAssumption DEF ServerAssumption
  <1>6. CASE r \in {Request("page", <<>>, <<>>), Request("missing", <<>>, <<>>),
                    Request("plain", <<>>, <<"x", "y">>)}
    <2>1. r.kind \in {"page", "missing", "plain"} /\ r.parts = <<>> /\ r.file \in {<<>>, <<"x", "y">>}
      BY <1>6 DEF Request
    <2> QED  BY <1>3, <1>4, <2>1 DEF IsForm
  <1>7. CASE \E n \in 0..MaxFile : r = Request("raw", <<>>, Image(n))
    BY <1>1, <1>4, <1>5, <1>7 DEF Request, IsForm
  <1>8. CASE \E p \in {<<"field">>, <<"field", "field">>} : r = Request("fields", p, <<>>)
    <2>1. PICK p \in {<<"field">>, <<"field", "field">>} : r = Request("fields", p, <<>>)  BY <1>8
    <2>2. p \in Seq(Parts)  BY <1>4, <2>1
    <2>3. Len(p) # 0  BY <2>1
    <2> QED  BY <1>3, <2>1, <2>2, <2>3 DEF Request
  <1>9. CASE \E f \in Contents : r = Request("upload", <<"file">>, f)
    BY <1>2, <1>4, <1>9 DEF Request
  <1>10. CASE \E p \in {<<"field", "file">>, <<"file", "field">>} : r = Request("form", p, <<"cr", "x">>)
    <2>1. PICK p \in {<<"field", "file">>, <<"file", "field">>} : r = Request("form", p, <<"cr", "x">>)
      BY <1>10
    <2>2. p \in Seq(Parts)  BY <1>4, <2>1
    <2>3. Len(p) # 0  BY <2>1
    <2> QED  BY <1>3, <2>1, <2>2, <2>3 DEF Request
  <1>11. CASE \E n \in Images : r = Request("update", <<"file">>, Image(n))
    BY <1>1, <1>4, <1>5, <1>11 DEF Request
  <1> QED  BY <1>6, <1>7, <1>8, <1>9, <1>10, <1>11 DEF Requests

LEMMA TokensTyped ==
    ASSUME NEW r \in Requests
    PROVE  Tokens(r) \in Seq(Token)
  <1>1. r.file \in Seq(Token) /\ r.parts \in Seq(Parts) /\ (IsForm(r) => Len(r.parts) # 0)
    BY RequestTyped
  <1>2. \A i \in DOMAIN r.parts : PartTokens(r, i) \in Seq(Token)
    <2>1. TAKE i \in DOMAIN r.parts
    <2>2. /\ <<"field", "", "value", "last">> \in Seq(Token) /\ <<"field", "", "value", "bound">> \in Seq(Token)
          /\ <<"file", "type", "">> \in Seq(Token) /\ <<"tail">> \in Seq(Token) /\ <<"">> \in Seq(Token)
          /\ Delim \in Seq(Token)
      BY TokenNames, Short DEF Delim
    <2>3. PICK head \in Seq(Token) : head = <<"file", "type", "">> \o r.file \o Delim
      BY <1>1, <2>2, Joined
    <2>4. head \o <<"tail">> \in Seq(Token) /\ head \o <<"">> \in Seq(Token)
      BY <2>2, Joined
    <2>5. PartTokens(r, i) \in
            {<<"field", "", "value", "last">>, <<"field", "", "value", "bound">>,
             <<"file", "type", "">> \o r.file \o Delim \o <<"tail">>,
             <<"file", "type", "">> \o r.file \o Delim \o <<"">>}
      BY DEF PartTokens
    <2> QED  BY <2>2, <2>3, <2>4, <2>5
  <1>3. /\ <<"request">> \in Seq(Token) /\ <<"header", "">> \in Seq(Token)
        /\ <<"length", "">> \in Seq(Token) /\ <<"form", "", "bound">> \in Seq(Token)
    BY TokenNames, Short
  <1>4. IsForm(r) => FlattenSeq([i \in DOMAIN r.parts |-> PartTokens(r, i)]) \in Seq(Token)
    <2>1. SUFFICES ASSUME IsForm(r)
                   PROVE  FlattenSeq([i \in DOMAIN r.parts |-> PartTokens(r, i)]) \in Seq(Token)
      OBVIOUS
    <2>2. PICK n \in Nat : n = Len(r.parts) /\ n # 0  BY <1>1, <2>1
    <2>3. PICK ss : ss = [i \in DOMAIN r.parts |-> PartTokens(r, i)]  OBVIOUS
    <2>4. DOMAIN r.parts = 1..n  BY <1>1, <2>2
    <2>5. ss \in [1..n -> Seq(Token)]  BY <1>2, <2>3, <2>4
    <2>6. ss \in Seq(Seq(Token)) /\ Len(ss) = n  BY <2>5
    <2>7. FlattenSeq(ss) \in Seq(Token)  BY <2>2, <2>6, Flattened
    <2> QED  BY <2>3, <2>7
  <1> DEFINE rest == IF ~IsPost(r) THEN <<"header", "">>
                     ELSE IF ~IsForm(r) THEN <<"length", "">> \o r.file
                     ELSE <<"form", "", "bound">>
                            \o FlattenSeq([i \in DOMAIN r.parts |-> PartTokens(r, i)])
  <1>5. rest \in Seq(Token)
    <2>1. <<"length", "">> \o r.file \in Seq(Token)  BY <1>1, <1>3, Joined
    <2>2. IsForm(r) => <<"form", "", "bound">>
                  \o FlattenSeq([i \in DOMAIN r.parts |-> PartTokens(r, i)]) \in Seq(Token)
      BY <1>3, <1>4, Joined
    <2> QED  BY <1>3, <2>1, <2>2
  <1>6. Tokens(r) = <<"request">> \o rest  BY Zenon DEF Tokens
  <1> HIDE DEF rest
  <1> QED  BY <1>3, <1>5, <1>6, Joined

-----------------------------------------------------------------------------
(* What the steps have in common.                                            *)

InFile == {"file", "fileEnd", "rawBytes"}

\* The property, of one step.
OtherSlotStep == \A a \in Cells \ SlotCells(1 - ota.running) : ota'.flash[a] = ota.flash[a]

LEMMA Sub ==
    ASSUME NEW s \in Seq(Token), NEW m \in Nat, m >= 1, NEW n \in Nat, n <= Len(s)
    PROVE  SubSeq(s, m, n) \in Seq(Token)
  <1>1. \A i \in m..n : s[i] \in Token  OBVIOUS
  <1> QED  BY <1>1, SubSeqProperties

LEMMA WaitingTyped ==
    ASSUME TokensInv
    PROVE  Waiting \in Seq(Token) /\ (Waiting # <<>> => Len(Waiting) >= 1 /\ Head(Waiting) \in Token)
  <1>1. Waiting \in Seq(Token)  BY Joined DEF Waiting, TokensInv
  <1> HIDE DEF Waiting
  <1> QED  BY <1>1

LEMMA TakeTyped ==
    ASSUME TokensInv, NEW n \in Nat, n <= Len(Waiting), Take(n)
    PROVE  rx' \in Seq(Token) /\ sock' \in Seq(Token)
  <1>1. rx \in Seq(Token) /\ sock \in Seq(Token)  BY DEF TokensInv
  <1>2. Waiting \in Seq(Token)  BY WaitingTyped
  <1>3. CASE n <= Len(rx)
    <2>1. rx' = SubSeq(rx, n + 1, Len(rx)) /\ sock' = sock  BY <1>3 DEF Take
    <2>2. n + 1 \in Nat /\ n + 1 >= 1 /\ Len(rx) \in Nat  BY <1>1
    <2>3. SubSeq(rx, n + 1, Len(rx)) \in Seq(Token)  BY <1>1, <2>2, Sub
    <2> QED  BY <1>1, <2>1, <2>3
  <1>4. CASE ~(n <= Len(rx))
    <2>1. rx' = SubSeq(Waiting, n + 1, Len(Waiting)) /\ sock' = <<>>  BY <1>4 DEF Take
    <2> HIDE DEF Waiting
    <2>2. n + 1 \in Nat /\ n + 1 >= 1 /\ Len(Waiting) \in Nat  BY <1>2
    <2>3. SubSeq(Waiting, n + 1, Len(Waiting)) \in Seq(Token)  BY <1>2, <2>2, Sub
    <2> QED  BY <2>1, <2>3, Short
  <1> QED  BY <1>3, <1>4

LEMMA ReadTyped ==
    ASSUME TokensInv, Read
    PROVE  rx' \in Seq(Token) /\ sock' \in Seq(Token) /\ left' = left /\ asked' = asked
  <1>1. left' = left /\ asked' = asked  BY DEF Read
  <1>2. CASE conn /\ Waiting # <<>>
    <2>1. Take(1)  BY <1>2 DEF Read
    <2>2. 1 <= Len(Waiting)  BY <1>2, WaitingTyped
    <2> QED  BY <1>1, <2>1, <2>2, TakeTyped
  <1>3. CASE ~(conn /\ Waiting # <<>>)
    <2>1. rx' = rx /\ sock' = sock  BY <1>3 DEF Read
    <2> QED  BY <1>1, <2>1 DEF TokensInv
  <1> QED  BY <1>2, <1>3

\* A step that leaves the update alone and is not about to take in a file.
LEMMA NoUpload ==
    ASSUME SlotInv, rx' \in Seq(Token), sock' \in Seq(Token), left' \in Seq(Token),
           buf' \in Seq(Token), matched' \in 0..3, ota' = ota, pc' \notin InFile
    PROVE  SlotInv' /\ OtherSlotStep
  <1>1. ota' \in OtaStates  BY DEF SlotInv
  <1>2. ~Uploading' /\ pc' # "file"  BY DEF Uploading, InFile
  <1>3. OtherSlotStep  BY DEF OtherSlotStep
  <1> QED  BY <1>1, <1>2, <1>3 DEF SlotInv, TokensInv

\* A step that calls back.
LEMMA Calling ==
    ASSUME NamedBin, SlotInv, NEW cs, CallBack(cs), asked' = asked,
           \/ cs = <<Called("start", <<>>)>>
           \/ asked.kind # "update"
           \/ cs \in Seq(Later) /\ pc \in InFile
    PROVE  ota' \in OtaStates /\ (Uploading' => Aligned(ota')) /\ OtherSlotStep
  <1>1. ota \in OtaStates  BY DEF SlotInv
  <1>2. cs \in Seq(Later) /\ pc \in InFile /\ asked.kind = "update" => Aligned(ota)
    BY DEF SlotInv, Uploading, InFile
  <1>3. IF asked.kind = "update" THEN Kept(ota, ota') ELSE ota' = ota
    BY <1>1, <1>2, CallBackKeeps
  <1>4. CASE asked.kind = "update"
    <2>1. Kept(ota, ota')  BY <1>3, <1>4
    <2> QED  BY <2>1 DEF Kept, OtherSlotStep
  <1>5. CASE asked.kind # "update"
    <2>1. ota' = ota /\ ~Uploading'  BY <1>3, <1>5 DEF Uploading
    <2> QED  BY <1>1, <2>1 DEF OtherSlotStep
  <1> QED  BY <1>4, <1>5

LEMMA CalledBack ==
    ASSUME NamedBin, SlotInv, NEW cs, CallBack(cs), asked' = asked,
           \/ cs = <<Called("start", <<>>)>>
           \/ asked.kind # "update"
           \/ cs \in Seq(Later) /\ pc \in InFile,
           rx' \in Seq(Token), sock' \in Seq(Token), left' = left, buf' \in Seq(Token),
           matched' \in 0..3, pc' = "file" => matched' \in 0..2
    PROVE  SlotInv' /\ OtherSlotStep
  <1>1. ota' \in OtaStates /\ (Uploading' => Aligned(ota')) /\ OtherSlotStep  BY Calling
  <1>2. TokensInv'  BY DEF TokensInv, SlotInv
  <1> QED  BY <1>1, <1>2 DEF SlotInv

LEMMA DelimTyped ==
    /\ Delim \in Seq(Token) /\ Len(Delim) = 3
    /\ \A m \in 0..3 : SubSeq(Delim, 1, m) \in Seq(Token)
  <1>1. Delim \in Seq(Token) /\ Len(Delim) = 3  BY TokenNames, Short DEF Delim
  <1>2. ASSUME NEW m \in 0..3 PROVE SubSeq(Delim, 1, m) \in Seq(Token)
    <2>1. \A i \in 1..m : Delim[i] \in Token
      <3>1. \A i \in 1..3 : Delim[i] \in Token
        <4>1. Delim[1] \in Token /\ Delim[2] \in Token /\ Delim[3] \in Token
          BY TokenNames DEF Delim
        <4>2. \A i \in 1..3 : i = 1 \/ i = 2 \/ i = 3  OBVIOUS
        <4> QED  BY <4>1, <4>2
      <3>2. \A i \in 1..m : i \in 1..3  OBVIOUS
      <3> QED  BY <3>1, <3>2
    <2>2. m \in Int /\ 1 \in Int  OBVIOUS
    <2> QED  BY <2>1, <2>2, SubSeqProperties
  <1> QED  BY <1>1, <1>2

LEMMA EmittedTyped ==
    ASSUME matched \in 0..3, NEW b \in Token
    PROVE  Emitted(b) \in Seq(Token)
  <1>1. SubSeq(Delim, 1, matched) \in Seq(Token)  BY DelimTyped
  <1>2. <<>> \in Seq(Token) /\ <<b>> \in Seq(Token)  BY Short
  <1>3. Emitted(b) \in {SubSeq(Delim, 1, matched) \o <<>>, SubSeq(Delim, 1, matched) \o <<b>>}
    BY DEF Emitted
  <1> QED  BY <1>1, <1>2, <1>3, Joined

LEMMA PiecesTyped ==
    ASSUME buf \in Seq(Token), NEW more \in Seq(Token)
    PROVE  /\ Pieces(more).rest \in Seq(Token)
           /\ \E n \in Nat : /\ DOMAIN Pieces(more).full = 1..n
                             /\ \A i \in 1..n : Pieces(more).full[i] \in Seq(Token)
  <1>1. PICK all \in Seq(Token) : all = buf \o more  BY Joined
  <1>2. PICK len \in Nat : len = Len(all)  OBVIOUS
  <1>3. BufLen \in Nat \ {0}  BY ServerAssumption DEF ServerAssumption
  <1>4. PICK n \in Nat : /\ n = IF more = <<>> THEN 0 ELSE (len - 1) \div BufLen
                         /\ BufLen * n <= len
    <2>1. CASE more = <<>>  BY <1>2, <1>3, <2>1
    <2>2. CASE more # <<>>
      <3>1. Len(more) \in Nat /\ Len(more) # 0  BY <2>2
      <3>2. len = Len(buf) + Len(more) /\ Len(buf) \in Nat  BY <1>1, <1>2
      <3>3. len - 1 \in Nat  BY <3>1, <3>2
      <3>4. (len - 1) \div BufLen \in Nat /\ BufLen * ((len - 1) \div BufLen) <= len - 1
        BY <1>3, <3>3, Division
      <3>5. PICK n \in Nat : n = (len - 1) \div BufLen  BY <3>4
      <3>6. BufLen * n <= len - 1  BY <3>4, <3>5
      <3>7. BufLen * n <= len  BY <1>3, <3>6
      <3> QED  BY <2>2, <3>5, <3>7
    <2> QED  BY <2>1, <2>2
  <1>5. Pieces(more) = [full |-> [i \in 1..n |-> SubSeq(all, (i - 1) * BufLen + 1, i * BufLen)],
                        rest |-> SubSeq(all, n * BufLen + 1, Len(all))]
    BY <1>1, <1>2, <1>4 DEF Pieces
  <1>6. Pieces(more).rest \in Seq(Token)
    <2>1. n * BufLen + 1 \in Nat /\ n * BufLen + 1 >= 1 /\ Len(all) \in Nat  BY <1>3
    <2>2. SubSeq(all, n * BufLen + 1, Len(all)) \in Seq(Token)  BY <2>1, Sub
    <2> QED  BY <1>5, <2>2
  <1>7. \A i \in 1..n : SubSeq(all, (i - 1) * BufLen + 1, i * BufLen) \in Seq(Token)
    <2>1. TAKE i \in 1..n
    <2>2. (i - 1) * BufLen + 1 \in Nat /\ (i - 1) * BufLen + 1 >= 1 /\ i * BufLen \in Nat  BY <1>3
    <2>3. i * BufLen <= n * BufLen  BY <1>3
    <2>4. n * BufLen = BufLen * n /\ n * BufLen \in Nat  BY <1>3
    <2>5. i * BufLen <= Len(all)  BY <1>2, <1>4, <2>2, <2>3, <2>4
    <2> QED  BY <2>2, <2>5, Sub
  <1>8. PICK full : full = Pieces(more).full  OBVIOUS
  <1>9. full = [i \in 1..n |-> SubSeq(all, (i - 1) * BufLen + 1, i * BufLen)]  BY <1>5, <1>8
  <1>10. DOMAIN full = 1..n /\ \A i \in 1..n : full[i] \in Seq(Token)  BY <1>7, <1>9
  <1> QED  BY <1>6, <1>8, <1>10

-----------------------------------------------------------------------------
(* The steps.                                                                *)

\* The peers, and the lines of the request.
LEMMA PeerSteps ==
    ASSUME SlotInv, (\E p \in Peers : Connect(p)) \/ Arrive \/ Close
    PROVE  SlotInv' /\ OtherSlotStep
  <1>1. /\ ota' = ota /\ asked' = asked /\ pc' = pc /\ buf' = buf /\ matched' = matched /\ rx' = rx
    BY DEF Connect, Arrive, Close, socket, parsed, lists, body, reply
  <1>2. sock' \in Seq(Token) /\ left' \in Seq(Token)
    <2>1. CASE Arrive
      <3>1. PICK n \in Segments : /\ sock' = sock \o SubSeq(left, 1, n)
                                  /\ left' = SubSeq(left, n + 1, Len(left))
        BY <2>1 DEF Arrive
      <3>2. left \in Seq(Token) /\ sock \in Seq(Token)  BY DEF SlotInv, TokensInv
      <3>3. n \in 1..Len(left) /\ Len(left) \in Nat  BY <3>2 DEF Segments
      <3>4. SubSeq(left, 1, n) \in Seq(Token) /\ SubSeq(left, n + 1, Len(left)) \in Seq(Token)
        BY <3>2, <3>3, Sub
      <3> QED  BY <3>1, <3>2, <3>4, Joined
    <2>2. CASE Close \/ \E p \in Peers : Connect(p)
      <3>1. sock' = sock /\ left' = left  BY <2>2 DEF Connect, Close
      <3> QED  BY <3>1 DEF SlotInv, TokensInv
    <2> QED  BY <2>1, <2>2
  <1>3. OtherSlotStep  BY <1>1 DEF OtherSlotStep
  <1>4. (Uploading <=> Uploading') /\ (Aligned(ota) => Aligned(ota'))  BY <1>1 DEF Uploading
  <1> QED  BY <1>1, <1>2, <1>3, <1>4 DEF SlotInv, TokensInv

LEMMA LineSteps ==
    ASSUME SlotInv,
           \/ ParseRequest \/ ParseHeader \/ FormStart \/ Part \/ FieldHeader \/ Value \/ Tail_
    PROVE  SlotInv' /\ OtherSlotStep
  <1>1. Read  BY DEF ParseRequest, ParseHeader, FormStart, Part, FieldHeader, Value, Tail_
  <1>2. ota' = ota /\ buf' = buf /\ matched' = matched
    BY DEF ParseRequest, ParseHeader, FormStart, Part, FieldHeader, Value, Tail_, body, reply
  <1>3. pc' \notin InFile
    <2>1. CASE ParseRequest  BY <2>1 DEF ParseRequest, Goto, InFile
    <2>2. CASE ParseHeader  BY <2>2 DEF ParseHeader, Goto, InFile
    <2>3. CASE FormStart  BY <2>3 DEF FormStart, Goto, InFile
    <2>4. CASE Part  BY <2>4 DEF Part, Goto, InFile
    <2>5. CASE FieldHeader  BY <2>5 DEF FieldHeader, Goto, InFile
    <2>6. CASE Value  BY <2>6 DEF Value, Goto, InFile
    <2>7. CASE Tail_  BY <2>7 DEF Tail_, Goto, InFile
    <2> QED  BY <2>1, <2>2, <2>3, <2>4, <2>5, <2>6, <2>7
  <1>4. TokensInv  BY DEF SlotInv
  <1>5. rx' \in Seq(Token) /\ sock' \in Seq(Token) /\ left' = left  BY <1>1, <1>4, ReadTyped
  <1>6. left \in Seq(Token) /\ buf \in Seq(Token) /\ matched \in 0..3  BY <1>4 DEF TokensInv
  <1> QED  BY <1>2, <1>3, <1>5, <1>6, NoUpload

\* Steps that touch neither the tokens nor the update.
LEMMA ControlSteps ==
    ASSUME SlotInv,
           \/ RequestArrived \/ GiveUp \/ PlainShort \/ PlainDone \/ FormEnd \/ Allow \/ Return
    PROVE  SlotInv' /\ OtherSlotStep
  <1>1. /\ ota' = ota /\ buf' = buf /\ matched' = matched /\ rx' = rx /\ sock' = sock /\ left' = left
    BY DEF RequestArrived, GiveUp, PlainShort, PlainDone, FormEnd, Allow, Return, peers, socket, body
  <1>2. pc' \notin InFile
    BY DEF RequestArrived, GiveUp, PlainShort, PlainDone, FormEnd, Allow, Return, Goto, InFile
  <1>3. /\ left \in Seq(Token) /\ sock \in Seq(Token) /\ rx \in Seq(Token)
        /\ buf \in Seq(Token) /\ matched \in 0..3
    BY DEF SlotInv, TokensInv
  <1> QED  BY <1>1, <1>2, <1>3, NoUpload

\* The answer.
LEMMA AnswerSteps ==
    ASSUME SlotInv,
           \/ Refuse \/ SendOpen \/ ChunkResponseBegin \/ ChunkResponseEnd \/ Finalize
           \/ \E n \in Sizes : Send(n) \/ SendFile(n) \/ SendContent(n) \/ ChunkWrite(n)
    PROVE  SlotInv' /\ OtherSlotStep
  <1>1. ota' = ota /\ buf' = buf /\ matched' = matched
    BY DEF Refuse, SendOpen, ChunkResponseBegin, ChunkResponseEnd, Finalize, Send, SendFile,
           SendContent, ChunkWrite, body
  <1>2. ASSUME NEW parts, Write(parts) PROVE rx' \in {rx, <<>>} /\ sock' = sock /\ left' = left
    BY <1>2 DEF Write, Broken
  <1>3. rx' \in {rx, <<>>} /\ sock' = sock /\ left' = left
    <2>1. \/ UNCHANGED <<peers, socket>>
          \/ \E parts : Write(parts)
      BY DEF Refuse, SendOpen, ChunkResponseBegin, ChunkResponseEnd, Finalize, Send, SendFile,
             SendContent, ChunkWrite
    <2>2. UNCHANGED <<peers, socket>> => rx' = rx /\ sock' = sock /\ left' = left
      BY DEF peers, socket
    <2> QED  BY <1>2, <2>1, <2>2
  <1>4. pc' \notin InFile
    BY DEF Refuse, SendOpen, ChunkResponseBegin, ChunkResponseEnd, Finalize, Send, SendFile,
           SendContent, ChunkWrite, Goto, InFile
  <1>5. /\ left \in Seq(Token) /\ sock \in Seq(Token) /\ rx \in Seq(Token)
        /\ buf \in Seq(Token) /\ matched \in 0..3 /\ <<>> \in Seq(Token)
    BY Short DEF SlotInv, TokensInv
  <1> QED  BY <1>1, <1>3, <1>4, <1>5, NoUpload


\* The connection comes and goes; a body that no handler asked for.
LEMMA SocketSteps ==
    ASSUME SlotInv,
           \/ Drop \/ PlainRead \/ ParseDone
           \/ \E p \in Peers : Accept(p)
    PROVE  SlotInv' /\ OtherSlotStep
  <1>1. ota' = ota
    BY DEF Drop, PlainRead, ParseDone, Accept, reply
  <1>2. pc' \notin InFile
    BY DEF Drop, PlainRead, ParseDone, Accept, Goto, InFile
  <1>3. TokensInv /\ <<>> \in Seq(Token)  BY Short DEF SlotInv
  <1>4. CASE Drop
    <2>1. rx' = <<>> /\ sock' = <<>> /\ left' = <<>> /\ buf' = <<>> /\ matched' = 0
      BY <1>4 DEF Drop
    <2> QED  BY <1>1, <1>2, <1>3, <2>1, NoUpload
  <1>5. CASE PlainRead
    <2>1. Take(Len(Waiting)) /\ left' = left /\ buf' = buf /\ matched' = matched
      BY <1>5 DEF PlainRead
    <2>2. PICK n : n = Len(Waiting)  OBVIOUS
    <2>3. n \in Nat /\ n <= Len(Waiting) /\ Take(n)
      <3>1. Waiting \in Seq(Token)  BY <1>3, WaitingTyped
      <3>2. Len(Waiting) \in Nat  BY <3>1
      <3> QED  BY <2>1, <2>2, <3>2
    <2>4. rx' \in Seq(Token) /\ sock' \in Seq(Token)  BY <1>3, <2>3, TakeTyped
    <2> QED  BY <1>1, <1>2, <1>3, <2>1, <2>4, NoUpload DEF TokensInv
  <1>6. CASE ParseDone
    <2>1. rx' = <<>> /\ sock' = <<>> /\ left' = left /\ buf' = buf /\ matched' = matched
      BY <1>6 DEF ParseDone, Clear, body
    <2> QED  BY <1>1, <1>2, <1>3, <2>1, NoUpload DEF TokensInv
  <1>7. CASE \E p \in Peers : Accept(p)
    <2>1. PICK r \in Requests : left' = Tokens(r)  BY <1>7 DEF Accept
    <2>2. rx' = <<>> /\ sock' = <<>> /\ buf' = buf /\ matched' = matched
      BY <1>7 DEF Accept, body
    <2>3. left' \in Seq(Token)  BY <2>1, TokensTyped
    <2> QED  BY <1>1, <1>2, <1>3, <2>2, <2>3, NoUpload DEF TokensInv
  <1> QED  BY <1>4, <1>5, <1>6, <1>7

\* The board that restarts runs another slot, and no upload is going on.
LEMMA RebootStep ==
    ASSUME SlotInv, Reboot
    PROVE  SlotInv' /\ OtherSlotStep
  <1>1. ota \in OtaStates  BY DEF SlotInv
  <1>2. PICK slot \in {0, 1} : slot = IF ota.newer = {} THEN ota.running ELSE CHOOSE i \in ota.newer : TRUE
    <2>1. ota.running \in {0, 1} /\ ota.newer \subseteq {0, 1}  BY <1>1, OtaTyped DEF Flags
    <2>2. ota.newer # {} => (CHOOSE i \in ota.newer : TRUE) \in {0, 1}  BY <2>1
    <2> QED  BY <2>1, <2>2
  <1>3. "idle" \in Statuses /\ 0 \in Replies /\ FALSE \in Yes  BY DEF Statuses, Replies, Yes
  <1>4. PICK p : p = [ota EXCEPT !.running = slot, !.offset = 0, !.erase = 0, !.updating = FALSE,
                                 !.status = "idle", !.reply = 0]
    OBVIOUS
  <1>5. ota' = p
    <2>1. ota' = OtaBegin([ota EXCEPT !.running = slot])
      BY <1>1, <1>2 DEF Reboot, OtaBoot, OtaStates
    <2> QED  BY <1>1, <1>4, <2>1 DEF OtaBegin, OtaStates
  <1>6. p \in OtaStates /\ p.flash = ota.flash  BY <1>1, <1>3, <1>4 DEF OtaStates
  <1>7. OtherSlotStep  BY <1>5, <1>6 DEF OtherSlotStep
  <1>8. /\ rx' = <<>> /\ sock' = <<>> /\ left' = <<>> /\ buf' = <<>> /\ matched' = 0
        /\ pc' = "idle"
    BY DEF Reboot, Goto
  <1>9. TokensInv'  BY <1>8, Short DEF TokensInv
  <1> QED  BY <1>5, <1>6, <1>7, <1>8, <1>9 DEF SlotInv, Uploading

LEMMA OneLater ==
    ASSUME NEW st \in {"write", "end", "aborted"}, NEW data \in Seq(Token)
    PROVE  <<Called(st, data)>> \in Seq(Later)
  <1>1. Called(st, data) \in Later  BY CallTyped
  <1> QED  BY <1>1, Short

\* The raw body.
LEMMA RawSteps ==
    ASSUME NamedBin, SlotInv, RawStart \/ RawByte \/ RawSilence \/ RawEnd
    PROVE  SlotInv' /\ OtherSlotStep
  <1>1. TokensInv /\ <<>> \in Seq(Token)  BY Short DEF SlotInv
  <1>2. /\ rx \in Seq(Token) /\ sock \in Seq(Token) /\ left \in Seq(Token)
        /\ buf \in Seq(Token) /\ matched \in 0..3
    BY <1>1 DEF TokensInv
  <1>3. "write" \in {"write", "end", "aborted"} /\ "aborted" \in {"write", "end", "aborted"}
        /\ "end" \in {"write", "end", "aborted"}
    OBVIOUS
  <1>4. CASE RawStart
    <2>1. /\ CallBack(<<Called("start", <<>>)>>) /\ asked' = asked /\ pc' # "file"
          /\ rx' = rx /\ sock' = sock /\ left' = left /\ buf' = <<>> /\ matched' = matched
      BY <1>4 DEF RawStart, peers, socket, Goto
    <2> QED  BY <1>1, <1>2, <2>1, CalledBack
  <1>5. CASE RawByte
    <2>1. /\ asked' = asked /\ pc' = pc /\ pc = "rawBytes" /\ left' = left /\ matched' = matched
          /\ Take(1) /\ Waiting # <<>>
      BY <1>5 DEF RawByte
    <2>2. 1 <= Len(Waiting) /\ Head(Waiting) \in Token  BY <1>1, <2>1, WaitingTyped
    <2>3. rx' \in Seq(Token) /\ sock' \in Seq(Token)  BY <1>1, <2>1, <2>2, TakeTyped
    <2>4. PICK got \in Seq(Token) : got = Append(buf, Head(Waiting))
      BY <1>2, <2>2, AppendProperties
    <2>5. \/ CallBack(<<Called("write", got)>>) /\ buf' = <<>>
          \/ buf' = got /\ ota' = ota
      BY <1>5, <2>4 DEF RawByte
    <2>6. CASE CallBack(<<Called("write", got)>>) /\ buf' = <<>>
      <3>1. <<Called("write", got)>> \in Seq(Later)  BY <1>3, OneLater
      <3> QED  BY <1>1, <1>2, <2>1, <2>3, <2>6, <3>1, CalledBack DEF InFile
    <2>7. CASE buf' = got /\ ota' = ota
      <3>1. (Uploading' => Aligned(ota')) /\ OtherSlotStep
        BY <2>1, <2>7 DEF SlotInv, Uploading, OtherSlotStep
      <3>2. TokensInv'  BY <1>2, <2>1, <2>3, <2>7 DEF TokensInv
      <3> QED  BY <2>7, <3>1, <3>2 DEF SlotInv
    <2> QED  BY <2>5, <2>6, <2>7
  <1>6. CASE RawSilence
    <2>1. /\ asked' = asked /\ pc' # "file" /\ pc = "rawBytes" /\ left' = left /\ matched' = matched
          /\ rx' = rx /\ sock' = sock /\ buf' = <<>>
          /\ CallBack(<<Called("aborted", <<>>)>>) \/ CallBack(<<Called("write", buf)>>)
      BY <1>6 DEF RawSilence, peers, socket, Goto
    <2>2. <<Called("aborted", <<>>)>> \in Seq(Later) /\ <<Called("write", buf)>> \in Seq(Later)
      BY <1>1, <1>2, <1>3, OneLater
    <2>3. CASE CallBack(<<Called("aborted", <<>>)>>)
      BY <1>1, <1>2, <2>1, <2>2, <2>3, CalledBack DEF InFile
    <2>4. CASE CallBack(<<Called("write", buf)>>)
      BY <1>1, <1>2, <2>1, <2>2, <2>4, CalledBack DEF InFile
    <2> QED  BY <2>1, <2>3, <2>4
  <1>7. CASE RawEnd
    <2>1. /\ asked' = asked /\ pc' # "file" /\ pc = "rawBytes" /\ left' = left /\ matched' = matched
          /\ rx' = rx /\ sock' = sock /\ buf' = buf
          /\ CallBack(<<Called("end", <<>>)>>)
      BY <1>7 DEF RawEnd, peers, socket, Goto
    <2>2. <<Called("end", <<>>)>> \in Seq(Later)  BY <1>1, <1>3, OneLater
    <2> QED  BY <1>1, <1>2, <2>1, <2>2, CalledBack DEF InFile
  <1> QED  BY <1>4, <1>5, <1>6, <1>7


\* A file of a form.
LEMMA FileSteps ==
    ASSUME NamedBin, SlotInv, FileHeader \/ FileByte \/ FileAborted \/ FileEnd
    PROVE  SlotInv' /\ OtherSlotStep
  <1>1. TokensInv /\ <<>> \in Seq(Token)  BY Short DEF SlotInv
  <1>2. /\ rx \in Seq(Token) /\ sock \in Seq(Token) /\ left \in Seq(Token)
        /\ buf \in Seq(Token) /\ matched \in 0..3
    BY <1>1 DEF TokensInv
  <1>3. /\ "write" \in {"write", "end", "aborted"} /\ "aborted" \in {"write", "end", "aborted"}
        /\ "end" \in {"write", "end", "aborted"}
    OBVIOUS
  <1>4. CASE FileHeader
    <2>1. Read /\ pc = "fileHeaders"  BY <1>4 DEF FileHeader
    <2>2. rx' \in Seq(Token) /\ sock' \in Seq(Token) /\ left' = left /\ asked' = asked
      BY <1>1, <2>1, ReadTyped
    <2>3. CASE Line # ""
      <3>1. pc' = pc /\ ota' = ota /\ buf' = buf /\ matched' = matched
        BY <1>4, <2>3 DEF FileHeader, Goto, body
      <3> QED  BY <1>2, <2>1, <2>2, <3>1, NoUpload DEF InFile
    <2>4. CASE Line = ""
      <3>1. /\ buf' = <<>> /\ matched' = 0
            /\ \/ CallBack(<<Called("start", <<>>)>>)
               \/ \E cs : CallBack(cs) /\ asked.kind # "update"
        BY <1>4, <2>4 DEF FileHeader
      <3>2. 0 \in 0..3 /\ 0 \in 0..2  OBVIOUS
      <3>3. matched' \in 0..3 /\ matched' \in 0..2  BY <3>1, <3>2
      <3>4. CASE CallBack(<<Called("start", <<>>)>>)
        BY <1>1, <2>2, <3>1, <3>3, <3>4, CalledBack
      <3>5. CASE \E cs : CallBack(cs) /\ asked.kind # "update"
        BY <1>1, <2>2, <3>1, <3>3, <3>5, CalledBack
      <3> QED  BY <3>1, <3>4, <3>5
    <2> QED  BY <2>3, <2>4
  <1>5. CASE FileByte
    <2>1. /\ pc = "file" /\ Take(1) /\ Waiting # <<>> /\ asked' = asked /\ left' = left
      BY <1>5 DEF FileByte
    <2>2. 1 <= Len(Waiting) /\ Head(Waiting) \in Token  BY <1>1, <2>1, WaitingTyped
    <2>3. rx' \in Seq(Token) /\ sock' \in Seq(Token)  BY <1>1, <2>1, <2>2, TakeTyped
    <2>4. matched \in 0..2  BY <1>1, <2>1 DEF TokensInv
    <2>5. PICK b \in Token : b = Head(Waiting)  BY <2>2
    <2>6. CASE b = Delim[matched + 1]
      <3>1. /\ matched' = matched + 1 /\ buf' = buf /\ ota' = ota
            /\ pc' = IF matched' = Len(Delim) THEN "fileEnd" ELSE pc
        BY <1>5, <2>5, <2>6 DEF FileByte, Goto
      <3>2. Len(Delim) = 3  BY DelimTyped
      <3>3. matched' \in 0..3 /\ (pc' = "file" => matched' \in 0..2) /\ pc' \in {"file", "fileEnd"}
        BY <2>1, <2>4, <3>1, <3>2
      <3>4. TokensInv'  BY <1>2, <2>1, <2>3, <3>1, <3>3 DEF TokensInv
      <3>5. (Uploading' => Aligned(ota')) /\ OtherSlotStep
        BY <2>1, <3>1, <3>3 DEF SlotInv, Uploading, OtherSlotStep
      <3> QED  BY <3>1, <3>4, <3>5 DEF SlotInv
    <2>7. CASE b # Delim[matched + 1]
      <3>1. PICK p : p = Pieces(Emitted(b))  OBVIOUS
      <3>2. /\ matched' = (IF b = Delim[1] THEN 1 ELSE 0)
            /\ CallBack([i \in DOMAIN p.full |-> Called("write", p.full[i])])
            /\ buf' = p.rest
        BY <1>5, <2>5, <2>7, <3>1 DEF FileByte
      <3>3. Emitted(b) \in Seq(Token)  BY <1>2, EmittedTyped
      <3>4. p.rest \in Seq(Token) /\ \E n \in Nat : /\ DOMAIN p.full = 1..n
                                                    /\ \A i \in 1..n : p.full[i] \in Seq(Token)
        BY <1>2, <3>1, <3>3, PiecesTyped
      <3>5. PICK cs : cs = [i \in DOMAIN p.full |-> Called("write", p.full[i])]  OBVIOUS
      <3>6. cs \in Seq(Later)
        <4>1. PICK n \in Nat : DOMAIN p.full = 1..n /\ \A i \in 1..n : p.full[i] \in Seq(Token)
          BY <3>4
        <4>2. \A i \in 1..n : Called("write", p.full[i]) \in Later  BY <1>3, <4>1, CallTyped
        <4>3. cs \in [1..n -> Later]  BY <3>5, <4>1, <4>2
        <4> QED  BY <4>3
      <3>7. matched' \in 0..3 /\ matched' \in 0..2  BY <3>2
      <3>8. CallBack(cs)  BY <3>2, <3>5
      <3> QED  BY <1>1, <2>1, <2>3, <3>2, <3>4, <3>6, <3>7, <3>8, CalledBack DEF InFile
    <2> QED  BY <2>6, <2>7
  <1>6. CASE FileAborted
    <2>1. /\ asked' = asked /\ pc' # "file" /\ pc = "file" /\ left' = left /\ matched' = matched
          /\ rx' = rx /\ sock' = sock /\ buf' = buf
          /\ CallBack(<<Called("aborted", <<>>)>>)
      BY <1>6 DEF FileAborted, peers, socket, Goto
    <2>2. <<Called("aborted", <<>>)>> \in Seq(Later)  BY <1>1, <1>3, OneLater
    <2> QED  BY <1>1, <1>2, <2>1, <2>2, CalledBack DEF InFile
  <1>7. CASE FileEnd
    <2>1. /\ asked' = asked /\ pc' # "file" /\ pc = "fileEnd" /\ left' = left /\ matched' = matched
          /\ rx' = rx /\ sock' = sock /\ buf' = buf
      BY <1>7 DEF FileEnd, peers, socket, Goto
    <2>2. PICK told : told = <<Called("write", buf), Called("end", <<>>)>>  OBVIOUS
    <2>3. PICK cs : cs = IF StillConnected THEN told ELSE Append(told, Called("aborted", <<>>))
      OBVIOUS
    <2>4. CallBack(cs)  BY <1>7, <2>2, <2>3 DEF FileEnd
    <2>5. Called("write", buf) \in Later /\ Called("end", <<>>) \in Later /\ Called("aborted", <<>>) \in Later
      BY <1>1, <1>2, <1>3, CallTyped
    <2>6. told \in Seq(Later)  BY <2>2, <2>5, Short
    <2>7. Append(told, Called("aborted", <<>>)) \in Seq(Later)  BY <2>5, <2>6, AppendProperties
    <2>8. cs \in Seq(Later)  BY <2>3, <2>6, <2>7
    <2> QED  BY <1>1, <1>2, <2>1, <2>4, <2>8, CalledBack DEF InFile
  <1> QED  BY <1>4, <1>5, <1>6, <1>7

-----------------------------------------------------------------------------
(* The theorem.                                                              *)

LEMMA SlotInit == Init => SlotInv
  <1>1. SUFFICES ASSUME Init PROVE SlotInv  OBVIOUS
  <1>2. TokensInv  BY <1>1, Short DEF Init, TokensInv
  <1>3. ota = Factory /\ pc = "idle"  BY <1>1 DEF Init
  <1>4. Factory \in OtaStates
    <2>1. /\ "idle" \in Statuses /\ 0 \in Replies /\ FALSE \in Yes /\ {0} \in Flags /\ "old" \in Cell
      BY DEF Statuses, Replies, Yes, Flags, Cell
    <2>2. [a \in Cells |-> "old"] \in [Cells -> Cell]  BY <2>1
    <2> QED  BY <2>1, <2>2 DEF Factory, OtaStates
  <1> QED  BY <1>2, <1>3, <1>4 DEF SlotInv, Uploading

LEMMA SlotNext ==
    ASSUME NamedBin, SlotInv, [Next]_vars
    PROVE  SlotInv' /\ OtherSlotStep
  <1>1. CASE HandleClient
    BY <1>1, LineSteps, ControlSteps, AnswerSteps, SocketSteps, RebootStep, RawSteps, FileSteps
       DEF HandleClient
  <1>2. CASE (\E p \in Peers : Connect(p)) \/ Arrive \/ Close
    BY <1>2, PeerSteps
  <1>3. CASE UNCHANGED vars
    <2>1. /\ ota' = ota /\ asked' = asked /\ pc' = pc /\ buf' = buf /\ matched' = matched
          /\ rx' = rx /\ sock' = sock /\ left' = left
      BY <1>3 DEF vars, peers, socket, body
    <2>2. OtherSlotStep  BY <2>1 DEF OtherSlotStep
    <2> QED  BY <2>1, <2>2 DEF SlotInv, TokensInv, Uploading
  <1> QED  BY <1>1, <1>2, <1>3 DEF Next

\* However an update is sent, cut short or answered by a flash that fails,
\* HttpOTA erases and writes nothing but the image slot that is not running
\* (the erase pointer of HttpOTA::handleFirmwareUpload stays on a sector of
\* that slot from the start of the upload to its end).
THEOREM RunningSlotKept ==
    ASSUME NamedBin
    PROVE  Spec => OnlyOtherSlot
  <1>1. SlotInv /\ [Next]_vars => SlotInv'  BY SlotNext
  <1>2. SlotInv /\ [Next]_vars => [OtherSlotStep]_vars  BY SlotNext
  <1>3. Spec => []SlotInv  BY <1>1, SlotInit, PTL DEF Spec
  <1>4. Spec => [][OtherSlotStep]_vars  BY <1>2, <1>3, PTL DEF Spec
  <1> QED  BY <1>4 DEF OnlyOtherSlot, OtherSlotStep

-----------------------------------------------------------------------------
(* The answers.                                                              *)

AnswerParts == [t : {"head", "data", "chunk"}, size : Int, data : Int]

\* Where a request is read and its handler has not answered.
Handling == {"headers", "plain", "raw", "rawBytes", "form", "part", "fieldHeaders", "value",
             "fileHeaders", "file", "fileEnd", "tail", "formEnd", "parsed", "middleware", "handler"}
Mute     == {"idle", "wait", "request", "reboot"} \cup Handling

\* The head of an answer in chunks and some chunks, none of them the last.
Opened(a) ==
    /\ a # <<>> /\ a[1] = HeadPart(Unknown)
    /\ \A i \in 2..Len(a) : a[i].t = "chunk" /\ a[i].size = a[i].data /\ a[i].data # 0

Whole(a) == a = <<>> \/ Framed(a)

\* The answer to a request that is no update, at each place of handleClient();
\* every parse ends with _chunked reset, and only chunkResponseBegin() to
\* chunkResponseEnd() see _chunkedResponseActive.
AnswerInv ==
    /\ answer \in Seq(AnswerParts) /\ {conn, chunked, active} \subseteq BOOLEAN
    /\ pc \in Mute => answer = <<>>
    /\ active => pc = "chunks"
    /\ pc \in Handling /\ asked.kind # "update" => ~chunked
    /\ pc \in {"content", "chunks"} /\ conn => chunked /\ Opened(answer)
    /\ pc = "chunks" /\ conn => active
    /\ pc = "return" /\ conn /\ asked.kind # "update" => IF chunked THEN Opened(answer) ELSE Whole(answer)
    /\ pc = "drop" /\ conn /\ asked.kind # "update" => Whole(answer)

\* Pieces whose decimal length is their hexadecimal one.
Single == Sizes \subseteq 0..9

LEMMA PartsTyped ==
    /\ \A n \in 0..99 : HeadPart(n) \in AnswerParts /\ DataPart(n) \in AnswerParts /\ ChunkPart(n, n) \in AnswerParts
    /\ HeadPart(Unknown) \in AnswerParts /\ Unknown = -1
  BY DEF HeadPart, DataPart, ChunkPart, AnswerParts, Unknown

LEMMA OneMax == Max({1}) = 1
  <1>1. \A x \in {1} : x = 1  OBVIOUS
  <1> QED BY DEF Max

\* The bytes of no part and of one part.
Carried(parts) == FoldLeft(LAMBDA s, x : s + x.data, 0, parts)

LEMMA CarriedNothing == Carried(<<>>) = 0
  <1> DEFINE g == [s \in SUBSET {} |-> 0]
             P(h) == h = [s \in SUBSET (DOMAIN <<>>) |-> IF s = {} THEN 0 ELSE
                              h[s \ {Max(s)}] + <<>>[Max(s)].data]
  <1>1. DOMAIN <<>> = {}  OBVIOUS
  <1>2. P(g)  BY <1>1
  <1>3. P(CHOOSE h : P(h))  BY <1>2
  <1>4. Carried(<<>>) = (CHOOSE h : P(h))[DOMAIN <<>>]  BY DEF Carried, FoldLeft, MapThenFoldSet
  <1> QED BY <1>1, <1>3, <1>4

LEMMA CarriedOne ==
    ASSUME NEW x, x.data \in Int
    PROVE  Carried(<<x>>) = x.data
  <1> DEFINE g == [s \in SUBSET {1} |-> IF s = {} THEN 0 ELSE x.data]
             P(h) == h = [s \in SUBSET (DOMAIN <<x>>) |-> IF s = {} THEN 0 ELSE
                              h[s \ {Max(s)}] + <<x>>[Max(s)].data]
  <1>1. DOMAIN <<x>> = {1} /\ <<x>>[1] = x  OBVIOUS
  <1>2. \A s \in SUBSET {1} : s = {} \/ s = {1}  OBVIOUS
  <1>3. P(g)
    <2>1. \A s \in SUBSET {1} : g[s] = IF s = {} THEN 0 ELSE g[s \ {Max(s)}] + <<x>>[Max(s)].data
      <3> TAKE s \in SUBSET {1}
      <3>1. CASE s = {}  BY <3>1
      <3>2. CASE s = {1}
        <4>1. Max(s) = 1  BY <3>2, OneMax
        <4>2. s \ {Max(s)} = {}  BY <3>2, <4>1
        <4>3. g[s] = x.data /\ g[{}] = 0  BY <3>2
        <4> HIDE DEF g
        <4>4. g[s \ {Max(s)}] + <<x>>[Max(s)].data = 0 + x.data  BY <1>1, <4>1, <4>2, <4>3
        <4>5. 0 + x.data = x.data /\ s # {}  BY <3>2
        <4> QED  BY <4>3, <4>4, <4>5
      <3> QED  BY <1>2, <3>1, <3>2
    <2>2. g = [s \in SUBSET {1} |-> g[s]]  OBVIOUS
    <2> HIDE DEF g
    <2> QED  BY <1>1, <2>1, <2>2
  <1>4. \A h : P(h) => h[{1}] = x.data
    <2> SUFFICES ASSUME NEW h, P(h) PROVE h[{1}] = x.data  OBVIOUS
    <2>1. h[{1}] = h[{1} \ {1}] + <<x>>[1].data  BY <1>1, OneMax
    <2>2. h[{}] = 0  BY <1>1
    <2>3. {1} \ {1} = {} /\ <<x>>[1] = x  OBVIOUS
    <2> HIDE DEF P
    <2> QED  BY <2>1, <2>2, <2>3
  <1>5. P(CHOOSE h : P(h))  BY <1>3
  <1>6. Carried(<<x>>) = (CHOOSE h : P(h))[DOMAIN <<x>>]  BY DEF Carried, FoldLeft, MapThenFoldSet
  <1> QED  BY <1>1, <1>4, <1>5, <1>6

LEMMA FramedMeans ==
    ASSUME NEW a, a[1].t = "head",
           IF a[1].size # Unknown
           THEN Carried(Tail(a)) = a[1].size /\ \A i \in DOMAIN Tail(a) : Tail(a)[i].t = "data"
           ELSE /\ Tail(a) # <<>>
                /\ \A i \in DOMAIN Tail(a) :
                     /\ Tail(a)[i].t = "chunk" /\ Tail(a)[i].size = Tail(a)[i].data
                     /\ Tail(a)[i].data = 0 <=> i = Len(Tail(a))
    PROVE  Framed(a)
  BY DEF Framed, Carried

LEMMA FramedBySize ==
    ASSUME NEW n \in Nat
    PROVE  /\ Framed(<<HeadPart(0)>>)
           /\ Framed(<<HeadPart(n), DataPart(n)>>)
  <1>1. Framed(<<HeadPart(0)>>)
    <2> DEFINE a == <<HeadPart(0)>>
    <2>1. Tail(a) = <<>> /\ a[1].t = "head" /\ a[1].size = 0 /\ DOMAIN Tail(a) = {}
      BY DEF HeadPart
    <2>2. Carried(Tail(a)) = 0  BY <2>1, CarriedNothing
    <2> HIDE DEF a
    <2>3. Framed(a)  BY <2>1, <2>2, FramedMeans DEF Unknown
    <2> QED  BY <2>3 DEF a
  <1>2. Framed(<<HeadPart(n), DataPart(n)>>)
    <2> DEFINE a == <<HeadPart(n), DataPart(n)>>
    <2>1. Tail(a) = <<DataPart(n)>> /\ a[1].t = "head" /\ a[1].size = n
      BY DEF HeadPart
    <2>2. DataPart(n).data = n /\ DataPart(n).t = "data"  BY DEF DataPart
    <2>3. Carried(Tail(a)) = n  BY <2>1, <2>2, CarriedOne
    <2>4. \A i \in DOMAIN Tail(a) : Tail(a)[i].t = "data"
      <3>1. DOMAIN <<DataPart(n)>> = {1} /\ <<DataPart(n)>>[1] = DataPart(n)  OBVIOUS
      <3> QED  BY <2>1, <2>2, <3>1
    <2> HIDE DEF a
    <2>5. Framed(a)  BY <2>1, <2>3, <2>4, FramedMeans DEF Unknown
    <2> QED  BY <2>5 DEF a
  <1> QED  BY <1>1, <1>2

LEMMA OpenedMore ==
    ASSUME NEW a \in Seq(AnswerParts), Opened(a), NEW n \in 1..99
    PROVE  Opened(a \o <<ChunkPart(n, n)>>)
  <1>1. ChunkPart(n, n).t = "chunk" /\ ChunkPart(n, n).size = n /\ ChunkPart(n, n).data = n
    BY DEF ChunkPart
  <1>2. PICK c : c = ChunkPart(n, n)  OBVIOUS
  <1>3. PICK b : b = a \o <<c>>  OBVIOUS
  <1>4. /\ Len(a) \in Nat /\ Len(a) >= 1 /\ Len(b) = Len(a) + 1 /\ b[Len(a) + 1] = c
        /\ \A i \in 1..Len(a) : b[i] = a[i]
    BY <1>3 DEF Opened
  <1>5. b # <<>> /\ b[1] = HeadPart(Unknown)  BY <1>4 DEF Opened
  <1>6. ASSUME NEW i \in 2..Len(b)
        PROVE  b[i].t = "chunk" /\ b[i].size = b[i].data /\ b[i].data # 0
    <2>1. CASE i = Len(a) + 1  BY <1>1, <1>2, <1>4, <2>1
    <2>2. CASE i \in 2..Len(a)  BY <1>4, <2>2 DEF Opened
    <2> QED  BY <1>4, <2>1, <2>2
  <1> QED  BY <1>2, <1>3, <1>5, <1>6 DEF Opened

LEMMA FramedByChunks ==
    ASSUME NEW a \in Seq(AnswerParts), Opened(a)
    PROVE  Framed(a \o <<ChunkPart(0, 0)>>)
  <1>1. ChunkPart(0, 0).t = "chunk" /\ ChunkPart(0, 0).size = 0 /\ ChunkPart(0, 0).data = 0
    BY DEF ChunkPart
  <1>2. PICK c : c = ChunkPart(0, 0)  OBVIOUS
  <1>3. PICK b : b = a \o <<c>>  OBVIOUS
  <1>4. /\ Len(a) \in Nat /\ Len(a) >= 1 /\ Len(b) = Len(a) + 1 /\ b[Len(a) + 1] = c
        /\ \A i \in 1..Len(a) : b[i] = a[i]
    BY <1>3 DEF Opened
  <1>5. b[1] = HeadPart(Unknown)  BY <1>4 DEF Opened
  <1>6. b[1].t = "head" /\ b[1].size = Unknown  BY <1>5 DEF HeadPart
  <1>7. PICK rest : rest = Tail(b)  OBVIOUS
  <1>8. b \in Seq({c} \cup AnswerParts) /\ b # <<>>  BY <1>3, <1>4
  <1>9. /\ Len(rest) = Len(a) /\ DOMAIN rest = 1..Len(a) /\ rest # <<>>
        /\ \A i \in 1..Len(a) : rest[i] = b[i + 1]
    BY <1>4, <1>7, <1>8
  <1>10. ASSUME NEW i \in DOMAIN rest
         PROVE  /\ rest[i].t = "chunk" /\ rest[i].size = rest[i].data
                /\ rest[i].data = 0 <=> i = Len(rest)
    <2>1. CASE i = Len(a)  BY <1>1, <1>2, <1>4, <1>9, <2>1
    <2>2. CASE i \in 1..(Len(a) - 1)
      <3>1. i + 1 \in 2..Len(a)  BY <1>4, <2>2
      <3>2. rest[i] = a[i + 1]  BY <1>4, <1>9, <3>1
      <3>3. a[i + 1].t = "chunk" /\ a[i + 1].size = a[i + 1].data /\ a[i + 1].data # 0
        BY <3>1 DEF Opened
      <3> QED  BY <1>4, <1>9, <2>2, <3>2, <3>3
    <2> QED  BY <1>4, <1>9, <2>1, <2>2
  <1> HIDE DEF Unknown
  <1>11. Framed(b)
    BY <1>6, <1>7, <1>9, <1>10, FramedMeans
  <1> QED  BY <1>2, <1>3, <1>11

\* What write() does to an answer: the peer has all the parts, or it is gone.
LEMMA Written ==
    ASSUME AnswerInv, NEW parts \in Seq(AnswerParts), Write(parts)
    PROVE  /\ asked' = asked /\ conn' \in BOOLEAN /\ answer' \in Seq(AnswerParts)
           /\ conn' => conn /\ answer' = answer \o parts
  <1>1. answer \in Seq(AnswerParts) /\ conn \in BOOLEAN  BY DEF AnswerInv
  <1>2. answer \o parts \in Seq(AnswerParts)  BY <1>1
  <1>3. asked' = asked  BY DEF Write
  <1>4. CASE conn /\ answer' = answer \o parts /\ conn' = conn  BY <1>1, <1>2, <1>3, <1>4
  <1>5. CASE conn' = FALSE /\ answer' = answer  BY <1>1, <1>3, <1>5
  <1>6. CASE ~conn /\ conn' = conn /\ answer' = answer  BY <1>1, <1>3, <1>6
  <1> QED  BY <1>4, <1>5, <1>6 DEF Write, Broken

\* A step of the parser, or of a peer.
Quiet ==
    /\ UNCHANGED <<answer, active, conn, asked>>
    /\ chunked' \in BOOLEAN /\ (chunked' => chunked \/ asked.kind = "update")
    /\ pc \in Mute /\ pc' \in Mute \cup {"drop"}
    /\ pc' \in Handling => pc \in Handling \/ ~chunked'

LEMMA QuietStep ==
    ASSUME AnswerInv, Quiet
    PROVE  AnswerInv'
  BY DEF AnswerInv, Quiet, Mute, Handling, Whole

LEMMA OutsideSteps ==
    ASSUME AnswerInv,
           (\E p \in Peers : Connect(p)) \/ Arrive \/ Close
    PROVE  AnswerInv'
  <1>1. UNCHANGED <<answer, active, conn, asked, chunked, pc>>
    BY DEF Connect, Arrive, Close, socket, reply
  <1> QED  BY <1>1 DEF AnswerInv

LEMMA CallBackQuiet ==
    ASSUME AnswerInv, NEW cs, CallBack(cs)
    PROVE  chunked' \in BOOLEAN /\ (chunked' => chunked \/ asked.kind = "update")
  BY DEF AnswerInv, CallBack

LEMMA ParserSteps ==
    ASSUME AnswerInv,
           \/ RequestArrived \/ GiveUp \/ ParseRequest \/ ParseHeader
           \/ PlainRead \/ PlainShort \/ PlainDone
           \/ FormStart \/ Part \/ FieldHeader \/ Value \/ Tail_ \/ FormEnd
           \/ Allow
    PROVE  Quiet
  <1> USE DEF AnswerInv, Quiet, Mute, Handling, Goto, socket, reply, peers
  <1>1. CASE RequestArrived \/ GiveUp \/ Allow  BY <1>1 DEF RequestArrived, GiveUp, Allow
  <1>2a. CASE ParseRequest  BY <1>2a DEF ParseRequest, Read
  <1>2b. CASE ParseHeader  BY <1>2b DEF ParseHeader, Read
  <1>3. CASE PlainRead \/ PlainShort \/ PlainDone  BY <1>3 DEF PlainRead, PlainShort, PlainDone
  <1>4a. CASE FormStart  BY <1>4a DEF FormStart, Read
  <1>4b. CASE Part  BY <1>4b DEF Part, Read
  <1>4c. CASE FieldHeader  BY <1>4c DEF FieldHeader, Read
  <1>4d. CASE Value  BY <1>4d DEF Value, Read
  <1>5. CASE Tail_ \/ FormEnd  BY <1>5 DEF Tail_, FormEnd, Read
  <1> QED  BY <1>1, <1>2a, <1>2b, <1>3, <1>4a, <1>4b, <1>4c, <1>4d, <1>5

LEMMA BodySteps ==
    ASSUME AnswerInv,
           \/ RawStart \/ RawByte \/ RawSilence \/ RawEnd
           \/ FileHeader \/ FileByte \/ FileAborted \/ FileEnd
    PROVE  Quiet
  <1>1. chunked \in BOOLEAN  BY DEF AnswerInv
  <1>2. \A cs : CallBack(cs) => chunked' \in BOOLEAN /\ (chunked' => chunked \/ asked.kind = "update")
    BY CallBackQuiet
  <1> USE DEF Quiet, Mute, Handling, Goto, socket, reply, peers, Keeping
  <1>3. CASE RawStart  BY <1>1, <1>2, <1>3 DEF RawStart
  <1>4. CASE RawByte  BY <1>1, <1>2, <1>4 DEF RawByte
  <1>5. CASE RawSilence  BY <1>1, <1>2, <1>5 DEF RawSilence
  <1>6. CASE RawEnd  BY <1>1, <1>2, <1>6 DEF RawEnd
  <1>7. CASE FileHeader  BY <1>1, <1>2, <1>7 DEF FileHeader, Read
  <1>8. CASE FileByte  BY <1>1, <1>2, <1>8 DEF FileByte
  <1>9. CASE FileAborted  BY <1>1, <1>2, <1>9 DEF FileAborted
  <1>10. CASE FileEnd  BY <1>1, <1>2, <1>10 DEF FileEnd
  <1> QED  BY <1>3, <1>4, <1>5, <1>6, <1>7, <1>8, <1>9, <1>10

LEMMA ConnectionSteps ==
    ASSUME AnswerInv,
           (\E p \in Peers : Accept(p)) \/ Drop \/ Reboot \/ ParseDone
    PROVE  AnswerInv'
  <1> USE DEF AnswerInv, Mute, Handling, Goto, reply
  <1>0. <<>> \in Seq(AnswerParts)  OBVIOUS
  <1>1. CASE \E p \in Peers : Accept(p)  BY <1>1 DEF Accept
  <1>2. CASE Drop  BY <1>0, <1>2 DEF Drop
  <1>3. CASE Reboot  BY <1>0, <1>3 DEF Reboot
  <1>4. CASE ParseDone  BY <1>0, <1>4 DEF ParseDone
  <1> QED  BY <1>1, <1>2, <1>3, <1>4

LEMMA TwoParts ==
    ASSUME NEW h \in AnswerParts, NEW d \in AnswerParts
    PROVE  <<h>> \o <<d>> = <<h, d>>
  <1>0. /\ <<h>> \in Seq(AnswerParts) /\ <<d>> \in Seq(AnswerParts)
        /\ <<h, d>> \in Seq(AnswerParts)
    OBVIOUS
  <1>1. PICK s \in Seq(AnswerParts) : s = <<h>>  BY <1>0
  <1>2. PICK t \in Seq(AnswerParts) : t = <<d>>  BY <1>0
  <1>3. PICK u \in Seq(AnswerParts) : u = <<h, d>>  BY <1>0
  <1>3a. Len(s) = 1 /\ s[1] = h /\ Len(t) = 1 /\ t[1] = d  BY <1>1, <1>2
  <1>3b. Len(u) = 2 /\ u[1] = h /\ u[2] = d  BY <1>3
  <1>4. s \o t \in Seq(AnswerParts) /\ Len(s \o t) = 2 /\ (s \o t)[1] = h /\ (s \o t)[2] = d
    <2>1. /\ s \o t \in Seq(AnswerParts) /\ Len(s \o t) = Len(s) + Len(t)
          /\ \A i \in 1..Len(s) + Len(t) : (s \o t)[i] = IF i <= Len(s) THEN s[i] ELSE t[i - Len(s)]
      BY ConcatProperties
    <2> QED  BY <1>3a, <2>1
  <1>5. \A i \in 1..2 : (s \o t)[i] = u[i]  BY <1>3b, <1>4
  <1>6. s \o t = u  BY <1>3b, <1>4, <1>5, SeqEqual
  <1> QED  BY <1>1, <1>2, <1>3, <1>6

\* The answers of known length.
LEMMA SizedSteps ==
    ASSUME AnswerInv,
           Refuse \/ \E n \in Sizes : Send(n) \/ SendFile(n)
    PROVE  AnswerInv'
  <1>0. /\ answer \in Seq(AnswerParts) /\ chunked \in BOOLEAN /\ active \in BOOLEAN
        /\ pc \in {"middleware", "handler"} => answer = <<>> /\ ~active
        /\ pc \in {"middleware", "handler"} /\ asked.kind # "update" => ~chunked
    BY DEF AnswerInv, Mute, Handling
  <1>1. CASE Refuse
    <2>1. <<HeadPart(0)>> \in Seq(AnswerParts)  BY PartsTyped
    <2>2. pc = "middleware" /\ pc' = "drop" /\ Write(<<HeadPart(0)>>) /\ UNCHANGED <<chunked, active>>
      BY <1>1 DEF Refuse, Goto
    <2>3. /\ asked' = asked /\ conn' \in BOOLEAN /\ answer' \in Seq(AnswerParts)
          /\ conn' => answer' = <<>> \o <<HeadPart(0)>>
      BY <1>0, <2>1, <2>2, Written
    <2>4. Framed(<<HeadPart(0)>>)  BY FramedBySize
    <2>5. <<>> \o <<HeadPart(0)>> = <<HeadPart(0)>>  BY <2>1
    <2>6. conn' => Framed(answer')  BY <2>3, <2>4, <2>5
    <2> QED  BY <1>0, <2>2, <2>3, <2>6 DEF AnswerInv, Mute, Handling, Whole
  <1>2. ASSUME NEW n \in Sizes, Send(n) \/ SendFile(n)
        PROVE  AnswerInv'
    <2>1. n \in 0..99 /\ n \in Nat  BY ServerAssumption DEF ServerAssumption
    <2>2. PICK parts \in {<<HeadPart(n)>> \o IF n = 0 THEN <<>> ELSE <<Content(n)>>,
                          <<HeadPart(n), DataPart(n)>>} :
            /\ pc = "handler" /\ pc' = "return" /\ asked.kind # "update"
            /\ Write(parts) /\ UNCHANGED <<chunked, active>>
      BY <1>2 DEF Send, SendFile, Goto
    <2>3. Content(n) = DataPart(n)  BY <1>0, <2>2 DEF Content
    <2>4. parts \in Seq(AnswerParts) /\ Framed(parts)
      <3>1. HeadPart(n) \in AnswerParts /\ DataPart(n) \in AnswerParts  BY <2>1, PartsTyped
      <3>2. CASE parts = <<HeadPart(n), DataPart(n)>>  BY <2>1, <3>1, <3>2, FramedBySize
      <3>3. CASE n = 0 /\ parts = <<HeadPart(n)>> \o <<>>
        <4>1. parts = <<HeadPart(0)>>  BY <3>3
        <4>2. HeadPart(0) \in AnswerParts  BY <3>1, <3>3
        <4>3. Framed(<<HeadPart(0)>>)  BY <2>1, FramedBySize
        <4> QED  BY <4>1, <4>2, <4>3
      <3>4. CASE n # 0 /\ parts = <<HeadPart(n)>> \o <<Content(n)>>
        <4>1. parts = <<HeadPart(n)>> \o <<DataPart(n)>>  BY <2>3, <3>4
        <4>2. parts = <<HeadPart(n), DataPart(n)>>  BY <3>1, <4>1, TwoParts
        <4> QED  BY <3>2, <4>2
      <3> QED  BY <2>2, <3>2, <3>3, <3>4
    <2>5. /\ asked' = asked /\ conn' \in BOOLEAN /\ answer' \in Seq(AnswerParts)
          /\ conn' => answer' = <<>> \o parts
      BY <1>0, <2>2, <2>4, Written
    <2>6. conn' => Framed(answer')  BY <2>4, <2>5
    <2> QED  BY <1>0, <2>2, <2>5, <2>6 DEF AnswerInv, Mute, Handling, Whole
  <1> QED  BY <1>1, <1>2

LEMMA HeadOpens == Opened(<<HeadPart(Unknown)>>)
  BY DEF Opened

\* The answers in chunks begin.
LEMMA OpeningSteps ==
    ASSUME AnswerInv, SendOpen \/ ChunkResponseBegin
    PROVE  AnswerInv'
  <1>0. /\ answer = <<>> /\ ~active /\ pc = "handler" /\ asked.kind = "page"
    BY DEF AnswerInv, Mute, Handling, SendOpen, ChunkResponseBegin
  <1>1. /\ chunked' = TRUE /\ Write(<<HeadPart(Unknown)>>)
        /\ \/ pc' = "content" /\ active' = active
           \/ pc' = "chunks" /\ active' = TRUE
    BY <1>0 DEF SendOpen, ChunkResponseBegin, Goto
  <1>2. <<HeadPart(Unknown)>> \in Seq(AnswerParts)  BY PartsTyped
  <1>3. /\ asked' = asked /\ conn' \in BOOLEAN /\ answer' \in Seq(AnswerParts)
        /\ conn' => answer' = <<>> \o <<HeadPart(Unknown)>>
    BY <1>0, <1>1, <1>2, Written
  <1>4. conn' => Opened(answer')  BY <1>2, <1>3, HeadOpens
  <1>5. active \in BOOLEAN  BY DEF AnswerInv
  <1>6. asked' = asked /\ asked'.kind = "page"  BY <1>0, <1>3
  <1>7. CASE pc' = "content" /\ active' = active
    BY <1>0, <1>1, <1>3, <1>4, <1>5, <1>7 DEF AnswerInv, Mute, Handling
  <1>8. CASE pc' = "chunks" /\ active' = TRUE
    BY <1>0, <1>1, <1>3, <1>4, <1>8 DEF AnswerInv, Mute, Handling
  <1> QED  BY <1>1, <1>7, <1>8

\* They go on: with pieces of less than ten bytes, whose decimal length is
\* their hexadecimal one.
LEMMA ChunkSteps ==
    ASSUME AnswerInv, Single, NEW n \in Sizes, SendContent(n) \/ ChunkWrite(n)
    PROVE  AnswerInv'
  <1>1. n \in 0..9 /\ n \in 0..99 /\ AsHex(n) = n  BY DEF Single, AsHex
  <1>2. PICK c : c = ChunkPart(n, n)  OBVIOUS
  <1>3. c \in AnswerParts /\ <<c>> \in Seq(AnswerParts)  BY <1>1, <1>2, PartsTyped
  <1>4. CASE SendContent(n)
    <2>1. pc = "content" /\ (conn => chunked /\ Opened(answer)) /\ {chunked, active, conn} \subseteq BOOLEAN
          /\ active' = active /\ ~active /\ answer \in Seq(AnswerParts)
      BY <1>4 DEF SendContent, AnswerInv
    <2>2. PICK part \in AnswerParts : part = Content(n) /\ Write(<<part>>)
      <3>1. Content(n) \in AnswerParts  BY <1>1, PartsTyped DEF Content
      <3> QED  BY <1>4, <3>1 DEF SendContent
    <2>3. /\ asked' = asked /\ conn' \in BOOLEAN /\ answer' \in Seq(AnswerParts)
          /\ conn' => conn /\ answer' = answer \o <<part>>
      <3>1. <<part>> \in Seq(AnswerParts)  OBVIOUS
      <3> QED  BY <2>2, <3>1, Written
    <2>4. /\ chunked' = (chunked /\ n # 0) /\ pc' = IF n = 0 \/ ~conn THEN "return" ELSE pc
      BY <1>4 DEF SendContent, Goto
    <2>5. conn' => part = c  BY <1>2, <2>1, <2>2, <2>3 DEF Content
    <2>6. CASE n = 0
      <3>1. conn' => Framed(answer')
        BY <1>2, <2>1, <2>3, <2>5, <2>6, FramedByChunks
      <3> QED  BY <2>1, <2>3, <2>4, <2>6, <3>1 DEF AnswerInv, Mute, Handling, Whole
    <2>7. CASE n # 0
      <3>1. n \in 1..99  BY <1>1, <2>7
      <3>2. conn' => Opened(answer')
        BY <1>2, <2>1, <2>3, <2>5, <3>1, OpenedMore
      <3> QED  BY <2>1, <2>3, <2>4, <2>7, <3>2 DEF AnswerInv, Mute, Handling
    <2> QED  BY <2>6, <2>7
  <1>5. CASE ChunkWrite(n)
    <2>1. /\ pc = "chunks" /\ pc' = pc /\ n > 0 /\ (conn => chunked /\ Opened(answer))
          /\ {chunked, active, conn} \subseteq BOOLEAN /\ answer \in Seq(AnswerParts)
          /\ chunked' = chunked /\ Write(<<c>>) /\ active' = (conn /\ conn')
      BY <1>1, <1>2, <1>5 DEF ChunkWrite, AnswerInv
    <2>2. /\ asked' = asked /\ conn' \in BOOLEAN /\ answer' \in Seq(AnswerParts)
          /\ conn' => conn /\ answer' = answer \o <<c>>
      BY <1>3, <2>1, Written
    <2>3. n \in 1..99  BY <1>1, <2>1
    <2>4. conn' => Opened(answer')  BY <1>2, <2>1, <2>2, <2>3, OpenedMore
    <2> QED  BY <2>1, <2>2, <2>4 DEF AnswerInv, Mute, Handling
  <1> QED  BY <1>4, <1>5

LEMMA EmptyChunk == ChunkPart(0, 0) \in AnswerParts /\ <<ChunkPart(0, 0)>> \in Seq(AnswerParts)
  BY PartsTyped

\* They end.
LEMMA ClosingSteps ==
    ASSUME AnswerInv, ChunkResponseEnd \/ Return \/ Finalize
    PROVE  AnswerInv'
  <1>0. {chunked, active, conn} \subseteq BOOLEAN /\ answer \in Seq(AnswerParts)  BY DEF AnswerInv
  <1>1. CASE ChunkResponseEnd
    <2>1. /\ pc = "chunks" /\ pc' = "return" /\ (conn => chunked /\ Opened(answer) /\ active)
      BY <1>1 DEF ChunkResponseEnd, Goto, AnswerInv
    <2>2. CASE ~active
      <3>1. UNCHANGED <<answer, chunked, active, conn, asked>>
        BY <1>1, <2>2 DEF ChunkResponseEnd, reply, peers, socket
      <3> QED  BY <1>0, <2>1, <2>2, <3>1 DEF AnswerInv, Mute, Handling
    <2>3. CASE active
      <3>1. Write(<<ChunkPart(0, 0)>>) /\ active' = FALSE /\ chunked' = FALSE
        BY <1>1, <2>3 DEF ChunkResponseEnd
      <3>2. /\ asked' = asked /\ conn' \in BOOLEAN /\ answer' \in Seq(AnswerParts)
            /\ conn' => conn /\ answer' = answer \o <<ChunkPart(0, 0)>>
        BY <3>1, EmptyChunk, Written
      <3>3. conn' => Framed(answer')  BY <1>0, <2>1, <3>2, FramedByChunks
      <3> QED  BY <2>1, <3>1, <3>2, <3>3 DEF AnswerInv, Mute, Handling, Whole
    <2> QED  BY <1>0, <2>2, <2>3
  <1>2. CASE Return
    <2>1. /\ pc' = "return" /\ UNCHANGED <<answer, chunked, active, conn, asked>>
          /\ pc = "content" \/ (pc = "handler" /\ asked.kind = "update")
      BY <1>2 DEF Return, Goto, reply, peers, socket
    <2> QED  BY <1>0, <2>1 DEF AnswerInv, Mute, Handling
  <1>3. CASE Finalize
    <2>1. /\ pc = "return" /\ pc' = "drop" /\ chunked' = FALSE /\ active' = active /\ ~active
          /\ (conn /\ asked.kind # "update" => IF chunked THEN Opened(answer) ELSE Whole(answer))
      BY <1>3 DEF Finalize, Goto, AnswerInv
    <2>2. CASE ~chunked
      <3>1. UNCHANGED <<answer, conn, asked>>  BY <1>3, <2>2 DEF Finalize, peers, socket
      <3>2. Whole(answer') <=> Whole(answer)  BY <3>1
      <3> QED  BY <1>0, <2>1, <2>2, <3>1, <3>2 DEF AnswerInv, Mute, Handling
    <2>3. CASE chunked
      <3>1. Write(<<ChunkPart(0, 0)>>)  BY <1>3, <2>3 DEF Finalize, Content
      <3>2. /\ asked' = asked /\ conn' \in BOOLEAN /\ answer' \in Seq(AnswerParts)
            /\ conn' => conn /\ answer' = answer \o <<ChunkPart(0, 0)>>
        BY <3>1, EmptyChunk, Written
      <3>3. conn' /\ asked.kind # "update" => Framed(answer')
        BY <1>0, <2>1, <2>3, <3>2, FramedByChunks
      <3> QED  BY <1>0, <2>1, <3>2, <3>3 DEF AnswerInv, Mute, Handling, Whole
    <2> QED  BY <1>0, <2>2, <2>3
  <1> QED  BY <1>1, <1>2, <1>3

LEMMA AnswerInit == Init => AnswerInv
  <1> SUFFICES ASSUME Init PROVE AnswerInv  OBVIOUS
  <1>1. /\ answer = <<>> /\ conn = FALSE /\ chunked = FALSE /\ active = FALSE /\ pc = "idle"
    BY DEF Init
  <1>2. <<>> \in Seq(AnswerParts)  OBVIOUS
  <1> QED  BY <1>1, <1>2 DEF AnswerInv, Mute, Handling

LEMMA AnswerNext ==
    ASSUME AnswerInv, Single, [Next]_vars
    PROVE  AnswerInv'
  <1>1. CASE UNCHANGED vars
    <2>1. UNCHANGED <<answer, active, conn, asked, chunked, pc>>
      BY <1>1 DEF vars, reply, peers, socket
    <2> QED  BY <2>1 DEF AnswerInv
  <1>2. CASE Next
    <2>1. CASE (\E p \in Peers : Connect(p)) \/ Arrive \/ Close  BY <2>1, OutsideSteps
    <2>2. CASE \/ RequestArrived \/ GiveUp \/ ParseRequest \/ ParseHeader
               \/ PlainRead \/ PlainShort \/ PlainDone
               \/ FormStart \/ Part \/ FieldHeader \/ Value \/ Tail_ \/ FormEnd
               \/ Allow
      BY <2>2, ParserSteps, QuietStep
    <2>3. CASE \/ RawStart \/ RawByte \/ RawSilence \/ RawEnd
               \/ FileHeader \/ FileByte \/ FileAborted \/ FileEnd
      BY <2>3, BodySteps, QuietStep
    <2>4. CASE (\E p \in Peers : Accept(p)) \/ Drop \/ Reboot \/ ParseDone
      BY <2>4, ConnectionSteps
    <2>5. CASE Refuse \/ \E n \in Sizes : Send(n) \/ SendFile(n)  BY <2>5, SizedSteps
    <2>6. CASE SendOpen \/ ChunkResponseBegin  BY <2>6, OpeningSteps
    <2>7. CASE \E n \in Sizes : SendContent(n) \/ ChunkWrite(n)  BY <2>7, ChunkSteps
    <2>8. CASE ChunkResponseEnd \/ Return \/ Finalize  BY <2>8, ClosingSteps
    <2> QED  BY <1>2, <2>1, <2>2, <2>3, <2>4, <2>5, <2>6, <2>7, <2>8, Zenon DEF Next, HandleClient
  <1> QED  BY <1>1, <1>2

\* A peer that is still there when its request is done finds as many bytes as
\* the head declares, or true chunks up to the empty one, whichever of send(),
\* streamFile() and the chunk calls made the answer and wherever the peer went
\* silent: for pieces of less than ten bytes (WebServer.cpp chunkWrite).
THEOREM AnswersAlwaysFramed ==
    ASSUME Single
    PROVE  Spec => []AnswerFramed
  <1>1. AnswerInv => AnswerFramed  BY DEF AnswerInv, AnswerFramed, Whole
  <1>2. AnswerInv /\ [Next]_vars => AnswerInv'  BY AnswerNext
  <1> QED  BY AnswerInit, <1>1, <1>2, PTL DEF Spec

-----------------------------------------------------------------------------
(* Uploads.  What the handler was told and the buffer holds is a prefix of   *)
(* the file; what has been read and not yet been taken for file or delimiter *)
(* is the beginning of a delimiter; and what lies ahead is the rest of the   *)
(* request.                                                                  *)

-----------------------------------------------------------------------------
(* The bytes of a sequence of callbacks.                                     *)

\* g[i] is what the first i pieces of ss hold together.
Sums(ss, g) ==
    /\ g \in [0..Len(ss) -> Seq(Token)] /\ g[0] = <<>>
    /\ \A i \in 1..Len(ss) : g[i] = g[i - 1] \o ss[i]

LEMMA FlatIs ==
    ASSUME NEW ss \in Seq(Seq(Token)), NEW g, Sums(ss, g)
    PROVE  FlattenSeq(ss) = g[Len(ss)]
  <1>1. PICK n \in Nat : n = Len(ss)  OBVIOUS
  <1>2. /\ \A i \in 0..n : g[i] \in Seq(Token)
        /\ g[0] = <<>> /\ \A i \in 1..n : g[i] = g[i - 1] \o ss[i]
    BY <1>1 DEF Sums
  <1>2a. \A i \in 1..n : ss[i] \in Seq(Token)  BY <1>1
  <1>3. CASE n = 0
    <2>1. ss = <<>>  BY <1>1, <1>3, EmptySeq
    <2> QED  BY <1>1, <1>2, <1>3, <2>1 DEF FlattenSeq
  <1>4. CASE n # 0
    <2>0. 1 \in 1..n /\ 1 - 1 = 0  BY <1>4
    <2>1. ss[1] \in Seq(Token) /\ g[1] = <<>> \o ss[1] /\ 1 \in 1..n  BY <1>2, <1>2a, <2>0
    <2>2. g[1] = ss[1]  BY <2>1
    <2> DEFINE Flat(f) == f = [i \in 1..n |-> IF i = 1 THEN ss[i] ELSE f[i - 1] \o ss[i]]
    <2>3. \E f : Flat(f)
      <3>1. PICK f : f = [i \in 1..n |-> g[i]]  OBVIOUS
      <3>2. \A i \in 1..n : f[i] = IF i = 1 THEN ss[i] ELSE f[i - 1] \o ss[i]
        <4>1. TAKE i \in 1..n
        <4>2. CASE i = 1  BY <2>2, <3>1, <4>2
        <4>3. CASE i # 1
          <5>1. i - 1 \in 1..n  BY <4>3
          <5>2. f[i] = g[i] /\ f[i - 1] = g[i - 1] /\ g[i] = g[i - 1] \o ss[i]
            BY <1>2, <3>1, <5>1
          <5> QED  BY <4>3, <5>2
        <4> QED  BY <4>2, <4>3
      <3>3. f = [i \in 1..n |-> f[i]]  BY <3>1
      <3>4. Flat(f)  BY <3>2, <3>3
      <3> QED  BY <3>4
    <2> DEFINE flatten == CHOOSE f : Flat(f)
    <2>4. Flat(flatten)  BY <2>3
    <2>5. FlattenSeq(ss) = flatten[n]  BY <1>1, <1>4 DEF FlattenSeq
    <2> HIDE DEF flatten
    <2> DEFINE M == {m \in Nat : m + 1 <= n => flatten[m + 1] = g[m + 1]}
    <2>6. 0 \in M
      <3>1. flatten[1] = ss[1]  BY <2>1, <2>4
      <3> QED  BY <2>2, <3>1
    <2>7. ASSUME NEW m \in M PROVE m + 1 \in M
      <3>1. m \in Nat /\ m + 1 \in Nat  OBVIOUS
      <3>2. SUFFICES ASSUME (m + 1) + 1 <= n PROVE flatten[(m + 1) + 1] = g[(m + 1) + 1]
        BY <3>1
      <3>3. PICK k \in Nat : k = m + 1  BY <3>1
      <3>4. k + 1 \in 1..n /\ k + 1 # 1 /\ (k + 1) - 1 = k /\ k <= n  BY <3>1, <3>2, <3>3
      <3>5. flatten[k + 1] = flatten[k] \o ss[k + 1]  BY <2>4, <3>4
      <3>6. flatten[k] = g[k]  BY <3>1, <3>3, <3>4
      <3>7. g[k + 1] = g[k] \o ss[k + 1]  BY <1>2, <3>4
      <3> QED  BY <3>3, <3>5, <3>6, <3>7
    <2>8. M = Nat
      <3> HIDE DEF M
      <3>1. M \in SUBSET Nat  BY DEF M
      <3> QED  BY <2>6, <2>7, <3>1, SetInduction
    <2>9. PICK k \in Nat : k + 1 = n
      <3>1. n - 1 \in Nat /\ (n - 1) + 1 = n
        <4> n \in Nat /\ n # 0  BY <1>4
        <4> QED  OBVIOUS
      <3> QED  BY <3>1
    <2>10. k \in M  BY <2>8, <2>9
    <2>11. flatten[k + 1] = g[k + 1]  BY <2>9, <2>10
    <2> QED  BY <1>1, <2>5, <2>9, <2>11
  <1> QED  BY <1>3, <1>4

LEMMA SumsExist ==
    ASSUME NEW ss \in Seq(Seq(Token))
    PROVE  \E g : Sums(ss, g)
  <1>1. PICK n \in Nat : n = Len(ss)  OBVIOUS
  <1>2. \A i \in 1..n : ss[i] \in Seq(Token)  BY <1>1
  <1> DEFINE Upto(g, m) == /\ g \in [0..m -> Seq(Token)] /\ g[0] = <<>>
                           /\ \A i \in 1..m : g[i] = g[i - 1] \o ss[i]
             S == {m \in Nat : m <= n => \E g : Upto(g, m)}
  <1>3. 0 \in S
    <2>1. PICK g : g = [i \in 0..0 |-> <<>>]  OBVIOUS
    <2>2. g \in [0..0 -> Seq(Token)] /\ g[0] = <<>>  BY <2>1, Short
    <2>3. Upto(g, 0)  BY <2>2
    <2> QED  BY <2>3
  <1>4. ASSUME NEW m \in S PROVE m + 1 \in S
    <2>1. m \in Nat /\ m + 1 \in Nat  OBVIOUS
    <2>2. SUFFICES ASSUME m + 1 <= n PROVE \E g : Upto(g, m + 1)  BY <2>1
    <2>3. PICK g : Upto(g, m)
      <3>1. m <= n  BY <2>1, <2>2
      <3> QED  BY <3>1
    <2>4. g[m] \in Seq(Token) /\ ss[m + 1] \in Seq(Token)
      <3>1. m \in 0..m /\ m + 1 \in 1..n  BY <2>1, <2>2
      <3> QED  BY <1>2, <2>3, <3>1
    <2>5. PICK next \in Seq(Token) : next = g[m] \o ss[m + 1]  BY <2>4, Joined
    <2>6. PICK h : h = [i \in 0..(m + 1) |-> IF i = m + 1 THEN next ELSE g[i]]  OBVIOUS
    <2>7. (\A i \in 0..m : h[i] = g[i]) /\ h[m + 1] = next  BY <2>1, <2>6
    <2>8. h \in [0..(m + 1) -> Seq(Token)]
      <3>1. \A i \in 0..m : g[i] \in Seq(Token)  BY <2>3
      <3> QED  BY <2>1, <2>6, <3>1
    <2>9. h[0] = <<>>  BY <2>1, <2>3, <2>7
    <2>10. \A i \in 1..(m + 1) : h[i] = h[i - 1] \o ss[i]
      <3>1. TAKE i \in 1..(m + 1)
      <3>2. CASE i \in 1..m
        <4>1. i \in 0..m /\ i - 1 \in 0..m  BY <2>1, <3>2
        <4>2. g[i] = g[i - 1] \o ss[i]  BY <2>3, <3>2
        <4>3. h[i] = g[i] /\ h[i - 1] = g[i - 1]  BY <2>7, <4>1
        <4> QED  BY <4>2, <4>3
      <3>3. CASE i = m + 1
        <4>1. m \in 0..m /\ i - 1 = m  BY <2>1, <3>3
        <4> QED  BY <2>5, <2>7, <3>3, <4>1
      <3>4. i \in 1..m \/ i = m + 1  BY <2>1
      <3> QED  BY <3>2, <3>3, <3>4
    <2> QED  BY <2>8, <2>9, <2>10
  <1>5. S = Nat
    <2> HIDE DEF S
    <2>1. S \in SUBSET Nat  BY DEF S
    <2> QED  BY <1>3, <1>4, <2>1, SetInduction
  <1>6. \E g : Upto(g, n)
    <2>1. n \in S
      <3> HIDE DEF S
      <3> QED  BY <1>5
    <2>2. n <= n  OBVIOUS
    <2> QED  BY <2>1, <2>2
  <1> QED  BY <1>1, <1>6 DEF Sums

LEMMA Associates ==
    ASSUME NEW a \in Seq(Token), NEW b \in Seq(Token), NEW c \in Seq(Token)
    PROVE  (a \o b) \o c = a \o (b \o c) /\ a \o <<>> = a /\ <<>> \o a = a
  OBVIOUS

LEMMA FlatJoined ==
    ASSUME NEW ss \in Seq(Seq(Token)), NEW tt \in Seq(Seq(Token))
    PROVE  FlattenSeq(ss \o tt) = FlattenSeq(ss) \o FlattenSeq(tt)
  <1>1. PICK g : Sums(ss, g)  BY SumsExist
  <1>2. PICK h : Sums(tt, h)  BY SumsExist
  <1>3. PICK m \in Nat : m = Len(ss)  OBVIOUS
  <1>4. PICK n \in Nat : n = Len(tt)  OBVIOUS
  <1>5. PICK uu : uu = ss \o tt  OBVIOUS
  <1>5a. /\ uu \in Seq(Seq(Token)) /\ Len(uu) = m + n
         /\ \A i \in 1..(m + n) : uu[i] = IF i <= m THEN ss[i] ELSE tt[i - m]
    BY <1>3, <1>4, <1>5, ConcatProperties
  <1>5b. \A i \in 1..n : tt[i] \in Seq(Token)  BY <1>4
  <1>6. /\ Len(uu) = m + n /\ \A i \in 1..m : uu[i] = ss[i]
        /\ \A i \in 1..n : uu[m + i] = tt[i] /\ tt[i] \in Seq(Token)
    <2>1. \A i \in 1..m : i \in 1..(m + n) /\ i <= m  OBVIOUS
    <2>2. \A i \in 1..n : m + i \in 1..(m + n) /\ ~(m + i <= m) /\ (m + i) - m = i  OBVIOUS
    <2> QED  BY <1>5a, <1>5b, <2>1, <2>2
  <1>7. /\ g[0] = <<>> /\ (\A i \in 0..m : g[i] \in Seq(Token))
        /\ \A i \in 1..m : g[i] = g[i - 1] \o ss[i]
    BY <1>1, <1>3 DEF Sums
  <1>8. /\ h[0] = <<>> /\ (\A i \in 0..n : h[i] \in Seq(Token))
        /\ \A i \in 1..n : h[i] = h[i - 1] \o tt[i]
    BY <1>2, <1>4 DEF Sums
  <1>9. PICK k : k = [i \in 0..(m + n) |-> IF i <= m THEN g[i] ELSE g[m] \o h[i - m]]  OBVIOUS
  <1>10. \A i \in 0..n : k[m + i] = g[m] \o h[i]
    <2>1. TAKE i \in 0..n
    <2>2. g[m] \in Seq(Token) /\ m + i \in 0..(m + n)  BY <1>7
    <2>3. CASE i = 0
      <3>1. k[m + i] = g[m]  BY <1>9, <2>2, <2>3
      <3>2. g[m] \o h[i] = g[m]  BY <1>8, <2>2, <2>3, Associates
      <3> QED  BY <3>1, <3>2
    <2>4. CASE i # 0
      <3>1. ~(m + i <= m) /\ (m + i) - m = i  BY <2>4
      <3> QED  BY <1>9, <2>2, <3>1
    <2> QED  BY <2>3, <2>4
  <1>11. Sums(uu, k)
    <2>1. k \in [0..Len(uu) -> Seq(Token)]
      <3>1. ASSUME NEW i \in 0..(m + n) PROVE (IF i <= m THEN g[i] ELSE g[m] \o h[i - m]) \in Seq(Token)
        <4>1. g[m] \in Seq(Token)  BY <1>7
        <4>2. CASE i <= m  BY <1>7, <4>2
        <4>3. CASE ~(i <= m)
          <5>1. i - m \in 0..n  BY <4>3
          <5>2. h[i - m] \in Seq(Token)  BY <1>8, <5>1
          <5> QED  BY <4>1, <4>3, <5>2, Joined
        <4> QED  BY <4>2, <4>3
      <3> QED  BY <1>6, <1>9, <3>1
    <2>2. k[0] = <<>>  BY <1>7, <1>9
    <2>3. ASSUME NEW i \in 1..(m + n) PROVE k[i] = k[i - 1] \o uu[i]
      <3>1. CASE i <= m
        <4>1. i \in 1..m /\ k[i] = g[i] /\ k[i - 1] = g[i - 1]  BY <1>9, <3>1
        <4> QED  BY <1>6, <1>7, <4>1
      <3>2. CASE ~(i <= m)
        <4>1. PICK j \in 1..n : i = m + j /\ i - 1 = m + (j - 1) /\ j - 1 \in 0..n
          <5>1. i - m \in 1..n /\ i = m + (i - m) /\ i - 1 = m + ((i - m) - 1) /\ (i - m) - 1 \in 0..n
            BY <3>2
          <5> QED  BY <5>1
        <4>1a. j \in 0..n /\ j \in 1..n /\ m \in 0..m  OBVIOUS
        <4>2. k[i] = g[m] \o h[j] /\ k[i - 1] = g[m] \o h[j - 1]  BY <1>10, <4>1, <4>1a
        <4>3. uu[i] = tt[j] /\ tt[j] \in Seq(Token)  BY <1>6, <4>1
        <4>4. h[j] = h[j - 1] \o tt[j] /\ h[j - 1] \in Seq(Token) /\ g[m] \in Seq(Token)
          BY <1>7, <1>8, <4>1, <4>1a
        <4>5. g[m] \o (h[j - 1] \o tt[j]) = (g[m] \o h[j - 1]) \o tt[j]
          BY <4>3, <4>4, Associates, ZenonT(30)
        <4> QED  BY <4>2, <4>3, <4>4, <4>5
      <3> QED  BY <3>1, <3>2
    <2> QED  BY <1>6, <2>1, <2>2, <2>3 DEF Sums
  <1>12. FlattenSeq(uu) = k[m + n]  BY <1>5a, <1>6, <1>11, FlatIs
  <1>13. FlattenSeq(ss) = g[m] /\ FlattenSeq(tt) = h[n]  BY <1>1, <1>2, <1>3, <1>4, FlatIs
  <1>14. n \in 0..n  OBVIOUS
  <1> QED  BY <1>5, <1>10, <1>12, <1>13, <1>14

LEMMA FlatShort ==
    ASSUME NEW a \in Seq(Token)
    PROVE  FlattenSeq(<<a>>) = a
  <1>1. PICK ss \in Seq(Seq(Token)) : ss = <<a>>  BY Short
  <1>2. Len(ss) = 1 /\ ss[1] = a  BY <1>1
  <1>3. PICK g : g = [i \in 0..1 |-> IF i = 0 THEN <<>> ELSE a]  OBVIOUS
  <1>4. g[0] = <<>> /\ g[1] = a  BY <1>3
  <1>5. Sums(ss, g)
    <2>1. g \in [0..1 -> Seq(Token)]  BY <1>3, Short
    <2>2. g[1] = g[0] \o ss[1]  BY <1>2, <1>4, Associates
    <2>3. \A i \in 1..1 : i = 1  OBVIOUS
    <2> QED  BY <1>2, <1>4, <2>1, <2>2, <2>3 DEF Sums
  <1> QED  BY <1>1, <1>2, <1>4, <1>5, FlatIs

\* A callback, and what a sequence of them gave to the handler.
Callbacks == [st : {"start", "write", "end", "aborted"}, data : Seq(Token)]
DataOf(cs) == [i \in DOMAIN cs |-> cs[i].data]
GivenBy(cs) == FlattenSeq(DataOf(cs))

LEMMA DataTyped ==
    ASSUME NEW cs \in Seq(Callbacks)
    PROVE  DataOf(cs) \in Seq(Seq(Token)) /\ Len(DataOf(cs)) = Len(cs)
  <1>1. PICK n \in Nat : n = Len(cs) /\ DOMAIN cs = 1..n  OBVIOUS
  <1>2. \A i \in 1..n : cs[i].data \in Seq(Token)
    <2>1. \A i \in 1..n : cs[i] \in Callbacks  BY <1>1
    <2>2. \A c \in Callbacks : c.data \in Seq(Token)  BY DEF Callbacks
    <2> QED  BY <2>1, <2>2
  <1>3. DataOf(cs) \in [1..n -> Seq(Token)]  BY <1>1, <1>2 DEF DataOf
  <1> QED  BY <1>1, <1>3

LEMMA GivenMore ==
    ASSUME NEW cs \in Seq(Callbacks), NEW ds \in Seq(Callbacks)
    PROVE  /\ cs \o ds \in Seq(Callbacks) /\ GivenBy(cs) \in Seq(Token)
           /\ GivenBy(cs \o ds) = GivenBy(cs) \o GivenBy(ds)
  <1>1. DataOf(cs) \in Seq(Seq(Token)) /\ DataOf(ds) \in Seq(Seq(Token))  BY DataTyped
  <1>2. PICK es \in Seq(Callbacks) : es = cs \o ds  BY ConcatProperties
  <1>3. PICK m \in Nat : m = Len(cs) /\ DOMAIN cs = 1..m  OBVIOUS
  <1>4. PICK n \in Nat : n = Len(ds) /\ DOMAIN ds = 1..n  OBVIOUS
  <1>5. /\ Len(es) = m + n /\ DOMAIN es = 1..(m + n)
        /\ \A i \in 1..(m + n) : es[i] = IF i <= m THEN cs[i] ELSE ds[i - m]
    <2>1. /\ Len(es) = m + n
          /\ \A i \in 1..(m + n) : es[i] = IF i <= m THEN cs[i] ELSE ds[i - m]
      BY <1>2, <1>3, <1>4, ConcatProperties
    <2> QED  BY <2>1
  <1>6. PICK tt : tt = DataOf(cs) \o DataOf(ds)  OBVIOUS
  <1>7. /\ tt \in Seq(Seq(Token)) /\ Len(tt) = m + n
        /\ \A i \in 1..(m + n) : tt[i] = IF i <= m THEN DataOf(cs)[i] ELSE DataOf(ds)[i - m]
    <2>1. Len(DataOf(cs)) = m /\ Len(DataOf(ds)) = n  BY <1>3, <1>4, DataTyped
    <2> QED  BY <1>1, <1>6, <2>1, ConcatProperties
  <1>8. DataOf(es) \in Seq(Seq(Token)) /\ Len(DataOf(es)) = m + n  BY <1>2, <1>5, DataTyped
  <1>9. \A i \in 1..(m + n) : DataOf(es)[i] = tt[i]
    <2>1. TAKE i \in 1..(m + n)
    <2>2. DataOf(es)[i] = es[i].data  BY <1>5 DEF DataOf
    <2>3. CASE i <= m
      <3>1. i \in 1..m  BY <2>3
      <3>2. DataOf(cs)[i] = cs[i].data  BY <1>3, <3>1 DEF DataOf
      <3> QED  BY <1>5, <1>7, <2>2, <2>3, <3>2
    <2>4. CASE ~(i <= m)
      <3>1. i - m \in 1..n  BY <2>4
      <3>2. DataOf(ds)[i - m] = ds[i - m].data  BY <1>4, <3>1 DEF DataOf
      <3> QED  BY <1>5, <1>7, <2>2, <2>4, <3>2
    <2> QED  BY <2>3, <2>4
  <1>10. DataOf(es) = tt  BY <1>7, <1>8, <1>9, SeqEqual
  <1>11. GivenBy(cs) \in Seq(Token)
    <2>1. CASE Len(DataOf(cs)) # 0  BY <1>1, <2>1, Flattened DEF GivenBy
    <2>2. CASE Len(DataOf(cs)) = 0
      <3>1. DataOf(cs) = <<>>  BY <1>1, <2>2, EmptySeq
      <3> QED  BY <2>2, <3>1, Short DEF GivenBy, FlattenSeq
    <2> QED  BY <2>1, <2>2
  <1>12. GivenBy(es) = GivenBy(cs) \o GivenBy(ds)
    BY <1>1, <1>6, <1>10, FlatJoined DEF GivenBy
  <1> QED  BY <1>2, <1>11, <1>12

LEMMA GivenOne ==
    ASSUME NEW c \in Callbacks
    PROVE  <<c>> \in Seq(Callbacks) /\ GivenBy(<<c>>) = c.data
  <1>1. PICK cs \in Seq(Callbacks) : cs = <<c>>  BY Short
  <1>2. Len(cs) = 1 /\ cs[1] = c /\ DOMAIN cs = {1}  BY <1>1
  <1>3. c.data \in Seq(Token)  BY DEF Callbacks
  <1>4. DataOf(cs) = <<c.data>>
    <2>1. DataOf(cs) \in Seq(Seq(Token)) /\ Len(DataOf(cs)) = 1  BY <1>2, DataTyped
    <2>2. DataOf(cs)[1] = c.data  BY <1>2 DEF DataOf
    <2>3. PICK tt \in Seq(Seq(Token)) : tt = <<c.data>>  BY <1>3, Short
    <2>4. Len(tt) = 1 /\ tt[1] = c.data  BY <2>3
    <2>5. \A i \in 1..1 : DataOf(cs)[i] = tt[i]  BY <2>2, <2>4
    <2> QED  BY <2>1, <2>3, <2>4, <2>5, SeqEqual
  <1> QED  BY <1>1, <1>3, <1>4, FlatShort DEF GivenBy

LEMMA GivenNone == GivenBy(<<>>) = <<>>
  <1>1. DataOf(<<>>) = <<>>
    <2>1. <<>> \in Seq(Callbacks)  BY Short
    <2>2. DataOf(<<>>) \in Seq(Seq(Token)) /\ Len(DataOf(<<>>)) = 0  BY <2>1, DataTyped
    <2> QED  BY <2>2, EmptySeq
  <1> QED  BY <1>1 DEF GivenBy, FlattenSeq

LEMMA GivenIs == Given = GivenBy(calls)
  BY DEF Given, GivenBy, DataOf

LEMMA CallbackTyped ==
    ASSUME NEW st \in {"start", "write", "end", "aborted"}, NEW data \in Seq(Token)
    PROVE  /\ Called(st, data) \in Callbacks /\ Called(st, data).st = st
           /\ Called(st, data).data = data
  BY DEF Called, Callbacks

\* One more callback.
OneMore(cs, st, data) == cs \o <<Called(st, data)>>
Adds(es, cs, st, data) ==
    /\ es \in Seq(Callbacks) /\ Len(es) = Len(cs) + 1
    /\ (\A i \in 1..Len(cs) : es[i] = cs[i]) /\ es[Len(cs) + 1] = Called(st, data)
    /\ GivenBy(es) = GivenBy(cs) \o data

LEMMA GivenAppend ==
    ASSUME NEW cs \in Seq(Callbacks), NEW st \in {"start", "write", "end", "aborted"},
           NEW data \in Seq(Token)
    PROVE  Adds(OneMore(cs, st, data), cs, st, data)
  <1>1. PICK c \in Callbacks : c = Called(st, data) /\ c.data = data  BY CallbackTyped
  <1>2. PICK ds \in Seq(Callbacks) : ds = <<c>> /\ GivenBy(ds) = data  BY <1>1, GivenOne
  <1>3. Len(ds) = 1 /\ ds[1] = c  BY <1>2
  <1>4. /\ cs \o ds \in Seq(Callbacks) /\ Len(cs \o ds) = Len(cs) + 1
        /\ (\A i \in 1..Len(cs) : (cs \o ds)[i] = cs[i]) /\ (cs \o ds)[Len(cs) + 1] = c
    <2>1. /\ cs \o ds \in Seq(Callbacks) /\ Len(cs \o ds) = Len(cs) + Len(ds)
          /\ \A i \in 1..Len(cs) + Len(ds) : (cs \o ds)[i] = IF i <= Len(cs) THEN cs[i] ELSE ds[i - Len(cs)]
      BY ConcatProperties
    <2>2. Len(cs) \in Nat  OBVIOUS
    <2> QED  BY <1>3, <2>1, <2>2
  <1>5. GivenBy(cs \o ds) = GivenBy(cs) \o data  BY <1>2, GivenMore
  <1>6. Adds(cs \o ds, cs, st, data)  BY <1>1, <1>4, <1>5 DEF Adds
  <1>7. cs \o ds = OneMore(cs, st, data)  BY <1>1, <1>2 DEF OneMore
  <1> QED  BY <1>6, <1>7

-----------------------------------------------------------------------------
(* Where the parser stands in the peer's tokens.                             *)

\* The tokens that have not been read.
Ahead == Waiting \o left

\* `a' begins with what follows the first k tokens of `g'.
Rest(a, g, k) == Len(g) - k <= Len(a) /\ \A j \in (k + 1)..Len(g) : a[j - k] = g[j]

\* What follows the line that announces a file, and how a request begins.
Heading(r) == (<<"type", "">> \o r.file) \o Delim
Opening(r) ==
    IF r.kind = "raw" THEN <<"request", "length", "">> \o r.file
    ELSE IF IsForm(r) THEN <<"request", "form">> ELSE <<"request">>

\* Every announcement of a file is followed by the file.
Followed(a, i, g) == i + Len(g) <= Len(a) /\ \A j \in 1..Len(g) : a[i + j] = g[j]
Marked(a, r) == \A i \in 1..Len(a) : a[i] = "file" => Followed(a, i, Heading(r))

\* The bytes a file may hold.
Plain == {"x", "y", "cr", "lf"}

LEMMA FileBytes ==
    ASSUME NEW r \in Requests
    PROVE  r.file \in Seq(Plain)
  <1>1. \A n \in Nat : Image(n) \in Seq(Plain)
    <2>1. TAKE n \in Nat
    <2>2. \A i \in 1..n : (IF i % 2 = 0 THEN "y" ELSE "x") \in Plain  BY DEF Plain
    <2>3. Image(n) \in [1..n -> Plain]  BY <2>2 DEF Image
    <2> QED  BY <2>1, <2>3
  <1>2. \A f \in Contents : f \in Seq(Plain)
    <2>1. TAKE f \in Contents
    <2>2. PICK n \in 0..MaxFile : f \in [1..n -> {"x", "cr", "lf"}]  BY DEF Contents
    <2>3. n \in Nat  BY ServerAssumption DEF ServerAssumption
    <2>4. {"x", "cr", "lf"} \subseteq Plain  BY DEF Plain
    <2>5. f \in [1..n -> Plain]  BY <2>2, <2>4
    <2> QED  BY <2>3, <2>5
  <1>3. <<>> \in Seq(Plain) /\ <<"x", "y">> \in Seq(Plain) /\ <<"cr", "x">> \in Seq(Plain)
    <2>1. "x" \in Plain /\ "y" \in Plain /\ "cr" \in Plain  BY DEF Plain
    <2> QED  BY <2>1, Short
  <1>4. 0..MaxFile \subseteq Nat /\ Images \subseteq Nat
    BY ServerAssumption DEF ServerAssumption
  <1>5. \/ r.file \in {<<>>, <<"x", "y">>, <<"cr", "x">>}
        \/ r.file \in Contents
        \/ \E n \in 0..MaxFile \cup Images : r.file = Image(n)
    <2>1. CASE r \in {Request("page", <<>>, <<>>), Request("missing", <<>>, <<>>),
                      Request("plain", <<>>, <<"x", "y">>)}
      BY <2>1 DEF Request
    <2>2. CASE \E n \in 0..MaxFile : r = Request("raw", <<>>, Image(n))
      BY <2>2 DEF Request
    <2>3. CASE \E p \in {<<"field">>, <<"field", "field">>} : r = Request("fields", p, <<>>)
      BY <2>3 DEF Request
    <2>4. CASE \E f \in Contents : r = Request("upload", <<"file">>, f)
      BY <2>4 DEF Request
    <2>5. CASE \E p \in {<<"field", "file">>, <<"file", "field">>} : r = Request("form", p, <<"cr", "x">>)
      BY <2>5 DEF Request
    <2>6. CASE \E n \in Images : r = Request("update", <<"file">>, Image(n))
      <3>1. PICK n \in Images : r = Request("update", <<"file">>, Image(n))  BY <2>6
      <3>2. r.file = Image(n)  BY <3>1 DEF Request
      <3> QED  BY <3>1, <3>2
    <2> QED  BY <2>1, <2>2, <2>3, <2>4, <2>5, <2>6 DEF Requests
  <1> QED  BY <1>1, <1>2, <1>3, <1>4, <1>5

LEMMA PlainTokens ==
    ASSUME NEW f \in Seq(Plain)
    PROVE  f \in Seq(Token) /\ \A i \in 1..Len(f) : f[i] \in Plain /\ f[i] # "mark" /\ f[i] # "file"
  <1>1. \A i \in 1..Len(f) : f[i] \in Plain  OBVIOUS
  <1>2. \A b \in Plain : b \in Token /\ b # "mark" /\ b # "file"  BY DEF Plain, Token, Bytes
  <1>3. \A i \in 1..Len(f) : f[i] \in Token  BY <1>1, <1>2
  <1>4. f \in [1..Len(f) -> Token]  BY <1>3
  <1>5. Len(f) \in Nat  OBVIOUS
  <1> QED  BY <1>1, <1>2, <1>4, <1>5

\* Two sequences, one after the other.
LEMMA Joins ==
    ASSUME NEW s \in Seq(Token), NEW m \in Nat, m = Len(s),
           NEW t \in Seq(Token), NEW n \in Nat, n = Len(t), NEW u, u = s \o t
    PROVE  /\ u \in Seq(Token) /\ Len(u) = m + n
           /\ \A i \in 1..m : u[i] = s[i]
           /\ \A i \in 1..n : u[m + i] = t[i]
  <1>1. /\ u \in Seq(Token) /\ Len(u) = m + n
        /\ \A i \in 1..(m + n) : u[i] = IF i <= m THEN s[i] ELSE t[i - m]
    BY ConcatProperties
  <1>2. \A i \in 1..m : i \in 1..(m + n) /\ i <= m  OBVIOUS
  <1>3. \A i \in 1..n : m + i \in 1..(m + n) /\ ~(m + i <= m) /\ (m + i) - m = i  OBVIOUS
  <1> QED  BY <1>1, <1>2, <1>3

LEMMA HeadingIs ==
    ASSUME NEW r \in Requests, NEW L \in Nat, L = Len(r.file)
    PROVE  LET g == Heading(r)
           IN  /\ g \in Seq(Token) /\ Len(g) = L + 5 /\ g[1] = "type" /\ g[2] = ""
               /\ \A i \in 1..L : g[2 + i] = r.file[i] /\ r.file[i] \in Plain
               /\ g[L + 3] = "cr" /\ g[L + 4] = "lf" /\ g[L + 5] = "mark"
  <1>0. PICK f \in Seq(Plain) : f = r.file  BY FileBytes
  <1>1. f \in Seq(Token) /\ L = Len(f) /\ \A i \in 1..L : f[i] \in Plain
    BY <1>0, PlainTokens
  <1>2. PICK h \in Seq(Token) : h = <<"type", "">>  BY TokenNames, Short
  <1>3. Len(h) = 2 /\ h[1] = "type" /\ h[2] = ""  BY <1>2
  <1>4. PICK s \in Seq(Token) : s = h \o f  BY <1>1, Joined
  <1>5. /\ Len(s) = 2 + L /\ (\A i \in 1..2 : s[i] = h[i])
        /\ \A i \in 1..L : s[2 + i] = f[i]
    <2>1. PICK m \in Nat : m = 2  OBVIOUS
    <2>2. m = Len(h)  BY <1>3, <2>1
    <2>3. /\ Len(s) = m + L /\ (\A i \in 1..m : s[i] = h[i])
          /\ \A i \in 1..L : s[m + i] = f[i]
      BY <1>1, <1>4, <2>2, Joins
    <2> QED  BY <2>1, <2>3
  <1>6. PICK d \in Seq(Token) : d = Delim  BY DelimTyped
  <1>7. Len(d) = 3 /\ d[1] = "cr" /\ d[2] = "lf" /\ d[3] = "mark"  BY <1>6 DEF Delim
  <1>8. PICK g \in Seq(Token) : g = s \o d  BY Joined
  <1>9. /\ Len(g) = (2 + L) + 3 /\ (\A i \in 1..(2 + L) : g[i] = s[i])
        /\ \A i \in 1..3 : g[(2 + L) + i] = d[i]
    <2>1. PICK m \in Nat : m = 2 + L  OBVIOUS
    <2>2. PICK n \in Nat : n = 3  OBVIOUS
    <2>3. m = Len(s) /\ n = Len(d)  BY <1>5, <1>7, <2>1, <2>2
    <2>4. /\ Len(g) = m + n /\ (\A i \in 1..m : g[i] = s[i])
          /\ \A i \in 1..n : g[m + i] = d[i]
      BY <1>8, <2>3, Joins
    <2> QED  BY <2>1, <2>2, <2>4
  <1>10. g = Heading(r)  BY <1>0, <1>2, <1>4, <1>6, <1>8 DEF Heading
  <1>11. 1 \in 1..2 /\ 2 \in 1..2 /\ 1 \in 1..(2 + L) /\ 2 \in 1..(2 + L)  OBVIOUS
  <1>12. g[1] = "type" /\ g[2] = ""  BY <1>3, <1>5, <1>9, <1>11
  <1>13. \A i \in 1..L : g[2 + i] = f[i]
    <2>1. TAKE i \in 1..L
    <2>2. 2 + i \in 1..(2 + L)  OBVIOUS
    <2> QED  BY <1>5, <1>9, <2>2
  <1>14. g[L + 3] = "cr" /\ g[L + 4] = "lf" /\ g[L + 5] = "mark"
    <2>1. /\ 1 \in 1..3 /\ 2 \in 1..3 /\ 3 \in 1..3
          /\ (2 + L) + 1 = L + 3 /\ (2 + L) + 2 = L + 4 /\ (2 + L) + 3 = L + 5
      OBVIOUS
    <2>2. g[(2 + L) + 1] = d[1] /\ g[(2 + L) + 2] = d[2] /\ g[(2 + L) + 3] = d[3]
      BY <1>9, <2>1
    <2> QED  BY <1>7, <2>1, <2>2
  <1>15. Len(g) = L + 5  BY <1>9
  <1> QED  BY <1>0, <1>1, <1>10, <1>12, <1>13, <1>14, <1>15

LEMMA OpeningIs ==
    ASSUME NEW r \in Requests, NEW L \in Nat, L = Len(r.file)
    PROVE  LET g == Opening(r)
           IN  /\ g \in Seq(Token) /\ g[1] = "request"
               /\ r.kind = "raw" => /\ Len(g) = L + 3 /\ g[2] = "length" /\ g[3] = ""
                                    /\ \A i \in 1..L : g[3 + i] = r.file[i] /\ r.file[i] \in Plain
               /\ IsForm(r) => Len(g) = 2 /\ g[2] = "form"
               /\ r.kind # "raw" /\ ~IsForm(r) => Len(g) = 1
  <1>0. PICK f \in Seq(Plain) : f = r.file  BY FileBytes
  <1>1. f \in Seq(Token) /\ L = Len(f) /\ \A i \in 1..L : f[i] \in Plain
    BY <1>0, PlainTokens
  <1>2. CASE r.kind = "raw"
    <2>1. PICK h \in Seq(Token) : h = <<"request", "length", "">>  BY TokenNames, Short
    <2>2. Len(h) = 3 /\ h[1] = "request" /\ h[2] = "length" /\ h[3] = ""  BY <2>1
    <2>3. PICK g \in Seq(Token) : g = h \o f  BY <1>1, Joined
    <2>4. /\ Len(g) = 3 + L /\ (\A i \in 1..3 : g[i] = h[i])
          /\ \A i \in 1..L : g[3 + i] = f[i]
      <3>1. PICK m \in Nat : m = 3  OBVIOUS
      <3>2. m = Len(h)  BY <2>2, <3>1
      <3>3. /\ Len(g) = m + L /\ (\A i \in 1..m : g[i] = h[i])
            /\ \A i \in 1..L : g[m + i] = f[i]
        BY <1>1, <2>3, <3>2, Joins
      <3> QED  BY <3>1, <3>3
    <2>5. g = Opening(r)  BY <1>0, <1>2, <2>1, <2>3 DEF Opening
    <2>6. 1 \in 1..3 /\ 2 \in 1..3 /\ 3 \in 1..3 /\ 3 + L = L + 3  OBVIOUS
    <2>7. ~IsForm(r)  BY <1>2 DEF IsForm
    <2> QED  BY <1>0, <1>1, <1>2, <2>2, <2>4, <2>5, <2>6, <2>7
  <1>3. CASE r.kind # "raw" /\ IsForm(r)
    <2>1. Opening(r) = <<"request", "form">>  BY <1>3 DEF Opening
    <2>2. <<"request", "form">> \in Seq(Token)  BY TokenNames, Short
    <2> QED  BY <1>3, <2>1, <2>2
  <1>4. CASE r.kind # "raw" /\ ~IsForm(r)
    <2>1. Opening(r) = <<"request">>  BY <1>4 DEF Opening
    <2>2. <<"request">> \in Seq(Token)  BY TokenNames, Short
    <2>3. PICK g \in Seq(Token) : g = <<"request">>  BY <2>2
    <2>4. Len(g) = 1 /\ g[1] = "request"  BY <2>3
    <2> QED  BY <1>4, <2>1, <2>3, <2>4
  <1> QED  BY <1>2, <1>3, <1>4

LEMMA Unmarked ==
    ASSUME NEW a \in Seq(Token), NEW r, \A i \in 1..Len(a) : a[i] # "file"
    PROVE  Marked(a, r)
  BY DEF Marked

LEMMA MarkedJoined ==
    ASSUME NEW a \in Seq(Token), NEW b \in Seq(Token), NEW r \in Requests, Marked(a, r), Marked(b, r)
    PROVE  Marked(a \o b, r)
  <1>1. PICK m \in Nat : m = Len(a)  OBVIOUS
  <1>2. PICK n \in Nat : n = Len(b)  OBVIOUS
  <1>3. PICK c \in Seq(Token) : c = a \o b  BY Joined
  <1>4. /\ Len(c) = m + n /\ (\A i \in 1..m : c[i] = a[i])
        /\ \A i \in 1..n : c[m + i] = b[i]
    BY <1>1, <1>2, <1>3, Joins
  <1>5. PICK l \in Nat : l = Len(r.file)
    <2>1. PICK f \in Seq(Plain) : f = r.file  BY FileBytes
    <2>2. Len(f) \in Nat  OBVIOUS
    <2> QED  BY <2>1, <2>2
  <1>6. PICK g \in Seq(Token) : g = Heading(r)  BY <1>5, HeadingIs
  <1>7. PICK h \in Nat : h = Len(g)  OBVIOUS
  <1>8. SUFFICES ASSUME NEW i \in 1..(m + n), c[i] = "file"
                 PROVE  i + h <= m + n /\ \A j \in 1..h : c[i + j] = g[j]
    BY <1>3, <1>4, <1>6, <1>7 DEF Marked, Followed
  <1>9. CASE i \in 1..m
    <2>1. a[i] = "file"  BY <1>4, <1>8, <1>9
    <2>2. i + h <= m /\ \A j \in 1..h : a[i + j] = g[j]
      BY <1>1, <1>6, <1>7, <1>9, <2>1 DEF Marked, Followed
    <2>3. \A j \in 1..h : i + j \in 1..m  BY <1>9, <2>2
    <2>4. \A j \in 1..h : c[i + j] = g[j]
      <3>1. TAKE j \in 1..h
      <3>2. PICK x \in 1..m : x = i + j  BY <2>3
      <3>3. c[x] = a[x]  BY <1>4
      <3> QED  BY <2>2, <3>2, <3>3
    <2> QED  BY <2>2, <2>4
  <1>10. CASE i \notin 1..m
    <2>1. PICK k \in 1..n : i = m + k
      <3>1. i - m \in 1..n /\ i = m + (i - m)  BY <1>10
      <3> QED  BY <3>1
    <2>2. b[k] = "file"  BY <1>4, <1>8, <2>1
    <2>3. k + h <= n /\ \A j \in 1..h : b[k + j] = g[j]
      BY <1>2, <1>6, <1>7, <2>2 DEF Marked, Followed
    <2>4. \A j \in 1..h : k + j \in 1..n /\ m + (k + j) = i + j  BY <2>1, <2>3
    <2>5. \A j \in 1..h : c[i + j] = g[j]
      <3>1. TAKE j \in 1..h
      <3>2. PICK x \in 1..n : x = k + j  BY <2>4
      <3>3. c[m + x] = b[x] /\ m + x = i + j  BY <1>4, <2>4, <3>2
      <3> QED  BY <2>3, <3>2, <3>3
    <2> QED  BY <2>1, <2>3, <2>5
  <1> QED  BY <1>9, <1>10

LEMMA MarkedFlat ==
    ASSUME NEW ss \in Seq(Seq(Token)), NEW r \in Requests,
           \A i \in 1..Len(ss) : Marked(ss[i], r)
    PROVE  FlattenSeq(ss) \in Seq(Token) /\ Marked(FlattenSeq(ss), r)
  <1>1. PICK g : Sums(ss, g)  BY SumsExist
  <1>2. PICK n \in Nat : n = Len(ss)  OBVIOUS
  <1>3. \A i \in 1..n : ss[i] \in Seq(Token)  BY <1>2
  <1>4. /\ \A i \in 0..n : g[i] \in Seq(Token)
        /\ g[0] = <<>> /\ \A i \in 1..n : g[i] = g[i - 1] \o ss[i]
    BY <1>1, <1>2 DEF Sums
  <1> DEFINE S == {m \in Nat : m <= n => Marked(g[m], r)}
  <1>5. 0 \in S
    <2>1. Len(<<>>) = 0 /\ <<>> \in Seq(Token)  BY Short
    <2>2. \A i \in 1..0 : FALSE  OBVIOUS
    <2>3. Marked(<<>>, r)  BY <2>1, <2>2, Unmarked
    <2> QED  BY <1>4, <2>3
  <1>6. ASSUME NEW m \in S PROVE m + 1 \in S
    <2>1. m \in Nat /\ m + 1 \in Nat  OBVIOUS
    <2>2. SUFFICES ASSUME m + 1 <= n PROVE Marked(g[m + 1], r)  BY <2>1
    <2>3. PICK k \in 1..n : k = m + 1  BY <2>1, <2>2
    <2>4. k - 1 = m /\ m \in 0..n  BY <2>1, <2>3
    <2>5. Marked(g[m], r) /\ Marked(ss[k], r)  BY <1>2, <2>4
    <2>6. Marked(g[m] \o ss[k], r)  BY <1>3, <1>4, <2>4, <2>5, MarkedJoined
    <2>7. g[k] = g[m] \o ss[k]  BY <1>4, <2>4
    <2> QED  BY <2>3, <2>6, <2>7
  <1>7. S = Nat
    <2> HIDE DEF S
    <2>1. S \in SUBSET Nat  BY DEF S
    <2> QED  BY <1>5, <1>6, <2>1, SetInduction
  <1>8. Marked(g[n], r)
    <2>1. n \in S
      <3> HIDE DEF S
      <3> QED  BY <1>7
    <2> QED  BY <2>1
  <1>9. FlattenSeq(ss) = g[n] /\ g[n] \in Seq(Token)  BY <1>1, <1>2, <1>4, FlatIs
  <1> QED  BY <1>8, <1>9

\* A file is announced once, and is what follows.
LEMMA FileMarked ==
    ASSUME NEW r \in Requests, NEW t \in Token, t # "file"
    PROVE  LET p == <<"file", "type", "">> \o r.file \o Delim \o <<t>>
           IN  p \in Seq(Token) /\ Marked(p, r)
  <1>1. PICK f \in Seq(Plain) : f = r.file  BY FileBytes
  <1>2. PICK l \in Nat : l = Len(f)  OBVIOUS
  <1>3. f \in Seq(Token) /\ l = Len(r.file)  BY <1>1, <1>2, PlainTokens
  <1>4. PICK g \in Seq(Token) :
           /\ g = Heading(r) /\ Len(g) = l + 5 /\ g[1] = "type" /\ g[2] = ""
           /\ \A j \in 1..l : g[2 + j] = f[j] /\ f[j] \in Plain
           /\ g[l + 3] = "cr" /\ g[l + 4] = "lf" /\ g[l + 5] = "mark"
    BY <1>1, <1>3, HeadingIs
  <1>4a. Len(g) = l + 5 /\ g[1] = "type" /\ g[2] = ""  BY <1>4
  <1>4b. g[l + 3] = "cr" /\ g[l + 4] = "lf" /\ g[l + 5] = "mark"  BY <1>4
  <1>4d. Len(g) = l + 5  BY <1>4
  <1>4c. f \in Seq(Token)  BY <1>3
  <1>6. PICK e \in Seq(Token) : e = <<t>> /\ Len(e) = 1 /\ e[1] = t
    <2>1. <<t>> \in Seq(Token)  BY Short
    <2> QED  BY <2>1
  <1>7. PICK h \in Seq(Token) : h = <<"file", "type", "">> /\ Len(h) = 3
    <2>1. <<"file", "type", "">> \in Seq(Token)  BY TokenNames, Short
    <2> QED  BY <2>1
  <1>8. PICK s \in Seq(Token) : s = h \o f  BY <1>3, Joined
  <1>9. PICK d \in Seq(Token) : d = Delim /\ Len(d) = 3  BY DelimTyped
  <1>10. PICK u \in Seq(Token) : u = s \o d  BY Joined
  <1>11. PICK p \in Seq(Token) : p = u \o e  BY Joined
    <1>13. PICK three \in Nat : three = 3  OBVIOUS
  <1>14. PICK one \in Nat : one = 1  OBVIOUS
  <1>15. /\ Len(s) = three + l /\ (\A j \in 1..three : s[j] = h[j])
         /\ \A j \in 1..l : s[three + j] = f[j]
    <2>1. three = Len(h)  BY <1>7, <1>13
    <2> QED  BY <1>2, <1>4c, <1>8, <2>1, Joins
  <1>16. PICK m \in Nat : m = three + l  OBVIOUS
  <1>17. /\ Len(u) = m + three /\ (\A j \in 1..m : u[j] = s[j])
         /\ \A j \in 1..three : u[m + j] = d[j]
    <2>1. m = Len(s) /\ three = Len(d)  BY <1>9, <1>13, <1>15, <1>16
    <2> QED  BY <1>10, <2>1, Joins
  <1>18. PICK n \in Nat : n = m + three  OBVIOUS
  <1>19. /\ Len(p) = n + one /\ (\A j \in 1..n : p[j] = u[j])
         /\ \A j \in 1..one : p[n + j] = e[j]
    <2>1. n = Len(u) /\ one = Len(e)  BY <1>6, <1>14, <1>17, <1>18
    <2> QED  BY <1>11, <2>1, Joins
  <1>20. n = l + 6 /\ Len(p) = l + 7  BY <1>13, <1>14, <1>16, <1>18, <1>19
  <1>21. p[1] = "file" /\ p[2] = "type" /\ p[3] = ""
    <2>1. h[1] = "file" /\ h[2] = "type" /\ h[3] = ""  BY <1>7
    <2>2. \A j \in 1..3 : j \in 1..three /\ j \in 1..m /\ j \in 1..n
      BY <1>13, <1>16, <1>18
    <2>3. \A j \in 1..3 : p[j] = h[j]  BY <1>15, <1>17, <1>19, <2>2
    <2>4. 1 \in 1..3 /\ 2 \in 1..3 /\ 3 \in 1..3  OBVIOUS
    <2>5. p[1] = h[1] /\ p[2] = h[2] /\ p[3] = h[3]  BY <2>3, <2>4
    <2> QED  BY <2>1, <2>5
  <1>22. \A j \in 1..l : p[3 + j] = f[j]
    <2>1. TAKE j \in 1..l
    <2>2. three + j \in 1..m /\ three + j \in 1..n /\ three + j = 3 + j  BY <1>13, <1>16, <1>18
    <2> QED  BY <1>15, <1>17, <1>19, <2>2
  <1>23. p[l + 4] = "cr" /\ p[l + 5] = "lf" /\ p[l + 6] = "mark"
    <2>1. d[1] = "cr" /\ d[2] = "lf" /\ d[3] = "mark"  BY <1>9 DEF Delim
    <2>2. \A j \in 1..3 : j \in 1..three /\ m + j \in 1..n /\ m + j = l + (3 + j)
      BY <1>13, <1>16, <1>18
    <2>3. \A j \in 1..3 : p[m + j] = d[j]  BY <1>17, <1>19, <2>2
    <2>4. m + 1 = l + 4 /\ m + 2 = l + 5 /\ m + 3 = l + 6  BY <1>13, <1>16
    <2>5. 1 \in 1..3 /\ 2 \in 1..3 /\ 3 \in 1..3  OBVIOUS
    <2>6. p[m + 1] = d[1] /\ p[m + 2] = d[2] /\ p[m + 3] = d[3]  BY <2>3, <2>5
    <2> QED  BY <2>1, <2>4, <2>6
  <1>24. p[l + 7] = t
    <2>1. 1 \in 1..one /\ n + 1 = l + 7  BY <1>14, <1>20
    <2> QED  BY <1>6, <1>19, <2>1
  <1>25. \A j \in 1..(l + 5) : p[1 + j] = g[j] /\ g[j] # "file"
    <2>1. TAKE j \in 1..(l + 5)
    <2>2. CASE j \in 1..2
      <3>1. j = 1 \/ j = 2  BY <2>2
      <3>2. p[1 + 1] = g[1] /\ p[1 + 2] = g[2]
        <4>1. 1 + 1 = 2 /\ 1 + 2 = 3  OBVIOUS
        <4>2. p[2] = g[1] /\ p[3] = g[2]  BY <1>4a, <1>21
        <4> QED  BY <4>1, <4>2
      <3>3. g[1] # "file" /\ g[2] # "file"  BY <1>4a
      <3> QED  BY <3>1, <3>2, <3>3
    <2>3. CASE j \in 3..(l + 2)
      <3>1. PICK k \in 1..l : j = 2 + k /\ 1 + j = 3 + k
        <4>1. j - 2 \in 1..l /\ j = 2 + (j - 2) /\ 1 + j = 3 + (j - 2)  BY <2>3
        <4> QED  BY <4>1
      <3>2. g[j] = f[k] /\ p[1 + j] = f[k] /\ f[k] # "file"
        BY <1>2, <1>4, <1>22, <3>1, PlainTokens
      <3> QED  BY <3>2
    <2>4. CASE j \in (l + 3)..(l + 5)
      <3>1. j = l + 3 \/ j = l + 4 \/ j = l + 5  BY <2>4
      <3>2. 1 + (l + 3) = l + 4 /\ 1 + (l + 4) = l + 5 /\ 1 + (l + 5) = l + 6  OBVIOUS
      <3>3. /\ p[1 + (l + 3)] = "cr" /\ p[1 + (l + 4)] = "lf" /\ p[1 + (l + 5)] = "mark"
        BY <1>23, <3>2
      <3> QED  BY <1>4b, <3>1, <3>3
    <2> QED  BY <2>2, <2>3, <2>4
  <1>26. ASSUME NEW j \in 1..Len(p), p[j] = "file" PROVE j = 1
    <2>1. CASE j \in 2..(l + 6)
      <3>1. PICK k \in 1..(l + 5) : j = 1 + k
        <4>1. j - 1 \in 1..(l + 5) /\ j = 1 + (j - 1)  BY <2>1
        <4> QED  BY <4>1
      <3> QED  BY <1>25, <1>26, <3>1
    <2>2. CASE j = l + 7  BY <1>24, <1>26, <2>2
    <2>3. j = 1 \/ j \in 2..(l + 6) \/ j = l + 7  BY <1>20
    <2> QED  BY <2>1, <2>2, <2>3
  <1>27. Followed(p, 1, g)
    <2>1. 1 + Len(g) <= Len(p)  BY <1>4d, <1>20
    <2>2. \A j \in 1..Len(g) : p[1 + j] = g[j]  BY <1>4a, <1>25
    <2> QED  BY <2>1, <2>2 DEF Followed
  <1>28. Marked(p, r)  BY <1>4, <1>26, <1>27 DEF Marked
  <1>29. p = <<"file", "type", "">> \o r.file \o Delim \o <<t>>
    BY <1>1, <1>6, <1>7, <1>8, <1>9, <1>10, <1>11
  <1> QED  BY <1>28, <1>29

LEMMA FieldMarked ==
    ASSUME NEW r \in Requests, NEW t \in {"last", "bound"}
    PROVE  LET a == <<"field", "", "value", t>>
           IN  a \in Seq(Token) /\ Marked(a, r)
  <1>1. <<"field", "", "value", t>> \in Seq(Token)  BY TokenNames, Short
  <1>2. PICK a \in Seq(Token) : a = <<"field", "", "value", t>>  BY <1>1
  <1>3. Len(a) = 4 /\ a[1] = "field" /\ a[2] = "" /\ a[3] = "value" /\ a[4] = t  BY <1>2
  <1>4. \A j \in 1..4 : j = 1 \/ j = 2 \/ j = 3 \/ j = 4  OBVIOUS
  <1>5. t # "file"  OBVIOUS
  <1>6. \A j \in 1..Len(a) : a[j] # "file"  BY <1>3, <1>4, <1>5
  <1> QED  BY <1>2, <1>6, Unmarked

LEMMA PartMarked ==
    ASSUME NEW r \in Requests, NEW i \in DOMAIN r.parts
    PROVE  PartTokens(r, i) \in Seq(Token) /\ Marked(PartTokens(r, i), r)
  <1>1. CASE r.parts[i] = "field"
    <2>1. PICK t \in {"last", "bound"} : PartTokens(r, i) = <<"field", "", "value", t>>
      BY <1>1 DEF PartTokens
    <2> QED  BY <2>1, FieldMarked
  <1>2. CASE r.parts[i] # "field"
    <2>1. PICK t \in Token : /\ t # "file"
                             /\ PartTokens(r, i) = <<"file", "type", "">> \o r.file \o Delim \o <<t>>
      BY <1>2, TokenNames DEF PartTokens
    <2> QED  BY <2>1, FileMarked
  <1> QED  BY <1>1, <1>2

LEMMA PartsMarked ==
    ASSUME NEW r \in Requests
    PROVE  LET F == FlattenSeq([i \in DOMAIN r.parts |-> PartTokens(r, i)])
           IN  F \in Seq(Token) /\ Marked(F, r)
  <1>1. PICK q \in Seq(Parts) : q = r.parts  BY RequestTyped
  <1>2. PICK n \in Nat : n = Len(q) /\ DOMAIN q = 1..n  OBVIOUS
  <1>3. PICK ss : ss = [i \in DOMAIN r.parts |-> PartTokens(r, i)]  OBVIOUS
  <1>4. \A i \in DOMAIN r.parts : ss[i] \in Seq(Token) /\ Marked(ss[i], r)
    BY <1>3, PartMarked
  <1>5. DOMAIN r.parts = 1..n /\ DOMAIN ss = 1..n  BY <1>1, <1>2, <1>3
  <1>6. \A i \in 1..n : ss[i] \in Seq(Token) /\ Marked(ss[i], r)  BY <1>4, <1>5
  <1>7. ss \in [1..n -> Seq(Token)]
    <2>1. ss = [i \in 1..n |-> ss[i]]  BY <1>3, <1>5
    <2> QED  BY <1>6, <2>1
  <1>8. ss \in Seq(Seq(Token)) /\ Len(ss) = n  BY <1>7
  <1>9. FlattenSeq(ss) \in Seq(Token) /\ Marked(FlattenSeq(ss), r)  BY <1>6, <1>8, MarkedFlat
  <1> QED  BY <1>3, <1>9

\* Two sequences without and with announcements.
LEMMA ShortUnmarked ==
    ASSUME NEW r
    PROVE  /\ Marked(<<"request">>, r) /\ Marked(<<"header", "">>, r) /\ Marked(<<"length", "">>, r)
           /\ Marked(<<"form", "", "bound">>, r)
  <1>1. ASSUME NEW a \in Token, a # "file" PROVE Marked(<<a>>, r)
    <2>1. PICK s \in Seq(Token) : s = <<a>>  BY Short
    <2>2. Len(s) = 1 /\ s[1] = a  BY <2>1
    <2>3. \A i \in 1..1 : i = 1  OBVIOUS
    <2>4. \A i \in 1..Len(s) : s[i] # "file"  BY <1>1, <2>2, <2>3
    <2> QED  BY <2>1, <2>4, Unmarked
  <1>2. ASSUME NEW a \in Token, NEW b \in Token, a # "file", b # "file" PROVE Marked(<<a, b>>, r)
    <2>1. PICK s \in Seq(Token) : s = <<a, b>>  BY Short
    <2>2. Len(s) = 2 /\ s[1] = a /\ s[2] = b  BY <2>1
    <2>3. \A i \in 1..2 : i = 1 \/ i = 2  OBVIOUS
    <2>4. \A i \in 1..Len(s) : s[i] # "file"  BY <1>2, <2>2, <2>3
    <2> QED  BY <2>1, <2>4, Unmarked
  <1>3. ASSUME NEW a \in Token, NEW b \in Token, NEW c \in Token, a # "file", b # "file", c # "file"
        PROVE Marked(<<a, b, c>>, r)
    <2>1. PICK s \in Seq(Token) : s = <<a, b, c>>  BY Short
    <2>2. Len(s) = 3 /\ s[1] = a /\ s[2] = b /\ s[3] = c  BY <2>1
    <2>3. \A i \in 1..3 : i = 1 \/ i = 2 \/ i = 3  OBVIOUS
    <2>4. \A i \in 1..Len(s) : s[i] # "file"  BY <1>3, <2>2, <2>3
    <2> QED  BY <2>1, <2>4, Unmarked
  <1> QED  BY <1>1, <1>2, <1>3, TokenNames

LEMMA TokensMarked ==
    ASSUME NEW r \in Requests
    PROVE  Marked(Tokens(r), r)
  <1>1. PICK f \in Seq(Plain) : f = r.file  BY FileBytes
  <1>2. f \in Seq(Token) /\ Marked(f, r)  BY PlainTokens, Unmarked
  <1>3. /\ <<"request">> \in Seq(Token) /\ <<"header", "">> \in Seq(Token)
        /\ <<"length", "">> \in Seq(Token) /\ <<"form", "", "bound">> \in Seq(Token)
    BY TokenNames, Short
  <1> DEFINE F == FlattenSeq([i \in DOMAIN r.parts |-> PartTokens(r, i)])
             rest == IF ~IsPost(r) THEN <<"header", "">>
                     ELSE IF ~IsForm(r) THEN <<"length", "">> \o r.file
                     ELSE <<"form", "", "bound">> \o F
  <1>4. F \in Seq(Token) /\ Marked(F, r)  BY PartsMarked
  <1>5. Tokens(r) = <<"request">> \o rest  BY Zenon DEF Tokens
  <1> HIDE DEF F
  <1>6. rest \in Seq(Token) /\ Marked(rest, r)
    <2>1. <<"length", "">> \o f \in Seq(Token) /\ Marked(<<"length", "">> \o f, r)
      BY <1>2, <1>3, Joined, MarkedJoined, ShortUnmarked
    <2>2. <<"form", "", "bound">> \o F \in Seq(Token) /\ Marked(<<"form", "", "bound">> \o F, r)
      BY <1>3, <1>4, Joined, MarkedJoined, ShortUnmarked
    <2> QED  BY <1>1, <1>3, <2>1, <2>2, ShortUnmarked, Zenon
  <1> HIDE DEF rest
  <1>7. Marked(<<"request">>, r)  BY ShortUnmarked
  <1>8. Marked(<<"request">> \o rest, r)  BY <1>3, <1>6, <1>7, MarkedJoined
  <1> QED  BY <1>5, <1>8

\* A request begins as it should.
LEMMA OpeningFound ==
    ASSUME NEW r \in Requests
    PROVE  Rest(Tokens(r), Opening(r), 0)
  <1>1. PICK f \in Seq(Plain) : f = r.file  BY FileBytes
  <1>2. f \in Seq(Token)  BY PlainTokens
  <1>3. PICK l \in Nat : l = Len(f)  OBVIOUS
  <1>4. /\ <<"request">> \in Seq(Token) /\ <<"header", "">> \in Seq(Token)
        /\ <<"length", "">> \in Seq(Token) /\ <<"form", "", "bound">> \in Seq(Token)
    BY TokenNames, Short
  <1>5. PICK q \in Seq(Token) : q = <<"request">> /\ Len(q) = 1 /\ q[1] = "request"  BY <1>4
  <1>6. PICK one \in Nat : one = 1  OBVIOUS
  <1>7. one = Len(q)  BY <1>5, <1>6
  <1>8. PICK a \in Seq(Token) : a = Tokens(r)  BY TokensTyped
  <1>9. PICK g \in Seq(Token) : g = Opening(r)  BY <1>1, <1>3, OpeningIs
  <1>10. ASSUME NEW rest \in Seq(Token), a = q \o rest
         PROVE  /\ Len(a) = 1 + Len(rest) /\ a[1] = "request"
                /\ \A i \in 1..Len(rest) : a[1 + i] = rest[i]
    <2>1. PICK m \in Nat : m = Len(rest)  OBVIOUS
    <2>2. /\ Len(a) = one + m /\ (\A i \in 1..one : a[i] = q[i])
          /\ \A i \in 1..m : a[one + i] = rest[i]
      BY <1>7, <1>10, <2>1, Joins
    <2>3. 1 \in 1..one  BY <1>6
    <2>4. a[1] = q[1]  BY <2>2, <2>3
    <2>5. a[1] = "request"  BY <1>5, <2>4
    <2> QED  BY <1>6, <2>1, <2>2, <2>5
  <1>11. CASE r.kind = "raw"
    <2>1. IsPost(r) /\ ~IsForm(r)  BY <1>11 DEF IsPost, IsForm
    <2>2. PICK h \in Seq(Token) : h = <<"length", "">> /\ Len(h) = 2  BY <1>4
    <2>3. h[1] = "length" /\ h[2] = ""  BY <2>2
    <2>4. PICK rest \in Seq(Token) : rest = h \o f  BY <1>2, Joined
    <2>5. a = q \o rest  BY <1>1, <1>5, <1>8, <2>1, <2>2, <2>4 DEF Tokens
    <2>6. PICK two \in Nat : two = 2  OBVIOUS
    <2>7. two = Len(h)  BY <2>2, <2>6
    <2>8. /\ Len(rest) = two + l /\ (\A i \in 1..two : rest[i] = h[i])
          /\ \A i \in 1..l : rest[two + i] = f[i]
      BY <1>2, <1>3, <2>4, <2>7, Joins
    <2>9. /\ Len(a) = 1 + Len(rest) /\ a[1] = "request"
          /\ \A i \in 1..Len(rest) : a[1 + i] = rest[i]
      BY <1>10, <2>5
    <2>10. Len(a) = l + 3  BY <2>6, <2>8, <2>9
    <2>11. /\ Len(g) = l + 3
           /\ g[1] = "request" /\ g[2] = "length" /\ g[3] = ""
           /\ \A i \in 1..l : g[3 + i] = f[i]
      BY <1>1, <1>3, <1>9, <1>11, OpeningIs
    <2>12. a[2] = "length" /\ a[3] = ""
      <3>1. 1 \in 1..two /\ 2 \in 1..two  BY <2>6
      <3>2. rest[1] = h[1] /\ rest[2] = h[2]  BY <2>8, <3>1
      <3>3. 1 \in 1..Len(rest) /\ 2 \in 1..Len(rest) /\ 1 + 1 = 2 /\ 1 + 2 = 3  BY <2>6, <2>8
      <3>4. a[2] = rest[1] /\ a[3] = rest[2]  BY <2>9, <3>3
      <3> QED  BY <2>3, <3>2, <3>4
    <2>13. \A i \in 1..l : a[3 + i] = f[i]
      <3>1. TAKE i \in 1..l
      <3>2. two + i \in 1..Len(rest) /\ 1 + (two + i) = 3 + i  BY <2>6, <2>8
      <3>3. a[1 + (two + i)] = rest[two + i]  BY <2>9, <3>2
      <3> QED  BY <2>8, <3>2, <3>3
    <2>14. \A j \in 1..(l + 3) : a[j] = g[j]
      <3>1. TAKE j \in 1..(l + 3)
      <3>2. CASE j \in 1..3
        <4>1. j = 1 \/ j = 2 \/ j = 3  BY <3>2
        <4>2. a[1] = g[1] /\ a[2] = g[2] /\ a[3] = g[3]  BY <2>9, <2>11, <2>12
        <4> QED  BY <4>1, <4>2
      <3>3. CASE j \notin 1..3
        <4>1. PICK i \in 1..l : j = 3 + i
          <5>1. j - 3 \in 1..l /\ j = 3 + (j - 3)  BY <3>3
          <5> QED  BY <5>1
        <4>2. g[3 + i] = f[i] /\ a[3 + i] = f[i]  BY <2>11, <2>13
        <4> QED  BY <4>1, <4>2
      <3> QED  BY <3>2, <3>3
    <2>15. Len(g) = l + 3  BY <2>11
    <2>16. Rest(a, g, 0)
      <3>1. Len(g) - 0 <= Len(a)  BY <2>10, <2>15
      <3>2. \A j \in (0 + 1)..Len(g) : a[j - 0] = g[j]  BY <2>14, <2>15
      <3> QED  BY <3>1, <3>2 DEF Rest
    <2> QED  BY <1>8, <1>9, <2>16
  <1>12. CASE r.kind # "raw"
    <2>1. ASSUME NEW rest \in Seq(Token), a = q \o rest,
                 IsForm(r) => Len(rest) >= 1 /\ rest[1] = "form"
          PROVE  Rest(a, g, 0)
      <3>1. /\ Len(a) = 1 + Len(rest) /\ a[1] = "request"
            /\ \A i \in 1..Len(rest) : a[1 + i] = rest[i]
        BY <1>10, <2>1
      <3>2. CASE IsForm(r)
        <4>1. Len(rest) >= 1 /\ Len(rest) \in Nat  BY <2>1, <3>2
        <4>2. 1 \in 1..Len(rest) /\ 1 + 1 = 2  BY <4>1
        <4>3. a[2] = rest[1]  BY <3>1, <4>2
        <4>4. a[2] = "form"  BY <2>1, <3>2, <4>3
        <4>5. Len(g) = 2 /\ g[1] = "request" /\ g[2] = "form"
          BY <1>1, <1>3, <1>9, <3>2, OpeningIs
        <4>6. a[1] = g[1] /\ a[2] = g[2]  BY <3>1, <4>4, <4>5
        <4>7. Len(g) = 2 /\ Len(a) = 1 + Len(rest)  BY <3>1, <4>5
        <4>8. \A j \in 1..2 : j = 1 \/ j = 2  OBVIOUS
        <4>9. \A j \in 1..2 : a[j] = g[j]  BY <4>6, <4>8
        <4>10. Len(g) - 0 <= Len(a) /\ \A j \in (0 + 1)..Len(g) : a[j - 0] = g[j]
          BY <4>1, <4>7, <4>9
        <4> QED  BY <4>10 DEF Rest
      <3>3. CASE ~IsForm(r)
        <4>1. Len(g) = 1 /\ g[1] = "request"  BY <1>1, <1>3, <1>9, <1>12, <3>3, OpeningIs
        <4>2. a[1] = g[1]  BY <3>1, <4>1
        <4>3. Len(g) = 1 /\ Len(a) = 1 + Len(rest) /\ Len(rest) \in Nat  BY <3>1, <4>1
        <4>4. \A j \in 1..1 : j = 1  OBVIOUS
        <4>5. \A j \in 1..1 : a[j] = g[j]  BY <4>2, <4>4
        <4>6. Len(g) - 0 <= Len(a) /\ \A j \in (0 + 1)..Len(g) : a[j - 0] = g[j]
          BY <4>3, <4>5
        <4> QED  BY <4>6 DEF Rest
      <3> QED  BY <3>2, <3>3
    <2> DEFINE F == FlattenSeq([i \in DOMAIN r.parts |-> PartTokens(r, i)])
               more == IF ~IsPost(r) THEN <<"header", "">>
                       ELSE IF ~IsForm(r) THEN <<"length", "">> \o r.file
                       ELSE <<"form", "", "bound">> \o F
    <2>2. Tokens(r) = <<"request">> \o more  BY Zenon DEF Tokens
    <2>3. F \in Seq(Token)  BY PartsMarked
    <2> HIDE DEF F
    <2>4. PICK h \in Seq(Token) : h = <<"form", "", "bound">> /\ Len(h) = 3 /\ h[1] = "form"
      BY <1>4
    <2>5. PICK m \in Nat : m = Len(F)  BY <2>3
    <2>6. PICK three \in Nat : three = 3  OBVIOUS
    <2>7. PICK u \in Seq(Token) : u = h \o F  BY <2>3, Joined
    <2>8. three = Len(h)  BY <2>4, <2>6
    <2>9. Len(u) = three + m /\ \A i \in 1..three : u[i] = h[i]
      BY <2>3, <2>5, <2>7, <2>8, Joins
    <2>10. 1 \in 1..three  BY <2>6
    <2>11. u[1] = h[1]  BY <2>9, <2>10
    <2>12. u[1] = "form"  BY <2>4, <2>11
    <2>13. Len(u) >= 1  BY <2>6, <2>9
    <2>14. IsForm(r) => more = u
      <3>1. IsForm(r) => IsPost(r)  BY DEF IsForm, IsPost
      <3> QED  BY <2>4, <2>7, <3>1
    <2>15. more \in Seq(Token)
      <3>1. <<"length", "">> \o f \in Seq(Token)  BY <1>2, <1>4, Joined
      <3>2. <<"length", "">> \o r.file \in Seq(Token)  BY <1>1, <3>1
      <3>3. CASE ~IsPost(r)  BY <1>4, <3>3
      <3>4. CASE IsPost(r) /\ ~IsForm(r)  BY <3>2, <3>4, Zenon
      <3>5. CASE IsForm(r)  BY <2>7, <2>14, <3>5
      <3> QED  BY <3>3, <3>4, <3>5
    <2>16. a = q \o more  BY <1>5, <1>8, <2>2
    <2> HIDE DEF more
    <2>17. IsForm(r) => Len(more) >= 1 /\ more[1] = "form"  BY <2>12, <2>13, <2>14
    <2>18. Rest(a, g, 0)  BY <2>1, <2>15, <2>16, <2>17
    <2> QED  BY <1>8, <1>9, <2>18
  <1> QED  BY <1>11, <1>12

-----------------------------------------------------------------------------
(* One token after the other.                                                *)

\* b is a without its first element.
Shifted(a, b) ==
    /\ a \in Seq(Token) /\ b \in Seq(Token)
    /\ Len(a) = Len(b) + 1 /\ \A i \in 1..Len(b) : b[i] = a[i + 1]

LEMMA RestShift ==
    ASSUME NEW a, NEW b, Shifted(a, b), NEW g \in Seq(Token), NEW k \in Nat, k < Len(g), Rest(a, g, k)
    PROVE  a[1] = g[k + 1] /\ Rest(b, g, k + 1)
  <1>1. PICK n \in Nat : n = Len(b)  BY DEF Shifted
  <1>2. PICK m \in Nat : m = Len(g)  OBVIOUS
  <1>3. Len(a) = n + 1 /\ \A i \in 1..n : b[i] = a[i + 1]  BY <1>1 DEF Shifted
  <1>4. m - k <= n + 1 /\ \A j \in (k + 1)..m : a[j - k] = g[j]  BY <1>2, <1>3 DEF Rest
  <1>5. a[1] = g[k + 1]
    <2>1. k + 1 \in (k + 1)..m /\ (k + 1) - k = 1  BY <1>2
    <2> QED  BY <1>4, <2>1
  <1>6. m - (k + 1) <= n  BY <1>4
  <1>7. \A j \in ((k + 1) + 1)..m : b[j - (k + 1)] = g[j]
    <2>1. TAKE j \in ((k + 1) + 1)..m
    <2>2. PICK i \in 1..n : i = j - (k + 1) /\ i + 1 = j - k /\ j \in (k + 1)..m
      <3>1. j - (k + 1) \in 1..n /\ (j - (k + 1)) + 1 = j - k /\ j \in (k + 1)..m  BY <1>4
      <3> QED  BY <3>1
    <2>3. b[i] = a[i + 1] /\ a[j - k] = g[j]  BY <1>3, <1>4, <2>2
    <2> QED  BY <2>2, <2>3
  <1> QED  BY <1>1, <1>2, <1>5, <1>6, <1>7 DEF Rest

LEMMA HeadingTyped ==
    ASSUME NEW r \in Requests
    PROVE  Heading(r) \in Seq(Token) /\ Opening(r) \in Seq(Token) /\ Len(r.file) \in Nat
  <1>1. PICK f \in Seq(Plain) : f = r.file  BY FileBytes
  <1>2. PICK l \in Nat : l = Len(f)  OBVIOUS
  <1> QED  BY <1>1, <1>2, HeadingIs, OpeningIs

LEMMA MarkedShift ==
    ASSUME NEW a, NEW b, Shifted(a, b), NEW r \in Requests, Marked(a, r)
    PROVE  /\ Marked(b, r)
           /\ a[1] = "file" => Rest(b, Heading(r), 0)
  <1>1. PICK n \in Nat : n = Len(b)  BY DEF Shifted
  <1>2. Len(a) = n + 1 /\ \A i \in 1..n : b[i] = a[i + 1]  BY <1>1 DEF Shifted
  <1>3. PICK g \in Seq(Token) : g = Heading(r)  BY HeadingTyped
  <1>4. PICK h \in Nat : h = Len(g)  OBVIOUS
  <1>5. ASSUME NEW i \in 1..(n + 1), a[i] = "file"
        PROVE  i + h <= n + 1 /\ \A j \in 1..h : a[i + j] = g[j]
    BY <1>2, <1>3, <1>4, <1>5 DEF Marked, Followed
  <1>6. ASSUME NEW i \in 1..n, b[i] = "file"
        PROVE  i + h <= n /\ \A j \in 1..h : b[i + j] = g[j]
    <2>1. PICK k \in 1..(n + 1) : k = i + 1  OBVIOUS
    <2>2. a[k] = "file"  BY <1>2, <1>6, <2>1
    <2>3. k + h <= n + 1 /\ \A j \in 1..h : a[k + j] = g[j]  BY <1>5, <2>2
    <2>4. i + h <= n  BY <2>1, <2>3
    <2>5. \A j \in 1..h : b[i + j] = g[j]
      <3>1. TAKE j \in 1..h
      <3>2. PICK x \in 1..n : x = i + j /\ x + 1 = k + j
        <4>1. i + j \in 1..n /\ (i + j) + 1 = k + j  BY <2>1, <2>4
        <4> QED  BY <4>1
      <3>3. b[x] = a[x + 1]  BY <1>2
      <3> QED  BY <2>3, <3>2, <3>3
    <2> QED  BY <2>4, <2>5
  <1>7. Marked(b, r)  BY <1>1, <1>3, <1>4, <1>6 DEF Marked, Followed
  <1>8. ASSUME a[1] = "file" PROVE Rest(b, g, 0)
    <2>1. 1 \in 1..(n + 1)  OBVIOUS
    <2>2. 1 + h <= n + 1 /\ \A j \in 1..h : a[1 + j] = g[j]  BY <1>5, <1>8, <2>1
    <2>3. \A j \in 1..h : b[j] = g[j]
      <3>1. TAKE j \in 1..h
      <3>2. j \in 1..n /\ j + 1 = 1 + j  BY <2>2
      <3>3. b[j] = a[j + 1]  BY <1>2, <3>2
      <3> QED  BY <2>2, <3>2, <3>3
    <2>4. h - 0 <= n  BY <2>2
    <2>5. \A j \in (0 + 1)..h : b[j - 0] = g[j]  BY <2>3
    <2> QED  BY <1>1, <1>4, <2>4, <2>5 DEF Rest
  <1> QED  BY <1>3, <1>7, <1>8

\* The whole of it, put together in another way.
LEMMA AheadTyped ==
    ASSUME TokensInv
    PROVE  Ahead \in Seq(Token)
  <1>1. Waiting \in Seq(Token)  BY WaitingTyped
  <1>2. left \in Seq(Token)  BY DEF TokensInv
  <1> QED  BY <1>1, <1>2, Joined DEF Ahead

\* One token is taken.
LEMMA TakeOne ==
    ASSUME TokensInv, Waiting # <<>>, Take(1), left' = left
    PROVE  /\ Shifted(Ahead, Ahead') /\ Ahead[1] = Head(Waiting)
           /\ rx' \in Seq(Token) /\ sock' \in Seq(Token)
  <1>1. rx \in Seq(Token) /\ sock \in Seq(Token) /\ left \in Seq(Token)  BY DEF TokensInv
  <1>2. PICK w \in Seq(Token) : w = Waiting  BY WaitingTyped
  <1>3. PICK n \in Nat : Len(w) = n + 1
    <2>1. Len(w) \in Nat /\ Len(w) >= 1  BY <1>2, WaitingTyped
    <2>2. Len(w) - 1 \in Nat /\ Len(w) = (Len(w) - 1) + 1  BY <2>1
    <2> QED  BY <2>2
  <1>4. rx' \in Seq(Token) /\ sock' \in Seq(Token)
    <2>1. 1 <= Len(Waiting)  BY <1>2, <1>3
    <2> QED  BY <2>1, TakeTyped
  <1>5. PICK v \in Seq(Token) : v = rx' \o sock'  BY <1>4, Joined
  <1>6. Len(v) = n /\ \A i \in 1..n : v[i] = w[i + 1]
    <2>1. PICK p \in Nat : p = Len(rx)  BY <1>1
    <2>2. PICK q \in Nat : q = Len(sock)  BY <1>1
    <2>3. w = rx \o sock  BY <1>2 DEF Waiting
    <2>4. /\ Len(w) = p + q /\ (\A i \in 1..p : w[i] = rx[i])
          /\ \A i \in 1..q : w[p + i] = sock[i]
      BY <1>1, <2>1, <2>2, <2>3, Joins
    <2>5. CASE 1 <= p
      <3>1. rx' = SubSeq(rx, 2, p) /\ sock' = sock
        <4>1. 1 + 1 = 2  OBVIOUS
        <4> QED  BY <2>1, <2>5, <4>1 DEF Take
      <3>2. PICK m \in Nat : p = m + 1
        <4>1. p - 1 \in Nat /\ p = (p - 1) + 1  BY <2>5
        <4> QED  BY <4>1
      <3>3. Len(rx') = m /\ \A i \in 1..m : rx'[i] = rx[i + 1]
        <4>1. \A i \in 2..p : rx[i] \in Token  BY <1>1, <2>1
        <4>2. /\ 2 <= p + 1 => Len(SubSeq(rx, 2, p)) = p - 1
              /\ \A i \in 1..(p - 1) : SubSeq(rx, 2, p)[i] = rx[i + 1]
          BY <1>1, <2>1, <3>2
        <4> QED  BY <3>1, <3>2, <4>2
      <3>4. /\ Len(v) = m + q /\ (\A i \in 1..m : v[i] = rx'[i])
            /\ \A i \in 1..q : v[m + i] = sock[i]
        <4>1. PICK x \in Seq(Token) : x = rx'  BY <1>4
        <4>2. PICK y \in Seq(Token) : y = sock  BY <1>1
        <4>3. m = Len(x) /\ q = Len(y) /\ v = x \o y  BY <1>5, <2>2, <3>1, <3>3, <4>1, <4>2
        <4>4. /\ Len(v) = m + q /\ (\A i \in 1..m : v[i] = x[i])
              /\ \A i \in 1..q : v[m + i] = y[i]
          BY <4>3, Joins
        <4> QED  BY <4>1, <4>2, <4>4
      <3>5. n = m + q  BY <1>3, <2>4, <3>2
      <3>6. \A i \in 1..n : v[i] = w[i + 1]
        <4>1. TAKE i \in 1..n
        <4>2. CASE i \in 1..m
          <5>1. i + 1 \in 1..p  BY <3>2, <4>2
          <5>2. w[i + 1] = rx[i + 1]  BY <2>4, <5>1
          <5> QED  BY <3>3, <3>4, <4>2, <5>2
        <4>3. CASE i \notin 1..m
          <5>1. PICK j \in 1..q : i = m + j /\ i + 1 = p + j
            <6>1. i - m \in 1..q /\ i = m + (i - m) /\ i + 1 = p + (i - m)  BY <3>2, <3>5, <4>3
            <6> QED  BY <6>1
          <5>2. w[p + j] = sock[j] /\ v[m + j] = sock[j]  BY <2>4, <3>4
          <5> QED  BY <5>1, <5>2
        <4> QED  BY <4>2, <4>3
      <3> QED  BY <3>4, <3>5, <3>6
    <2>6. CASE ~(1 <= p)
      <3>1. rx' = SubSeq(w, 2, n + 1) /\ sock' = <<>>
        <4>1. 1 + 1 = 2  OBVIOUS
        <4> QED  BY <1>2, <1>3, <2>1, <2>6, <4>1 DEF Take
      <3>2. v = rx'  BY <1>4, <1>5, <3>1, Associates
      <3>3. Len(SubSeq(w, 2, n + 1)) = n /\ \A i \in 1..n : SubSeq(w, 2, n + 1)[i] = w[i + 1]
        BY <1>3
      <3> QED  BY <3>1, <3>2, <3>3
    <2> QED  BY <2>5, <2>6
  <1>7. PICK a \in Seq(Token) : a = Ahead  BY AheadTyped
  <1>8. a = w \o left  BY <1>2, <1>7 DEF Ahead
  <1>9. PICK b \in Seq(Token) : b = v \o left  BY <1>1, Joined
  <1>10. b = Ahead'  BY <1>5, <1>9 DEF Ahead, Waiting
  <1>11. PICK l \in Nat : l = Len(left)  BY <1>1
  <1>12. PICK k \in Nat : k = n + 1  OBVIOUS
  <1>13. /\ Len(a) = k + l /\ (\A i \in 1..k : a[i] = w[i])
         /\ \A i \in 1..l : a[k + i] = left[i]
    <2>1. k = Len(w)  BY <1>3, <1>12
    <2> QED  BY <1>1, <1>8, <1>11, <2>1, Joins
  <1>14. /\ Len(b) = n + l /\ (\A i \in 1..n : b[i] = v[i])
         /\ \A i \in 1..l : b[n + i] = left[i]
    <2>1. n = Len(v)  BY <1>6
    <2> QED  BY <1>1, <1>9, <1>11, <2>1, Joins
  <1>15. \A i \in 1..(n + l) : b[i] = a[i + 1]
    <2>1. TAKE i \in 1..(n + l)
    <2>2. CASE i \in 1..n
      <3>1. i + 1 \in 1..k  BY <1>12, <2>2
      <3>2. a[i + 1] = w[i + 1]  BY <1>13, <3>1
      <3> QED  BY <1>6, <1>14, <2>2, <3>2
    <2>3. CASE i \notin 1..n
      <3>1. PICK j \in 1..l : i = n + j /\ i + 1 = k + j
        <4>1. i - n \in 1..l /\ i = n + (i - n) /\ i + 1 = k + (i - n)  BY <1>12, <2>3
        <4> QED  BY <4>1
      <3>2. a[k + j] = left[j] /\ b[n + j] = left[j]  BY <1>13, <1>14
      <3> QED  BY <3>1, <3>2
    <2> QED  BY <2>2, <2>3
  <1>16. Shifted(a, b)
    <2>1. Len(a) = Len(b) + 1  BY <1>12, <1>13, <1>14
    <2> QED  BY <1>14, <1>15, <2>1 DEF Shifted
  <1>17. a[1] = Head(Waiting)
    <2>1. 1 \in 1..k  BY <1>12
    <2>2. a[1] = w[1]  BY <1>13, <2>1
    <2>3. Head(w) = w[1]  BY <1>3
    <2> QED  BY <1>2, <2>2, <2>3
  <1> QED  BY <1>4, <1>7, <1>10, <1>16, <1>17

\* A line is the next token, or nothing while the peer is silent.
LEMMA LineRead ==
    ASSUME TokensInv, Read, conn
    PROVE  /\ rx' \in Seq(Token) /\ sock' \in Seq(Token) /\ left' = left /\ asked' = asked
           /\ conn' = conn /\ fin' = fin
           /\ \/ Shifted(Ahead, Ahead') /\ Line = Ahead[1]
              \/ Ahead' = Ahead /\ Line = "" /\ Ahead = left
  <1>1. left' = left /\ asked' = asked /\ conn' = conn /\ fin' = fin  BY DEF Read
  <1>2. rx' \in Seq(Token) /\ sock' \in Seq(Token)  BY ReadTyped
  <1>3. CASE Waiting # <<>>
    <2>1. Take(1) /\ Line = Head(Waiting)  BY <1>3 DEF Read, Line
    <2>2. Shifted(Ahead, Ahead') /\ Ahead[1] = Head(Waiting)  BY <1>1, <1>3, <2>1, TakeOne
    <2> QED  BY <1>1, <1>2, <2>1, <2>2
  <1>4. CASE Waiting = <<>>
    <2>1. rx' = rx /\ sock' = sock /\ Line = ""  BY <1>4 DEF Read, Line
    <2>2. Ahead' = Ahead  BY <1>1, <2>1 DEF Ahead, Waiting
    <2>3. left \in Seq(Token)  BY DEF TokensInv
    <2>4. Ahead = left  BY <1>4, <2>3, Associates DEF Ahead
    <2> QED  BY <1>1, <1>2, <2>1, <2>2, <2>4
  <1> QED  BY <1>3, <1>4

Soft == left = <<>> \/ left[1] \in Bytes

\* A line that is there is read.
LEMMA LineFound ==
    ASSUME TokensInv, Read, conn, Soft, NEW g \in Seq(Token), NEW k \in Nat, k < Len(g),
           Rest(Ahead, g, k), g[k + 1] \notin Bytes
    PROVE  Shifted(Ahead, Ahead') /\ Line = g[k + 1] /\ Rest(Ahead', g, k + 1)
  <1>1. PICK a \in Seq(Token) : a = Ahead  BY AheadTyped
  <1>2. a[1] = g[k + 1] /\ a # <<>>
    <2>1. PICK m \in Nat : m = Len(g)  OBVIOUS
    <2>2. m - k <= Len(a) /\ \A j \in (k + 1)..m : a[j - k] = g[j]  BY <1>1, <2>1 DEF Rest
    <2>3. k + 1 \in (k + 1)..m /\ (k + 1) - k = 1  BY <2>1
    <2>4. a[1] = g[k + 1]  BY <2>2, <2>3
    <2>5. Len(a) # 0  BY <2>1, <2>2
    <2> QED  BY <2>4, <2>5
  <1>3. ~(Ahead = left)  BY <1>1, <1>2 DEF Soft
  <1>4. Shifted(Ahead, Ahead') /\ Line = Ahead[1]  BY <1>3, LineRead
  <1> QED  BY <1>1, <1>2, <1>4, RestShift

LEMMA MoreWaits ==
    ASSUME rx \in Seq(Token), sock \in Seq(Token), NEW d \in Seq(Token)
    PROVE  rx \o (sock \o d) = (rx \o sock) \o d
  BY Associates

\* Tokens that arrive come from the peer's side into the socket.
LEMMA ArriveKeeps ==
    ASSUME TokensInv, Arrive
    PROVE  /\ Ahead' = Ahead /\ left' \in Seq(Token) /\ sock' \in Seq(Token) /\ rx' = rx
           /\ Polite => Soft'
  <1>1. PICK n \in Segments : /\ sock' = sock \o SubSeq(left, 1, n)
                              /\ left' = SubSeq(left, n + 1, Len(left))
    BY DEF Arrive
  <1>2. rx' = rx  BY DEF Arrive, socket
  <1>3. PICK c \in Seq(Token) : c = left  BY DEF TokensInv
  <1>4. PICK l \in Nat : l = Len(c)  OBVIOUS
  <1>5. n \in 1..l /\ (Polite => n = l \/ c[n + 1] \in Bytes)  BY <1>3, <1>4 DEF Segments
  <1>6. rx \in Seq(Token) /\ sock \in Seq(Token)  BY DEF TokensInv
  <1>7. PICK d \in Seq(Token) : d = SubSeq(c, 1, n)
    <2>1. SubSeq(c, 1, n) \in Seq(Token)  BY <1>4, <1>5, Sub
    <2> QED  BY <2>1
  <1>8. PICK e \in Seq(Token) : e = SubSeq(c, n + 1, l)
    <2>1. SubSeq(c, n + 1, l) \in Seq(Token)  BY <1>4, <1>5, Sub
    <2> QED  BY <2>1
  <1>9. Len(d) = n /\ \A i \in 1..n : d[i] = c[i]  BY <1>4, <1>5, <1>7
  <1>10. Len(e) = l - n /\ \A i \in 1..(l - n) : e[i] = c[n + i]  BY <1>4, <1>5, <1>8
  <1>11. d \o e = c
    <2>1. PICK u \in Seq(Token) : u = d \o e  BY Joined
    <2>2. PICK m \in Nat : m = l - n  BY <1>5
    <2>3. PICK p \in Nat : p = n  BY <1>5
    <2>4. /\ Len(u) = p + m /\ (\A i \in 1..p : u[i] = d[i])
          /\ \A i \in 1..m : u[p + i] = e[i]
      <3>1. p = Len(d) /\ m = Len(e)  BY <1>9, <1>10, <2>2, <2>3
      <3> QED  BY <2>1, <3>1, Joins
    <2>5. \A i \in 1..l : u[i] = c[i]
      <3>1. TAKE i \in 1..l
      <3>2. CASE i \in 1..p  BY <1>9, <2>3, <2>4, <3>2
      <3>3. CASE i \notin 1..p
        <4>1. PICK j \in 1..m : i = p + j
          <5>1. i - p \in 1..m /\ i = p + (i - p)  BY <1>5, <2>2, <2>3, <3>3
          <5> QED  BY <5>1
        <4>2. u[p + j] = e[j] /\ e[j] = c[n + j]  BY <1>10, <2>2, <2>4
        <4> QED  BY <2>3, <4>1, <4>2
      <3> QED  BY <3>2, <3>3
    <2>6. Len(u) = l  BY <2>2, <2>3, <2>4, <1>5
    <2>7. u = c  BY <1>4, <2>5, <2>6, SeqEqual
    <2> QED  BY <2>1, <2>7
  <1>12. sock' = sock \o d /\ left' = e  BY <1>1, <1>3, <1>4, <1>7, <1>8
  <1>13. Ahead' = (rx \o (sock \o d)) \o e  BY <1>2, <1>12 DEF Ahead, Waiting
  <1>14. PICK w \in Seq(Token) : w = rx \o sock  BY <1>6, Joined
  <1>15. rx \o (sock \o d) = w \o d  BY <1>6, <1>14, MoreWaits
  <1>16. (w \o d) \o e = w \o (d \o e)  BY Associates, ZenonT(20)
  <1>17. Ahead' = w \o c  BY <1>11, <1>13, <1>15, <1>16
  <1>18. Ahead = w \o c  BY <1>3, <1>14 DEF Ahead, Waiting
  <1>19. sock' \in Seq(Token)  BY <1>6, <1>12, Joined
  <1>20. Polite => Soft'
    <2>1. CASE n = l
      <3>1. Len(e) = 0  BY <1>10, <2>1
      <3>2. e = <<>>  BY <3>1
      <3> QED  BY <1>12, <3>2 DEF Soft
    <2>2. CASE n # l /\ Polite
      <3>1. 1 \in 1..(l - n)  BY <1>5, <2>2
      <3>2. e[1] = c[n + 1]  BY <1>10, <3>1
      <3> QED  BY <1>5, <1>12, <2>2, <3>2 DEF Soft
    <2> QED  BY <2>1, <2>2
  <1> QED  BY <1>2, <1>12, <1>17, <1>18, <1>19, <1>20

-----------------------------------------------------------------------------
(* What the handler was told.                                                *)

Prefix(s, t) == Len(s) <= Len(t) /\ \A i \in 1..Len(s) : s[i] = t[i]

\* An upload has begun, and nothing but pieces followed.
Started(cs) ==
    /\ cs \in Seq(Callbacks) /\ Len(cs) >= 1 /\ cs[1].st = "start"
    /\ \A i \in 2..Len(cs) : cs[i].st = "write"

\* An upload is over.
Told(cs, file, closed) ==
    /\ file \in Seq(Token)
    /\ cs \in Seq(Callbacks) /\ Len(cs) >= 1 /\ cs[1].st = "start"
    /\ \A i \in 2..Len(cs) : cs[i].st # "start"
    /\ \A i \in 1..(Len(cs) - 1) :
          cs[i].st # "aborted" /\ (cs[i].st = "end" => i = Len(cs) - 1 /\ closed)
    /\ cs[Len(cs)].st \in {"end", "aborted"}
    /\ Prefix(GivenBy(cs), file)
    /\ (\E i \in 1..Len(cs) : cs[i].st = "end") => GivenBy(cs) = file

LEMMA BegunBy ==
    LET cs == <<Called("start", <<>>)>>
    IN  Started(cs) /\ GivenBy(cs) = <<>> /\ cs[1].st = "start" /\ cs # <<>>
  <1>1. PICK c \in Callbacks : c = Called("start", <<>>) /\ c.st = "start" /\ c.data = <<>>
    <2>1. <<>> \in Seq(Token) /\ "start" \in {"start", "write", "end", "aborted"}  BY Short
    <2>2. /\ Called("start", <<>>) \in Callbacks /\ Called("start", <<>>).st = "start"
          /\ Called("start", <<>>).data = <<>>
      BY <2>1, CallbackTyped
    <2> QED  BY <2>2
  <1>2. PICK cs \in Seq(Callbacks) : cs = <<c>> /\ GivenBy(cs) = <<>>  BY <1>1, GivenOne
  <1>3. Len(cs) = 1 /\ cs[1] = c  BY <1>2
  <1>4. cs[1].st = "start"  BY <1>1, <1>3
  <1>5. \A i \in 2..Len(cs) : cs[i].st = "write"  BY <1>3
  <1>6. Started(cs)  BY <1>3, <1>4, <1>5 DEF Started
  <1>7. cs # <<>>
    <2>1. <<c>> # <<>>  OBVIOUS
    <2> QED  BY <1>2, <2>1
  <1> QED  BY <1>1, <1>2, <1>4, <1>6, <1>7

\* More pieces.
LEMMA StartedMore ==
    ASSUME NEW cs, Started(cs), NEW ds \in Seq(Callbacks), \A i \in 1..Len(ds) : ds[i].st = "write"
    PROVE  Started(cs \o ds)
  <1>1. PICK m \in Nat : m = Len(cs)  BY DEF Started
  <1>2. PICK n \in Nat : n = Len(ds)  OBVIOUS
  <1>3. PICK es \in Seq(Callbacks) : es = cs \o ds  BY ConcatProperties DEF Started
  <1>4. /\ Len(es) = m + n
        /\ \A i \in 1..(m + n) : es[i] = IF i <= m THEN cs[i] ELSE ds[i - m]
    BY <1>1, <1>2, <1>3, ConcatProperties DEF Started
  <1>5. m >= 1 /\ cs[1].st = "start" /\ \A i \in 2..m : cs[i].st = "write"
    BY <1>1 DEF Started
  <1>6. es[1].st = "start"
    <2>1. 1 \in 1..(m + n) /\ 1 <= m  BY <1>5
    <2>2. es[1] = cs[1]  BY <1>4, <2>1
    <2> QED  BY <1>5, <2>2
  <1>7. ASSUME NEW i \in 2..(m + n) PROVE es[i].st = "write"
    <2>1. CASE i <= m
      <3>1. i \in 1..(m + n) /\ i \in 2..m  BY <2>1
      <3>2. es[i] = cs[i]  BY <1>4, <2>1, <3>1
      <3> QED  BY <1>5, <3>1, <3>2
    <2>2. CASE ~(i <= m)
      <3>1. i \in 1..(m + n) /\ i - m \in 1..n  BY <2>2
      <3>2. es[i] = ds[i - m]  BY <1>4, <2>2, <3>1
      <3>3. ds[i - m].st = "write"  BY <1>2, <3>1
      <3> QED  BY <3>2, <3>3
    <2> QED  BY <2>1, <2>2
  <1>8. Len(es) >= 1 /\ \A i \in 2..Len(es) : es[i].st = "write"  BY <1>4, <1>5, <1>7
  <1> QED  BY <1>3, <1>6, <1>8 DEF Started

\* The last callback.
LEMMA ToldOver ==
    ASSUME NEW cs, Started(cs), NEW file \in Seq(Token), Prefix(GivenBy(cs), file), NEW closed,
           NEW st \in {"end", "aborted"}, st = "end" => GivenBy(cs) = file
    PROVE  Told(cs \o <<Called(st, <<>>)>>, file, closed)
  <1>1. PICK m \in Nat : m = Len(cs) /\ m >= 1  BY DEF Started
  <1>2. PICK es : es = OneMore(cs, st, <<>>) /\ es = cs \o <<Called(st, <<>>)>>  BY DEF OneMore
  <1>3. cs \in Seq(Callbacks) /\ st \in {"start", "write", "end", "aborted"} /\ <<>> \in Seq(Token)
    BY Short DEF Started
  <1>4. /\ es \in Seq(Callbacks) /\ Len(es) = m + 1
        /\ (\A i \in 1..m : es[i] = cs[i]) /\ es[m + 1] = Called(st, <<>>)
        /\ GivenBy(es) = GivenBy(cs) \o <<>>
    <2>1. Adds(es, cs, st, <<>>)  BY <1>2, <1>3, GivenAppend
    <2> QED  BY <1>1, <2>1 DEF Adds
  <1>5. GivenBy(cs) \in Seq(Token)  BY <1>3, GivenMore
  <1>6. GivenBy(es) = GivenBy(cs)  BY <1>4, <1>5, Associates
  <1>7. es[m + 1].st = st
    <2>1. Called(st, <<>>).st = st  BY DEF Called
    <2> QED  BY <1>4, <2>1
  <1>8. cs[1].st = "start" /\ \A i \in 2..m : cs[i].st = "write"  BY <1>1 DEF Started
  <1>9. es[1].st = "start" /\ \A i \in 2..m : es[i].st = "write"
    <2>1. 1 \in 1..m /\ \A i \in 2..m : i \in 1..m  BY <1>1
    <2> QED  BY <1>4, <1>8, <2>1
  <1>10. \A i \in 1..m : es[i].st \in {"start", "write"}
    <2>1. \A i \in 1..m : i = 1 \/ i \in 2..m  BY <1>1
    <2> QED  BY <1>9, <2>1
  <1>11. \A i \in 2..(m + 1) : es[i].st # "start"
    <2>1. \A i \in 2..(m + 1) : i = m + 1 \/ i \in 2..m  OBVIOUS
    <2> QED  BY <1>7, <1>9, <2>1
  <1>12. (\E i \in 1..(m + 1) : es[i].st = "end") => st = "end"
    <2>1. \A i \in 1..(m + 1) : i = m + 1 \/ i \in 1..m  OBVIOUS
    <2> QED  BY <1>7, <1>10, <2>1
  <1>13. Len(es) >= 1 /\ (m + 1) - 1 = m  BY <1>1, <1>4
  <1>14. es[Len(es)].st \in {"end", "aborted"}  BY <1>4, <1>7
  <1>15. \A i \in 1..m : es[i].st # "aborted" /\ es[i].st # "end"  BY <1>10
  <1>16. \A i \in 1..(Len(es) - 1) : es[i].st # "aborted" /\ es[i].st # "end"
    BY <1>4, <1>13, <1>15
  <1>17. \A i \in 2..Len(es) : es[i].st # "start"  BY <1>4, <1>11
  <1>18. (\E i \in 1..Len(es) : es[i].st = "end") => GivenBy(es) = file
    BY <1>4, <1>6, <1>12
  <1>19. Prefix(GivenBy(es), file)  BY <1>6
  <1>20. Told(es, file, closed)
    BY <1>4, <1>9, <1>13, <1>14, <1>16, <1>17, <1>18, <1>19 DEF Told
  <1> QED  BY <1>2, <1>20

\* ABORTED after END.
LEMMA ToldTwice ==
    ASSUME NEW cs, Started(cs), NEW file \in Seq(Token), GivenBy(cs) = file, NEW closed, closed
    PROVE  Told((cs \o <<Called("end", <<>>)>>) \o <<Called("aborted", <<>>)>>, file, closed)
  <1>1. PICK m \in Nat : m = Len(cs) /\ m >= 1  BY DEF Started
  <1>2. PICK es : es = OneMore(cs, "end", <<>>) /\ es = cs \o <<Called("end", <<>>)>>
    BY DEF OneMore
  <1>3. cs \in Seq(Callbacks) /\ <<>> \in Seq(Token)  BY Short DEF Started
  <1>4. /\ es \in Seq(Callbacks) /\ Len(es) = m + 1
        /\ (\A i \in 1..m : es[i] = cs[i]) /\ es[m + 1] = Called("end", <<>>)
        /\ GivenBy(es) = GivenBy(cs) \o <<>>
    <2>1. "end" \in {"start", "write", "end", "aborted"}  OBVIOUS
    <2>2. Adds(es, cs, "end", <<>>)  BY <1>2, <1>3, <2>1, GivenAppend
    <2> QED  BY <1>1, <2>2 DEF Adds
  <1>5. PICK fs : fs = OneMore(es, "aborted", <<>>) /\ fs = es \o <<Called("aborted", <<>>)>>
    BY DEF OneMore
  <1>6. PICK n \in Nat : n = m + 1  OBVIOUS
  <1>7. /\ fs \in Seq(Callbacks) /\ Len(fs) = n + 1
        /\ (\A i \in 1..n : fs[i] = es[i]) /\ fs[n + 1] = Called("aborted", <<>>)
        /\ GivenBy(fs) = GivenBy(es) \o <<>>
    <2>1. n = Len(es) /\ "aborted" \in {"start", "write", "end", "aborted"}  BY <1>4, <1>6
    <2>2. Adds(fs, es, "aborted", <<>>)  BY <1>3, <1>4, <1>5, <2>1, GivenAppend
    <2> QED  BY <2>1, <2>2 DEF Adds
  <1>8. GivenBy(fs) = file  BY <1>4, <1>7, Associates
  <1>9. Called("end", <<>>).st = "end" /\ Called("aborted", <<>>).st = "aborted"
    BY <1>3, CallbackTyped
  <1>10. fs[n].st = "end" /\ fs[n + 1].st = "aborted"
    <2>1. n \in 1..n  BY <1>6
    <2>2. fs[n] = es[n]  BY <1>7, <2>1
    <2>3. es[n] = Called("end", <<>>)  BY <1>4, <1>6
    <2> QED  BY <1>7, <1>9, <2>2, <2>3
  <1>11. cs[1].st = "start" /\ \A i \in 2..m : cs[i].st = "write"  BY <1>1 DEF Started
  <1>12. fs[1].st = "start" /\ \A i \in 2..m : fs[i].st = "write"
    <2>1. /\ 1 \in 1..m /\ 1 \in 1..n
          /\ \A i \in 2..m : i \in 1..m /\ i \in 1..n
      BY <1>1, <1>6
    <2>2. \A i \in 1..m : i \in 1..n  BY <1>6
    <2>3. \A i \in 1..m : fs[i] = cs[i]  BY <1>4, <1>7, <2>2
    <2> QED  BY <1>11, <2>1, <2>3
  <1>13. \A i \in 2..(n + 1) : fs[i].st # "start"
    <2>1. \A i \in 2..(n + 1) : i \in 2..m \/ i = n \/ i = n + 1  BY <1>6
    <2> QED  BY <1>10, <1>12, <2>1
  <1>14. \A i \in 1..n : fs[i].st # "aborted" /\ (fs[i].st = "end" => i = n)
    <2>1. \A i \in 1..n : i = 1 \/ i \in 2..m \/ i = n  BY <1>6
    <2> QED  BY <1>10, <1>12, <2>1
  <1>15. Len(fs) >= 1 /\ Len(fs) - 1 = n  BY <1>7
  <1>16. \A i \in 1..(Len(fs) - 1) : fs[i].st # "aborted" /\ (fs[i].st = "end" => i = Len(fs) - 1 /\ closed)
    BY <1>14, <1>15
  <1>17. \A i \in 2..Len(fs) : fs[i].st # "start"  BY <1>7, <1>13
  <1>18. fs[Len(fs)].st \in {"end", "aborted"}  BY <1>7, <1>10
  <1>19. Prefix(GivenBy(fs), file)  BY <1>8 DEF Prefix
  <1>20. Told(fs, file, closed)
    BY <1>7, <1>8, <1>12, <1>15, <1>16, <1>17, <1>18, <1>19 DEF Told
  <1> QED  BY <1>2, <1>5, <1>20

LEMMA CallbackPair ==
    ASSUME NEW c \in Callbacks, NEW d \in Callbacks
    PROVE  <<c, d>> = <<c>> \o <<d>> /\ <<c, d>> \in Seq(Callbacks)
  <1>0. /\ <<c>> \in Seq(Callbacks) /\ <<d>> \in Seq(Callbacks)
        /\ <<c, d>> \in Seq(Callbacks)
    BY Short
  <1>1. PICK s \in Seq(Callbacks) : s = <<c>>  BY <1>0
  <1>2. PICK t \in Seq(Callbacks) : t = <<d>>  BY <1>0
  <1>3. PICK u \in Seq(Callbacks) : u = <<c, d>>  BY <1>0
  <1>4. Len(s) = 1 /\ s[1] = c /\ Len(t) = 1 /\ t[1] = d  BY <1>1, <1>2
  <1>5. Len(u) = 2 /\ u[1] = c /\ u[2] = d  BY <1>3
  <1>6. PICK v \in Seq(Callbacks) : v = s \o t  BY ConcatProperties
  <1>7. /\ Len(v) = Len(s) + Len(t)
        /\ \A i \in 1..Len(s) + Len(t) : v[i] = IF i <= Len(s) THEN s[i] ELSE t[i - Len(s)]
    BY <1>6, ConcatProperties
  <1>8. Len(v) = 2 /\ v[1] = c /\ v[2] = d  BY <1>4, <1>7
  <1>9. \A i \in 1..2 : i = 1 \/ i = 2  OBVIOUS
  <1>10. \A i \in 1..2 : u[i] = v[i]  BY <1>5, <1>8, <1>9
  <1>11. u = v  BY <1>5, <1>8, <1>10, SeqEqual
  <1> QED  BY <1>1, <1>2, <1>3, <1>6, <1>11

Regrouped(s, t, u) == s \o (t \o u) = (s \o t) \o u

LEMMA CallbacksAssociate ==
    ASSUME NEW s \in Seq(Callbacks), NEW t \in Seq(Callbacks), NEW u \in Seq(Callbacks)
    PROVE  Regrouped(s, t, u)
  BY DEF Regrouped

LEMMA SubSplit ==
    ASSUME NEW s \in Seq(Token), NEW m \in Nat, NEW n \in Nat, m <= n, n <= Len(s)
    PROVE  /\ SubSeq(s, 1, m) \in Seq(Token) /\ SubSeq(s, m + 1, n) \in Seq(Token)
           /\ SubSeq(s, 1, m) \o SubSeq(s, m + 1, n) = SubSeq(s, 1, n)
  <1>1. PICK l \in Nat : l = Len(s)  OBVIOUS
  <1>2. PICK d \in Seq(Token) : d = SubSeq(s, 1, m)
    <2>1. m <= Len(s)  OBVIOUS
    <2>2. SubSeq(s, 1, m) \in Seq(Token)  BY <2>1, Sub
    <2> QED  BY <2>2
  <1>3. PICK e \in Seq(Token) : e = SubSeq(s, m + 1, n)
    <2>1. m + 1 \in Nat /\ m + 1 >= 1  OBVIOUS
    <2>2. SubSeq(s, m + 1, n) \in Seq(Token)  BY <2>1, Sub
    <2> QED  BY <2>2
  <1>4. PICK f \in Seq(Token) : f = SubSeq(s, 1, n)
    <2>1. SubSeq(s, 1, n) \in Seq(Token)  BY Sub
    <2> QED  BY <2>1
  <1>5. Len(d) = m /\ \A i \in 1..m : d[i] = s[i]  BY <1>1, <1>2
  <1>6. Len(f) = n /\ \A i \in 1..n : f[i] = s[i]  BY <1>1, <1>4
  <1>7. PICK k \in Nat : k = n - m  OBVIOUS
  <1>8. Len(e) = k /\ \A i \in 1..k : e[i] = s[m + i]  BY <1>1, <1>3, <1>7
  <1>9. PICK u \in Seq(Token) : u = d \o e  BY Joined
  <1>10. /\ Len(u) = m + k /\ (\A i \in 1..m : u[i] = d[i])
         /\ \A i \in 1..k : u[m + i] = e[i]
    <2>1. m = Len(d) /\ k = Len(e)  BY <1>5, <1>8
    <2> QED  BY <1>9, <2>1, Joins
  <1>11. \A i \in 1..n : u[i] = f[i]
    <2>1. TAKE i \in 1..n
    <2>2. CASE i \in 1..m  BY <1>5, <1>6, <1>10, <2>2
    <2>3. CASE i \notin 1..m
      <3>1. PICK j \in 1..k : i = m + j
        <4>1. i - m \in 1..k /\ i = m + (i - m)  BY <1>7, <2>3
        <4> QED  BY <4>1
      <3>2. u[m + j] = e[j] /\ e[j] = s[m + j]  BY <1>8, <1>10
      <3> QED  BY <1>6, <3>1, <3>2
    <2> QED  BY <2>2, <2>3
  <1>12. Len(u) = n  BY <1>7, <1>10
  <1>13. u = f  BY <1>6, <1>11, <1>12, SeqEqual
  <1> QED  BY <1>2, <1>3, <1>4, <1>9, <1>13

LEMMA SubWhole ==
    ASSUME NEW s \in Seq(Token)
    PROVE  SubSeq(s, 1, Len(s)) = s /\ SubSeq(s, 1, 0) = <<>>
  <1>1. PICK l \in Nat : l = Len(s)  OBVIOUS
  <1>2. PICK f \in Seq(Token) : f = SubSeq(s, 1, l)
    <2>1. SubSeq(s, 1, l) \in Seq(Token)  BY <1>1, Sub
    <2> QED  BY <2>1
  <1>3. Len(f) = l /\ \A i \in 1..l : f[i] = s[i]  BY <1>1, <1>2
  <1>4. f = s  BY <1>1, <1>3, SeqEqual
  <1>5. SubSeq(s, 1, 0) = <<>>  OBVIOUS
  <1> QED  BY <1>1, <1>2, <1>4, <1>5

\* The full buffers and the rest are what there was to give.
LEMMA PiecesHold ==
    ASSUME buf \in Seq(Token), NEW more \in Seq(Token)
    PROVE  LET p == Pieces(more)
           IN  /\ p.full \in Seq(Seq(Token)) /\ p.rest \in Seq(Token)
               /\ FlattenSeq(p.full) \in Seq(Token)
               /\ FlattenSeq(p.full) \o p.rest = buf \o more
  <1>1. PICK all \in Seq(Token) : all = buf \o more  BY Joined
  <1>2. PICK len \in Nat : len = Len(all)  OBVIOUS
  <1>3. BufLen \in Nat \ {0}  BY ServerAssumption DEF ServerAssumption
  <1>4. PICK n \in Nat : /\ n = IF more = <<>> THEN 0 ELSE (len - 1) \div BufLen
                         /\ BufLen * n <= len
    <2>1. CASE more = <<>>  BY <1>2, <1>3, <2>1
    <2>2. CASE more # <<>>
      <3>1. Len(more) \in Nat /\ Len(more) # 0  BY <2>2
      <3>2. len = Len(buf) + Len(more) /\ Len(buf) \in Nat  BY <1>1, <1>2
      <3>3. len - 1 \in Nat  BY <3>1, <3>2
      <3>4. (len - 1) \div BufLen \in Nat /\ BufLen * ((len - 1) \div BufLen) <= len - 1
        BY <1>3, <3>3, Division
      <3>5. PICK n \in Nat : n = (len - 1) \div BufLen  BY <3>4
      <3>6. BufLen * n <= len - 1  BY <3>4, <3>5
      <3>7. BufLen * n <= len  BY <1>3, <3>6
      <3> QED  BY <2>2, <3>5, <3>7
    <2> QED  BY <2>1, <2>2
  <1>5. Pieces(more) = [full |-> [i \in 1..n |-> SubSeq(all, (i - 1) * BufLen + 1, i * BufLen)],
                        rest |-> SubSeq(all, n * BufLen + 1, Len(all))]
    BY <1>1, <1>2, <1>4 DEF Pieces
  <1>6. PICK full : full = [i \in 1..n |-> SubSeq(all, (i - 1) * BufLen + 1, i * BufLen)]  OBVIOUS
  <1>7. PICK rest : rest = SubSeq(all, n * BufLen + 1, Len(all))  OBVIOUS
  <1>8. \A i \in 0..n : i * BufLen \in Nat /\ i * BufLen <= len
    <2>1. TAKE i \in 0..n
    <2>2. i * BufLen \in Nat /\ i * BufLen <= n * BufLen  BY <1>3
    <2>3. n * BufLen = BufLen * n /\ n * BufLen \in Nat  BY <1>3
    <2> QED  BY <1>4, <2>2, <2>3
  <1>9. \A i \in 1..n : (i - 1) * BufLen <= i * BufLen  BY <1>3
  <1>10. PICK g : g = [i \in 0..n |-> SubSeq(all, 1, i * BufLen)]  OBVIOUS
  <1>11. ASSUME NEW i \in 1..n
         PROVE  full[i] \in Seq(Token) /\ g[i - 1] \o full[i] = g[i]
    <2>1. i - 1 \in 0..n /\ i \in 0..n  OBVIOUS
    <2>2. PICK x \in Nat : x = (i - 1) * BufLen  BY <1>8, <2>1
    <2>3. PICK y \in Nat : y = i * BufLen  BY <1>8, <2>1
    <2>4. x <= y /\ y <= Len(all)  BY <1>2, <1>8, <1>9, <2>1, <2>2, <2>3
    <2>5. /\ SubSeq(all, x + 1, y) \in Seq(Token)
          /\ SubSeq(all, 1, x) \o SubSeq(all, x + 1, y) = SubSeq(all, 1, y)
      BY <2>4, SubSplit
    <2>6. full[i] = SubSeq(all, x + 1, y)  BY <1>6, <2>2, <2>3
    <2>7. g[i - 1] = SubSeq(all, 1, x) /\ g[i] = SubSeq(all, 1, y)  BY <1>10, <2>1, <2>2, <2>3
    <2> QED  BY <2>5, <2>6, <2>7
  <1>12. full \in Seq(Seq(Token)) /\ Len(full) = n
    <2>1. \A i \in 1..n : SubSeq(all, (i - 1) * BufLen + 1, i * BufLen) \in Seq(Token)
      BY <1>6, <1>11
    <2>2. full \in [1..n -> Seq(Token)]  BY <1>6, <2>1
    <2> QED  BY <2>2
  <1>13. \A i \in 0..n : g[i] \in Seq(Token)
    <2>1. TAKE i \in 0..n
    <2>2. PICK x \in Nat : x = i * BufLen /\ x <= Len(all)  BY <1>2, <1>8
    <2>3. SubSeq(all, 1, x) \in Seq(Token)  BY <2>2, Sub
    <2> QED  BY <1>10, <2>2, <2>3
  <1>14. g[0] = <<>>
    <2>1. 0 * BufLen = 0 /\ 0 \in 0..n  BY <1>3
    <2>2. g[0] = SubSeq(all, 1, 0)  BY <1>10, <2>1
    <2> QED  BY <2>2, SubWhole
  <1>15. Sums(full, g)
    <2>1. g \in [0..n -> Seq(Token)]
      <3>1. g = [i \in 0..n |-> g[i]]  BY <1>10
      <3> QED  BY <1>13, <3>1
    <2>2. \A i \in 1..n : g[i] = g[i - 1] \o full[i]  BY <1>11
    <2> QED  BY <1>12, <1>14, <2>1, <2>2 DEF Sums
  <1>16. FlattenSeq(full) = g[n]  BY <1>12, <1>15, FlatIs
  <1>17. rest \in Seq(Token) /\ g[n] \o rest = all /\ g[n] \in Seq(Token)
    <2>1. n \in 0..n  OBVIOUS
    <2>2. PICK x \in Nat : x = n * BufLen /\ x <= len  BY <1>8, <2>1
    <2>3. /\ SubSeq(all, x + 1, len) \in Seq(Token)
          /\ SubSeq(all, 1, x) \o SubSeq(all, x + 1, len) = SubSeq(all, 1, len)
      <3>1. x <= len /\ len <= Len(all)  BY <1>2, <2>2
      <3> QED  BY <3>1, SubSplit
    <2>4. SubSeq(all, 1, len) = all  BY <1>2, SubWhole
    <2>5. rest = SubSeq(all, x + 1, len) /\ g[n] = SubSeq(all, 1, x)
      BY <1>2, <1>7, <1>10, <2>1, <2>2
    <2> QED  BY <1>13, <2>1, <2>3, <2>4, <2>5
  <1>18. Pieces(more) = [full |-> full, rest |-> rest]  BY <1>5, <1>6, <1>7
  <1>19. Pieces(more).full = full /\ Pieces(more).rest = rest  BY <1>18
  <1> QED  BY <1>1, <1>12, <1>16, <1>17, <1>19

\* What is given, when the pieces are full buffers.
LEMMA PiecesGiven ==
    ASSUME NEW full \in Seq(Seq(Token))
    PROVE  LET ds == [i \in DOMAIN full |-> Called("write", full[i])]
           IN  /\ ds \in Seq(Callbacks) /\ Len(ds) = Len(full) /\ GivenBy(ds) = FlattenSeq(full)
               /\ \A i \in 1..Len(ds) : ds[i].st = "write"
  <1>1. PICK n \in Nat : n = Len(full) /\ DOMAIN full = 1..n  OBVIOUS
  <1>2. \A i \in 1..n : full[i] \in Seq(Token)  BY <1>1
  <1>3. \A i \in 1..n : /\ Called("write", full[i]) \in Callbacks
                        /\ Called("write", full[i]).st = "write"
                        /\ Called("write", full[i]).data = full[i]
    BY <1>2 DEF Called, Callbacks
  <1>4. PICK ds : ds = [i \in DOMAIN full |-> Called("write", full[i])]  OBVIOUS
  <1>5. ds \in [1..n -> Callbacks]  BY <1>1, <1>3, <1>4
  <1>6. ds \in Seq(Callbacks) /\ Len(ds) = n /\ DOMAIN ds = 1..n  BY <1>5
  <1>7. \A i \in 1..n : ds[i].st = "write" /\ ds[i].data = full[i]  BY <1>1, <1>3, <1>4
  <1>8. DataOf(ds) = full
    <2>1. DataOf(ds) \in Seq(Seq(Token)) /\ Len(DataOf(ds)) = n  BY <1>6, DataTyped
    <2>2. \A i \in 1..n : DataOf(ds)[i] = full[i]  BY <1>6, <1>7 DEF DataOf
    <2> QED  BY <1>1, <2>1, <2>2, SeqEqual
  <1> QED  BY <1>1, <1>4, <1>6, <1>7, <1>8 DEF GivenBy

-----------------------------------------------------------------------------
(* The search for the delimiter.                                             *)

\* p of the file was held on to, the last m bytes read may begin the
\* delimiter, and no more of them do.
Matching(p, m, a, r) ==
    LET g == Heading(r)
        k == Len(p) + m
    IN  /\ p \in Seq(Token) /\ m \in 0..2
        /\ Prefix(p, r.file) /\ k <= Len(r.file) + 2
        /\ \A i \in 1..m : g[2 + Len(p) + i] = Delim[i]
        /\ m = 0 => /\ k >= 1 => g[2 + k] # "cr"
                    /\ k >= 2 => ~(g[1 + k] = "cr" /\ g[2 + k] = "lf")
        /\ Rest(a, g, 2 + k)

\* The file and its delimiter, as a function.
Text(d, r) ==
    LET L == Len(r.file)
    IN  /\ \A i \in 1..(L + 3) : d[i] = Heading(r)[2 + i]
        /\ \A i \in 1..L : d[i] = r.file[i] /\ d[i] \in Plain
        /\ d[L + 1] = "cr" /\ d[L + 2] = "lf" /\ d[L + 3] = "mark"

LEMMA TextIs ==
    ASSUME NEW r \in Requests
    PROVE  \E d : Text(d, r)
  <1>1. PICK L \in Nat : L = Len(r.file)  BY HeadingTyped
  <1>2. PICK g \in Seq(Token) : g = Heading(r)  BY HeadingTyped
  <1>3. PICK d : d = [i \in 1..(L + 3) |-> g[2 + i]]  OBVIOUS
  <1>4. \A i \in 1..(L + 3) : d[i] = g[2 + i]  BY <1>3
  <1>5. /\ \A i \in 1..L : g[2 + i] = r.file[i] /\ r.file[i] \in Plain
        /\ g[L + 3] = "cr" /\ g[L + 4] = "lf" /\ g[L + 5] = "mark"
    BY <1>1, <1>2, HeadingIs
  <1>6. \A i \in 1..L : d[i] = r.file[i] /\ d[i] \in Plain
    <2>1. \A i \in 1..L : i \in 1..(L + 3)  OBVIOUS
    <2> QED  BY <1>4, <1>5, <2>1
  <1>7. d[L + 1] = "cr" /\ d[L + 2] = "lf" /\ d[L + 3] = "mark"
    <2>1. /\ L + 1 \in 1..(L + 3) /\ L + 2 \in 1..(L + 3) /\ L + 3 \in 1..(L + 3)
          /\ 2 + (L + 1) = L + 3 /\ 2 + (L + 2) = L + 4 /\ 2 + (L + 3) = L + 5
      OBVIOUS
    <2>2. d[L + 1] = g[2 + (L + 1)] /\ d[L + 2] = g[2 + (L + 2)] /\ d[L + 3] = g[2 + (L + 3)]
      BY <1>4, <2>1
    <2> QED  BY <1>5, <2>1, <2>2
  <1>8. Text(d, r)  BY <1>1, <1>2, <1>4, <1>6, <1>7 DEF Text
  <1> QED  BY <1>8

\* The delimiter has one beginning only.
LEMMA DelimIs == Delim[1] = "cr" /\ Delim[2] = "lf" /\ Delim[3] = "mark"
  BY DEF Delim

\* The bytes before the one that comes next, k + 1, and what it can be.
MatchAt(d, L, n, m, k) ==
    /\ L \in Nat /\ n \in Nat /\ m \in 0..2 /\ k \in Nat /\ k = n + m /\ k <= L + 2
    /\ \A i \in 1..L : d[i] \in Plain
    /\ d[L + 1] = "cr" /\ d[L + 2] = "lf" /\ d[L + 3] = "mark"
    /\ \A i \in 1..m : d[n + i] = Delim[i]
    /\ m = 0 => (k >= 1 => d[k] # "cr")
    /\ m = 0 => (k >= 2 => ~(d[k - 1] = "cr" /\ d[k] = "lf"))

LEMMA MatchFacts ==
    ASSUME NEW d, NEW L, NEW n, NEW m, NEW k, MatchAt(d, L, n, m, k)
    PROVE  /\ m = 1 => d[k] = "cr"
           /\ m = 2 => d[k] = "lf" /\ k >= 2
           /\ k = L + 2 => m = 2
           /\ k = L + 1 => m = 1
           /\ d[k + 1] = "mark" => k = L + 2
           /\ k + 1 <= L + 2 /\ d[k + 1] = "cr" => k <= L
  <1>0. /\ L \in Nat /\ n \in Nat /\ m \in 0..2 /\ k \in Nat /\ k = n + m /\ k <= L + 2
        /\ \A i \in 1..L : d[i] \in Plain
        /\ d[L + 1] = "cr" /\ d[L + 2] = "lf" /\ d[L + 3] = "mark"
        /\ \A i \in 1..m : d[n + i] = Delim[i]
        /\ m = 0 => (k >= 1 => d[k] # "cr")
        /\ m = 0 => (k >= 2 => ~(d[k - 1] = "cr" /\ d[k] = "lf"))
    BY DEF MatchAt
  <1>1. m = 1 => d[k] = "cr"
    <2>1. m = 1 => k = n + 1 /\ 1 \in 1..m  BY <1>0
    <2> QED  BY <1>0, <2>1, DelimIs
  <1>2. m = 2 => d[k] = "lf" /\ k >= 2
    <2>1. m = 2 => k = n + 2 /\ 2 \in 1..m /\ k >= 2  BY <1>0
    <2>2. m = 2 => d[k] = "lf"  BY <1>0, <2>1, DelimIs
    <2> QED  BY <1>0, <2>1, <2>2
  <1>3. m = 0 \/ m = 1 \/ m = 2  BY <1>0
  <1>4. k = L + 2 => m = 2
    <2>1. SUFFICES ASSUME k = L + 2, m # 2 PROVE FALSE  BY <1>0
    <2>2. d[k] = "lf" /\ d[k - 1] = "cr" /\ k >= 2
      <3>1. k - 1 = L + 1 /\ k >= 2  BY <1>0, <2>1
      <3>2. d[k] = "lf"  BY <1>0, <2>1
      <3>3. d[k - 1] = "cr"  BY <1>0, <3>1
      <3> QED  BY <1>0, <3>1, <3>2, <3>3
    <2>3. CASE m = 0  BY <1>0, <2>2, <2>3
    <2>4. CASE m = 1  BY <1>0, <1>1, <2>2, <2>4
    <2> QED  BY <1>0, <1>3, <2>1, <2>3, <2>4
  <1>5. k = L + 1 => m = 1
    <2>1. SUFFICES ASSUME k = L + 1, m # 1 PROVE FALSE  BY <1>0
    <2>2. d[k] = "cr" /\ k >= 1
      <3>1. k >= 1  BY <1>0, <2>1
      <3>2. d[k] = "cr"  BY <1>0, <2>1
      <3> QED  BY <1>0, <3>1, <3>2
    <2>3. CASE m = 0  BY <1>0, <2>2, <2>3
    <2>4. CASE m = 2  BY <1>0, <1>2, <2>2, <2>4
    <2> QED  BY <1>0, <1>3, <2>1, <2>3, <2>4
  <1>6. d[k + 1] = "mark" => k = L + 2
    <2>1. SUFFICES ASSUME d[k + 1] = "mark", k # L + 2 PROVE FALSE  BY <1>0
    <2>2. k + 1 \in 1..L \/ k + 1 = L + 1 \/ k + 1 = L + 2  BY <1>0, <2>1
    <2>3. "mark" \notin Plain  BY DEF Plain
    <2>4. CASE k + 1 \in 1..L  BY <1>0, <2>1, <2>3, <2>4
    <2>5. CASE k + 1 = L + 1  BY <1>0, <2>1, <2>5
    <2>6. CASE k + 1 = L + 2  BY <1>0, <2>1, <2>6
    <2> QED  BY <1>0, <2>2, <2>4, <2>5, <2>6
  <1>7. k + 1 <= L + 2 /\ d[k + 1] = "cr" => k <= L
    <2>1. SUFFICES ASSUME k + 1 <= L + 2, d[k + 1] = "cr", ~(k <= L) PROVE FALSE  BY <1>0
    <2>2. k + 1 = L + 2  BY <1>0, <2>1
    <2>3. d[k + 1] = "lf"  BY <1>0, <2>2
    <2> QED  BY <1>0, <2>1, <2>3
  <1> QED  BY <1>1, <1>2, <1>4, <1>5, <1>6, <1>7

LEMMA MatchStarts ==
    ASSUME NEW a, NEW r \in Requests, Rest(a, Heading(r), 2)
    PROVE  Matching(<<>>, 0, a, r)
  <1>1. Len(<<>>) = 0 /\ <<>> \in Seq(Token)  BY Short
  <1>2. PICK L \in Nat : L = Len(r.file)  BY HeadingTyped
  <1>3. Prefix(<<>>, r.file)  BY <1>1, <1>2 DEF Prefix
  <1>4. 0 \in 0..2 /\ 0 + 0 = 0 /\ 2 + 0 = 2 /\ 0 <= L + 2  OBVIOUS
  <1>5. Rest(a, Heading(r), 2 + (Len(<<>>) + 0))  BY <1>1, <1>4
  <1>6. \A i \in 1..0 : FALSE  OBVIOUS
  <1>7. ~(Len(<<>>) + 0 >= 1) /\ ~(Len(<<>>) + 0 >= 2) /\ Len(<<>>) + 0 <= Len(r.file) + 2
    BY <1>1, <1>2
  <1> QED  BY <1>1, <1>3, <1>4, <1>5, <1>6, <1>7, Zenon DEF Matching

\* Nothing was lost or added: the bytes put off, and the one that came.
Off(q, p, n, m, e) ==
    /\ p \in Seq(Token) /\ n \in Nat /\ n = Len(p) /\ m \in 0..2 /\ e \in Seq(Token)
    /\ q = p \o (SubSeq(Delim, 1, m) \o e)

LEMMA PutOff ==
    ASSUME NEW q, NEW p, NEW n, NEW m, NEW e, Off(q, p, n, m, e)
    PROVE  /\ q \in Seq(Token) /\ Len(q) = n + m + Len(e)
           /\ \A i \in 1..n : q[i] = p[i]
           /\ \A i \in 1..m : q[n + i] = Delim[i]
           /\ \A i \in 1..Len(e) : q[n + m + i] = e[i]
  <1>0. /\ p \in Seq(Token) /\ n \in Nat /\ n = Len(p) /\ m \in 0..2 /\ e \in Seq(Token)
        /\ q = p \o (SubSeq(Delim, 1, m) \o e)
    BY DEF Off
  <1>1. PICK x \in Nat : x = m /\ x <= 2  BY <1>0
  <1>2. PICK d \in Seq(Token) : d = Delim /\ Len(d) = 3  BY DelimTyped
  <1>3. PICK s \in Seq(Token) : s = SubSeq(d, 1, x)
    <2>1. x <= Len(d)  BY <1>1, <1>2
    <2>2. SubSeq(d, 1, x) \in Seq(Token)  BY <2>1, Sub
    <2> QED  BY <2>2
  <1>4. Len(s) = x /\ \A i \in 1..x : s[i] = d[i]  BY <1>1, <1>2, <1>3
  <1>5. PICK y \in Nat : y = Len(e)  BY <1>0
  <1>6. PICK t \in Seq(Token) : t = s \o e  BY <1>0, Joined
  <1>7. /\ Len(t) = x + y /\ (\A i \in 1..x : t[i] = s[i])
        /\ \A i \in 1..y : t[x + i] = e[i]
    <2>1. x = Len(s)  BY <1>4
    <2> QED  BY <1>0, <1>5, <1>6, <2>1, Joins, SMTT(30)
  <1>8. PICK u \in Seq(Token) : u = p \o t  BY <1>0, Joined
  <1>9. PICK z \in Nat : z = x + y  OBVIOUS
  <1>9a. z = Len(t)  BY <1>7, <1>9
  <1>9b. q = u  BY <1>0, <1>1, <1>2, <1>3, <1>6, <1>8
  <1>10. /\ q \in Seq(Token) /\ Len(q) = n + z /\ (\A i \in 1..n : q[i] = p[i])
         /\ \A i \in 1..z : q[n + i] = t[i]
    <2>1. /\ Len(u) = n + z /\ (\A i \in 1..n : u[i] = p[i])
          /\ \A i \in 1..z : u[n + i] = t[i]
      BY <1>0, <1>8, <1>9a, Joins
    <2> QED  BY <1>9b, <2>1
  <1>11. \A i \in 1..x : q[n + i] = d[i]
    <2>1. \A i \in 1..x : i \in 1..z  BY <1>9
    <2> QED  BY <1>4, <1>7, <1>10, <2>1
  <1>12. \A i \in 1..y : q[n + x + i] = e[i]
    <2>1. TAKE i \in 1..y
    <2>2. x + i \in 1..z /\ n + (x + i) = n + x + i  BY <1>0, <1>9
    <2>3. q[n + (x + i)] = t[x + i]  BY <1>10, <2>2
    <2> QED  BY <1>7, <2>2, <2>3
  <1>13. Len(q) = n + x + y  BY <1>0, <1>9, <1>10
  <1> QED  BY <1>1, <1>2, <1>5, <1>10, <1>11, <1>12, <1>13

\* One more byte of the file, or of its delimiter.
LEMMA MatchGoesOn ==
    ASSUME NEW p, NEW m, NEW a, NEW b, NEW r \in Requests, Matching(p, m, a, r), Shifted(a, b),
           NEW c, c = a[1]
    PROVE  /\ c = Delim[m + 1] =>
                IF m = 2 THEN p = r.file ELSE Matching(p, m + 1, b, r)
           /\ c # Delim[m + 1] =>
                \A e \in Seq(Token) : \A q :
                    /\ q = p \o (SubSeq(Delim, 1, m) \o e)
                    /\ e = IF c = Delim[1] THEN <<>> ELSE <<c>>
                    => Matching(q, IF c = Delim[1] THEN 1 ELSE 0, b, r)
  <1>1. PICK f \in Seq(Plain) : f = r.file  BY FileBytes
  <1>2. PICK L \in Nat : L = Len(f)  OBVIOUS
  <1>3. PICK g \in Seq(Token) : g = Heading(r)  BY HeadingTyped
  <1>4. Len(g) = L + 5  BY <1>1, <1>2, <1>3, HeadingIs
  <1>5. PICK d : Text(d, r)  BY TextIs
  <1>6. /\ \A i \in 1..(L + 3) : d[i] = g[2 + i]
        /\ \A i \in 1..L : d[i] = f[i] /\ d[i] \in Plain
        /\ d[L + 1] = "cr" /\ d[L + 2] = "lf" /\ d[L + 3] = "mark"
    BY <1>1, <1>2, <1>3, <1>5 DEF Text
  <1>7. p \in Seq(Token) /\ m \in 0..2  BY DEF Matching
  <1>8. PICK n \in Nat : n = Len(p)  BY <1>7
  <1>9. PICK k \in Nat : k = n + m  BY <1>7
  <1>10. /\ n <= L /\ (\A i \in 1..n : p[i] = f[i]) /\ k <= L + 2
         /\ \A i \in 1..m : g[2 + n + i] = Delim[i]
         /\ m = 0 => (k >= 1 => g[2 + k] # "cr")
         /\ m = 0 => (k >= 2 => ~(g[1 + k] = "cr" /\ g[2 + k] = "lf"))
         /\ Rest(a, g, 2 + k)
    BY <1>1, <1>2, <1>3, <1>8, <1>9 DEF Matching, Prefix
  <1>10a. k <= L + 2 /\ n <= L  BY <1>10
  <1>11. \A i \in 1..m : d[n + i] = Delim[i]
    <2>1. \A i \in 1..m : n + i \in 1..(L + 3) /\ 2 + (n + i) = 2 + n + i
      BY <1>7, <1>9, <1>10a
    <2> QED  BY <1>6, <1>10, <2>1
  <1>12. m = 0 => (k >= 1 => d[k] # "cr")
    <2>1. k >= 1 => k \in 1..(L + 3)  BY <1>10a
    <2> QED  BY <1>6, <1>10, <2>1
  <1>13. m = 0 => (k >= 2 => ~(d[k - 1] = "cr" /\ d[k] = "lf"))
    <2>1. k >= 2 => k \in 1..(L + 3) /\ k - 1 \in 1..(L + 3) /\ 2 + (k - 1) = 1 + k  BY <1>10a
    <2> QED  BY <1>6, <1>10, <2>1
  <1>14. /\ m = 1 => d[k] = "cr"
         /\ m = 2 => d[k] = "lf" /\ k >= 2
         /\ k = L + 2 => m = 2
         /\ k = L + 1 => m = 1
         /\ d[k + 1] = "mark" => k = L + 2
         /\ k + 1 <= L + 2 /\ d[k + 1] = "cr" => k <= L
    <2>1. \A i \in 1..L : d[i] \in Plain  BY <1>6
    <2>2. d[L + 1] = "cr" /\ d[L + 2] = "lf" /\ d[L + 3] = "mark"  BY <1>6
    <2>3. m \in 0..2  BY <1>7
    <2>4. k <= L + 2  BY <1>10a
    <2>5. MatchAt(d, L, n, m, k)  BY <1>9, <1>11, <1>12, <1>13, <2>1, <2>2, <2>3, <2>4 DEF MatchAt
    <2> QED  BY <2>5, MatchFacts
  <1>15. PICK j \in Nat : j = 2 + k  OBVIOUS
  <1>16. c = g[j + 1] /\ Rest(b, g, j + 1)
    <2>1. j < Len(g)  BY <1>4, <1>10a, <1>15
    <2>2. Rest(a, g, j)  BY <1>10, <1>15
    <2> QED  BY <2>1, <2>2, RestShift
  <1>17. c = d[k + 1]
    <2>1. k + 1 \in 1..(L + 3) /\ 2 + (k + 1) = j + 1  BY <1>10a, <1>15
    <2> QED  BY <1>6, <1>16, <2>1
  <1>18. PICK kk \in Nat : kk = k + 1  OBVIOUS
  <1>19. Rest(b, g, 2 + kk)
    <2>1. j + 1 = 2 + kk  BY <1>15, <1>18
    <2> QED  BY <1>16, <2>1
  <1>20. Len(r.file) = L /\ Heading(r) = g  BY <1>1, <1>2, <1>3
  <1>21. CASE c = Delim[m + 1] /\ m = 2
    <2>1. c = "mark"  BY <1>21, DelimIs
    <2>2. k = L + 2  BY <1>14, <1>17, <1>18, <2>1
    <2>3. n = L  BY <1>9, <1>21, <2>2
    <2>4. \A i \in 1..n : p[i] = f[i]  BY <1>10
    <2>5. p \in Seq(Token) /\ f \in Seq(Token)  BY <1>7, PlainTokens
    <2>6. p = f  BY <1>2, <1>8, <2>3, <2>4, <2>5, SeqEqual
    <2> QED  BY <1>1, <1>21, <2>6
  <1>22. CASE c = Delim[m + 1] /\ m # 2
    <2>1. k # L + 2  BY <1>14, <1>22
    <2>2. kk <= L + 2 /\ kk = n + (m + 1) /\ m + 1 \in 0..2 /\ m + 1 # 0
      BY <1>7, <1>9, <1>10a, <1>18, <1>22, <2>1
    <2>3. \A i \in 1..(m + 1) : g[2 + n + i] = Delim[i]
      <3>1. TAKE i \in 1..(m + 1)
      <3>2. CASE i \in 1..m  BY <1>10, <3>2
      <3>3. CASE i \notin 1..m
        <4>1. i = m + 1 /\ 2 + n + i = j + 1  BY <1>7, <1>9, <1>15, <3>3
        <4> QED  BY <1>16, <1>22, <4>1
      <3> QED  BY <3>2, <3>3
    <2>4. Prefix(p, r.file)  BY DEF Matching
    <2>5. Matching(p, m + 1, b, r)
      <3>1. /\ Len(p) = n /\ n + (m + 1) = kk /\ kk <= L + 2
            /\ ~(m + 1 = 0)
        BY <1>8, <2>2
      <3> QED  BY <1>7, <1>19, <1>20, <2>2, <2>3, <2>4, <3>1 DEF Matching
    <2> QED  BY <1>22, <2>5
  <1>23. CASE c # Delim[m + 1]
    <2>1. SUFFICES ASSUME NEW e \in Seq(Token), NEW q,
                          q = p \o (SubSeq(Delim, 1, m) \o e),
                          e = IF c = Delim[1] THEN <<>> ELSE <<c>>
                   PROVE  Matching(q, IF c = Delim[1] THEN 1 ELSE 0, b, r)
      BY <1>23
    <2>2. k # L + 2
      <3>1. SUFFICES ASSUME k = L + 2 PROVE FALSE  OBVIOUS
      <3>2. m = 2  BY <1>14, <3>1
      <3>3. c = "mark"
        <4>1. k + 1 = L + 3  BY <3>1
        <4>2. c = d[L + 3]  BY <1>17, <4>1
        <4> QED  BY <1>6, <4>2
      <3>4. Delim[m + 1] = "mark"  BY <3>2, DelimIs
      <3> QED  BY <1>23, <3>3, <3>4
    <2>3. kk <= L + 2  BY <1>10a, <1>18, <2>2
    <2>4. /\ q \in Seq(Token) /\ Len(q) = n + m + Len(e)
          /\ \A i \in 1..n : q[i] = p[i]
          /\ \A i \in 1..m : q[n + i] = Delim[i]
          /\ \A i \in 1..Len(e) : q[n + m + i] = e[i]
      <3>1. p \in Seq(Token) /\ m \in 0..2  BY <1>7
      <3>2. q = p \o (SubSeq(Delim, 1, m) \o e)  BY <2>1
      <3>3. Off(q, p, n, m, e)  BY <1>8, <2>1, <3>1, <3>2 DEF Off
      <3> QED  BY <3>3, PutOff
    <2>5. CASE c = "cr"
      <3>1. e = <<>> /\ Len(e) = 0  BY <2>1, <2>5, DelimIs
      <3>2. Len(q) = k  BY <1>7, <1>9, <2>4, <3>1
      <3>3. k <= L
        <4>1. d[k + 1] = "cr" /\ k + 1 <= L + 2  BY <1>17, <1>18, <2>3, <2>5
        <4> QED  BY <1>14, <4>1
      <3>4. \A i \in 1..k : q[i] = f[i]
        <4>1. TAKE i \in 1..k
        <4>2. CASE i \in 1..n  BY <1>10, <2>4, <4>2
        <4>3. CASE i \notin 1..n
          <5>1. PICK h \in 1..m : i = n + h
            <6>1. i - n \in 1..m /\ i = n + (i - n)  BY <1>7, <1>9, <4>3
            <6> QED  BY <6>1
          <5>2. q[n + h] = Delim[h] /\ d[n + h] = Delim[h]  BY <1>11, <2>4
          <5>3. i \in 1..L  BY <3>3
          <5>4. d[i] = f[i]  BY <1>6, <5>3
          <5> QED  BY <5>1, <5>2, <5>4
        <4> QED  BY <4>2, <4>3
      <3>5. Prefix(q, r.file)
        <4>1. k <= L /\ Len(q) = k /\ \A i \in 1..k : q[i] = f[i]  BY <3>2, <3>3, <3>4
        <4> QED  BY <1>1, <1>2, <4>1 DEF Prefix
      <3>6. \A i \in 1..1 : g[2 + k + i] = Delim[i]
        <4>1. 2 + k + 1 = j + 1  BY <1>15
        <4>2. g[2 + k + 1] = Delim[1]  BY <1>16, <2>5, <4>1, DelimIs
        <4>3. \A i \in 1..1 : i = 1  OBVIOUS
        <4> QED  BY <4>2, <4>3
      <3>7. Matching(q, 1, b, r)
        <4>1. Len(q) = k /\ k + 1 = kk /\ kk <= L + 2 /\ 1 \in 0..2 /\ ~(1 = 0)
          BY <1>18, <2>3, <3>2
        <4> QED  BY <1>19, <1>20, <2>4, <3>5, <3>6, <4>1 DEF Matching
      <3>8. c = Delim[1]  BY <2>5, DelimIs
      <3> QED  BY <3>7, <3>8
    <2>6. CASE c # "cr"
      <3>1. e = <<c>>  BY <2>1, <2>6, DelimIs
      <3>2. Len(e) = 1 /\ e[1] = c  BY <3>1
      <3>3. Len(q) = kk
        <4>1. Len(q) = n + m + 1  BY <2>4, <3>2
        <4> QED  BY <1>7, <1>9, <1>18, <4>1
      <3>4. kk <= L
        <4>1. SUFFICES ASSUME ~(kk <= L) PROVE FALSE  OBVIOUS
        <4>2. k = L \/ k = L + 1  BY <1>18, <2>3, <4>1
        <4>3. CASE k = L
          <5>1. c = d[L + 1]  BY <1>17, <4>3
          <5> QED  BY <1>6, <2>6, <5>1
        <4>4. CASE k = L + 1
          <5>1. m = 1  BY <1>14, <4>4
          <5>2. k + 1 = L + 2  BY <4>4
          <5>3. c = "lf"  BY <1>6, <1>17, <5>2
          <5>4. Delim[m + 1] = "lf"
            <6>1. m + 1 = 2  BY <5>1
            <6> QED  BY <6>1, DelimIs
          <5> QED  BY <1>23, <5>3, <5>4
        <4> QED  BY <4>2, <4>3, <4>4
      <3>5. \A i \in 1..kk : q[i] = f[i]
        <4>1. TAKE i \in 1..kk
        <4>2. CASE i \in 1..n  BY <1>10, <2>4, <4>2
        <4>3. CASE i \notin 1..n /\ i # kk
          <5>1. PICK h \in 1..m : i = n + h
            <6>1. i - n \in 1..m /\ i = n + (i - n)  BY <1>7, <1>9, <1>18, <4>3
            <6> QED  BY <6>1
          <5>2. q[n + h] = Delim[h] /\ d[n + h] = Delim[h]  BY <1>11, <2>4
          <5>3. i \in 1..L  BY <3>4
          <5>4. d[i] = f[i]  BY <1>6, <5>3
          <5> QED  BY <5>1, <5>2, <5>4
        <4>4. CASE i = kk
          <5>1. 1 \in 1..Len(e)  BY <3>2
          <5>2. q[n + m + 1] = e[1]  BY <2>4, <5>1
          <5>3. n + m + 1 = kk  BY <1>7, <1>9, <1>18
          <5>4. q[kk] = c  BY <3>2, <5>2, <5>3
          <5>5. kk \in 1..L  BY <1>18, <3>4
          <5>6. d[kk] = f[kk]  BY <1>6, <5>5
          <5>7. c = d[kk]  BY <1>17, <1>18
          <5> QED  BY <4>4, <5>4, <5>6, <5>7
        <4> QED  BY <4>2, <4>3, <4>4
      <3>6. Prefix(q, r.file)
        <4>1. kk <= L /\ Len(q) = kk /\ \A i \in 1..kk : q[i] = f[i]  BY <3>3, <3>4, <3>5
        <4> QED  BY <1>1, <1>2, <4>1 DEF Prefix
      <3>7. g[2 + kk] # "cr"
        <4>1. 2 + kk = j + 1  BY <1>15, <1>18
        <4> QED  BY <1>16, <2>6, <4>1
      <3>8. kk >= 2 => ~(g[1 + kk] = "cr" /\ g[2 + kk] = "lf")
        <4>1. SUFFICES ASSUME kk >= 2, g[1 + kk] = "cr", g[2 + kk] = "lf" PROVE FALSE
          OBVIOUS
        <4>2. k >= 1 /\ k \in 1..(L + 3) /\ 1 + kk = 2 + k /\ 2 + kk = j + 1
          BY <1>10a, <1>15, <1>18, <4>1
        <4>3. d[k] = "cr"  BY <1>6, <4>1, <4>2
        <4>4. c = "lf"  BY <1>16, <4>1, <4>2
        <4>5. m = 0 \/ m = 1 \/ m = 2  BY <1>7
        <4>6. CASE m = 0  BY <1>12, <4>2, <4>3, <4>6
        <4>7. CASE m = 1
          <5>1. m + 1 = 2  BY <4>7
          <5> QED  BY <1>23, <4>4, <5>1, DelimIs
        <4>8. CASE m = 2  BY <1>14, <4>3, <4>8
        <4> QED  BY <4>5, <4>6, <4>7, <4>8
      <3>9. Matching(q, 0, b, r)
        <4>1. Len(q) = kk /\ kk + 0 = kk /\ kk <= L + 2 /\ 0 \in 0..2
          BY <2>3, <3>3
        <4>2. \A i \in 1..0 : FALSE  OBVIOUS
        <4> QED  BY <1>19, <1>20, <2>4, <3>6, <3>7, <3>8, <4>1, <4>2 DEF Matching
      <3>10. c # Delim[1]  BY <2>6, DelimIs
      <3> QED  BY <3>9, <3>10
    <2> QED  BY <2>5, <2>6
  <1> QED  BY <1>7, <1>21, <1>22, <1>23

-----------------------------------------------------------------------------
(* The inductive invariant.                                                  *)

\* Where lines are read, or the bytes of a file in a form, and where anything is.
Lines   == {"wait", "request", "headers", "form", "part", "fieldHeaders", "value", "fileHeaders",
            "file", "fileEnd", "tail"}
Reading == Lines \cup {"raw", "rawBytes"}

\* What the peer sent for the file, and the handler or the buffer has.
Held == Given \o buf

InHeaders ==
    /\ asked.kind = "raw" =>
         /\ ~isForm
         /\ \/ Rest(Ahead, Opening(asked), 1)
            \/ Rest(Ahead, Opening(asked), 2) /\ length = Len(asked.file)
    /\ IsForm(asked) => isForm \/ Rest(Ahead, Opening(asked), 1)

InRaw ==
    /\ asked.kind = "raw" /\ length = Len(asked.file)
    /\ Started(calls) /\ total = Len(Given)
    /\ Prefix(Held, asked.file) /\ Rest(Ahead, Opening(asked), 3 + Len(Held))
    /\ buf # <<>> => Len(Held) < Len(asked.file)

InUpload == Started(calls) /\ Matching(Held, matched, Ahead, asked)

\* What lies ahead of the parser where it stands.
Place ==
    /\ pc \in {"wait", "request"} => Rest(Ahead, Opening(asked), 0)
    /\ pc = "headers" => InHeaders
    /\ pc = "raw" => /\ asked.kind = "raw" /\ length = Len(asked.file)
                     /\ Rest(Ahead, Opening(asked), 3)
    /\ pc = "rawBytes" => InRaw
    /\ pc = "fileHeaders" => Rest(Ahead, Heading(asked), 0) \/ Rest(Ahead, Heading(asked), 1)
    /\ pc = "file" => InUpload
    /\ pc = "fileEnd" => Started(calls) /\ Held = asked.file

Connected == pc \in Reading => asked \in Requests /\ conn
\* What a silent peer has not sent begins inside a body, once it sent anything.
Softly    == pc \notin {"wait", "drop"} \/ (pc = "wait" /\ Waiting # <<>>) => Soft
Announced == pc \in Lines => Marked(Ahead, asked)
Over      == pc \notin InFile => calls = <<>> \/ Told(calls, asked.file, fin)
AtRest    == pc = "idle" => calls = <<>>

UploadInv == TokensInv /\ Connected /\ Softly /\ Announced /\ Place /\ Over /\ AtRest

\* Steps after which no file is read, and none was.
LEMMA Elsewhere ==
    ASSUME UploadInv, TokensInv', pc \notin InFile \cup {"drop"}, pc = "wait" => pc' = "drop",
           pc' \notin Reading \cup {"idle"},
           calls' = calls, asked' = asked, left' = left, fin' = fin
    PROVE  UploadInv'
  <1>1. Connected' /\ Announced' /\ AtRest'  BY DEF Connected, Announced, AtRest, Reading
  <1>2. Place'  BY DEF Place, Reading, Lines
  <1>3. Over'  BY DEF UploadInv, Over, InFile
  <1>4. Softly'
    <2>1. pc \notin {"wait", "drop"} => Soft'  BY DEF UploadInv, Softly, Soft
    <2>2. pc' # "wait"  BY DEF Reading, Lines
    <2> QED  BY <2>1, <2>2 DEF Softly
  <1> QED  BY <1>1, <1>2, <1>3, <1>4 DEF UploadInv

LEMMA ControlUploads ==
    ASSUME UploadInv,
           \/ GiveUp \/ PlainShort \/ PlainDone \/ FormEnd \/ Allow \/ Return
    PROVE  UploadInv'
  <1>1. /\ buf' = buf /\ matched' = matched /\ rx' = rx /\ sock' = sock /\ left' = left
        /\ calls' = calls /\ asked' = asked /\ fin' = fin
    BY DEF GiveUp, PlainShort, PlainDone, FormEnd, Allow, Return, peers, socket, body
  <1>2. /\ pc \notin InFile \cup {"drop"} /\ (pc = "wait" => pc' = "drop")
        /\ pc' \notin Reading \cup {"idle"} /\ pc' # "file"
    BY DEF GiveUp, PlainShort, PlainDone, FormEnd, Allow, Return, Goto, InFile, Reading, Lines
  <1>3. TokensInv'  BY <1>1, <1>2 DEF UploadInv, TokensInv
  <1> QED  BY <1>1, <1>2, <1>3, Elsewhere

LEMMA AnswerUploads ==
    ASSUME UploadInv,
           \/ Refuse \/ SendOpen \/ ChunkResponseBegin \/ ChunkResponseEnd \/ Finalize
           \/ \E n \in Sizes : Send(n) \/ SendFile(n) \/ SendContent(n) \/ ChunkWrite(n)
    PROVE  UploadInv'
  <1>1. buf' = buf /\ matched' = matched /\ calls' = calls
    BY DEF Refuse, SendOpen, ChunkResponseBegin, ChunkResponseEnd, Finalize, Send, SendFile,
           SendContent, ChunkWrite, body
  <1>2. ASSUME NEW parts, Write(parts)
        PROVE  /\ rx' \in {rx, <<>>} /\ sock' = sock /\ left' = left /\ asked' = asked
               /\ fin' = fin
    BY <1>2 DEF Write, Broken
  <1>3. rx' \in {rx, <<>>} /\ sock' = sock /\ left' = left /\ asked' = asked /\ fin' = fin
    <2>1. \/ UNCHANGED <<peers, socket>>
          \/ \E parts : Write(parts)
      BY DEF Refuse, SendOpen, ChunkResponseBegin, ChunkResponseEnd, Finalize, Send, SendFile,
             SendContent, ChunkWrite
    <2>2. UNCHANGED <<peers, socket>> =>
            rx' = rx /\ sock' = sock /\ left' = left /\ asked' = asked /\ fin' = fin
      BY DEF peers, socket
    <2> QED  BY <1>2, <2>1, <2>2
  <1>4. /\ pc \notin InFile \cup {"drop", "wait"} /\ pc' \notin Reading \cup {"idle"} /\ pc' # "file"
    BY DEF Refuse, SendOpen, ChunkResponseBegin, ChunkResponseEnd, Finalize, Send, SendFile,
           SendContent, ChunkWrite, Goto, InFile, Reading, Lines
  <1>5. TokensInv'  BY <1>1, <1>3, <1>4, Short DEF UploadInv, TokensInv
  <1> QED  BY <1>1, <1>3, <1>4, <1>5, Elsewhere

\* The connection and the bodies without a handler.
LEMMA SocketUploads ==
    ASSUME UploadInv, PlainRead \/ ParseDone
    PROVE  UploadInv'
  <1>1. /\ buf' = buf /\ matched' = matched /\ left' = left
        /\ calls' = calls /\ asked' = asked /\ fin' = fin
    BY DEF PlainRead, ParseDone, body
  <1>2. /\ pc \notin InFile \cup {"drop", "wait"} /\ pc' \notin Reading \cup {"idle"} /\ pc' # "file"
    BY DEF PlainRead, ParseDone, Goto, InFile, Reading, Lines
  <1>3. TokensInv  BY DEF UploadInv
  <1>4. rx' \in Seq(Token) /\ sock' \in Seq(Token)
    <2>1. CASE PlainRead
      <3>1. PICK n : n = Len(Waiting)  OBVIOUS
      <3>2. Waiting \in Seq(Token)  BY <1>3, WaitingTyped
      <3>3. n \in Nat /\ n <= Len(Waiting)  BY <3>1, <3>2
      <3>4. Take(n)  BY <2>1, <3>1 DEF PlainRead
      <3> QED  BY <1>3, <3>3, <3>4, TakeTyped
    <2>2. CASE ParseDone  BY <2>2, Short DEF ParseDone, Clear
    <2> QED  BY <2>1, <2>2
  <1>5. TokensInv'  BY <1>1, <1>2, <1>3, <1>4 DEF TokensInv
  <1> QED  BY <1>1, <1>2, <1>5, Elsewhere

LEMMA ResetUploads ==
    ASSUME UploadInv, Drop \/ Reboot
    PROVE  UploadInv'
  <1>1. /\ pc' = "idle" /\ rx' = <<>> /\ sock' = <<>> /\ left' = <<>> /\ buf' = <<>>
        /\ matched' = 0 /\ calls' = <<>>
    BY DEF Drop, Reboot, Goto
  <1>2. TokensInv'  BY <1>1, Short DEF TokensInv
  <1>3. Connected' /\ Announced' /\ AtRest' /\ Place' /\ Over'
    BY <1>1 DEF Connected, Announced, AtRest, Place, Over, Reading, Lines
  <1>4. Softly'  BY <1>1 DEF Softly, Soft
  <1> QED  BY <1>2, <1>3, <1>4 DEF UploadInv

LEMMA AcceptUploads ==
    ASSUME UploadInv, NEW p \in Peers, Accept(p)
    PROVE  UploadInv'
  <1>1. PICK r \in Requests : asked' = r /\ left' = Tokens(r)  BY DEF Accept
  <1>2. /\ pc = "idle" /\ pc' = "wait" /\ rx' = <<>> /\ sock' = <<>> /\ conn' = TRUE
        /\ buf' = buf /\ matched' = matched /\ calls' = calls
    BY DEF Accept, Goto, body
  <1>3. left' \in Seq(Token)  BY <1>1, TokensTyped
  <1>4. TokensInv'  BY <1>2, <1>3, Short DEF UploadInv, TokensInv
  <1>5. Waiting' = <<>> /\ Ahead' = left'
    <2>1. Waiting' = <<>> \o <<>>  BY <1>2 DEF Waiting
    <2>2. Waiting' = <<>>  BY <2>1, Short, Associates
    <2>3. Ahead' = <<>> \o left'  BY <2>2 DEF Ahead
    <2> QED  BY <1>3, <2>2, <2>3, Associates
  <1>6. Ahead' = Tokens(r)  BY <1>1, <1>5
  <1>7. Connected'  BY <1>1, <1>2 DEF Connected
  <1>8. Softly'  BY <1>2, <1>5 DEF Softly
  <1>9. Announced'  BY <1>1, <1>6, TokensMarked DEF Announced
  <1>10. Place'  BY <1>1, <1>2, <1>6, OpeningFound DEF Place
  <1>11. Over' /\ AtRest'  BY <1>2 DEF UploadInv, AtRest, Over
  <1> QED  BY <1>4, <1>7, <1>8, <1>9, <1>10, <1>11 DEF UploadInv

LEMMA ArrivedUploads ==
    ASSUME UploadInv, RequestArrived
    PROVE  UploadInv'
  <1>1. /\ pc = "wait" /\ pc' = "request" /\ Waiting # <<>> /\ rx' = rx /\ sock' = sock
        /\ left' = left /\ buf' = buf /\ matched' = matched /\ calls' = calls /\ asked' = asked
        /\ fin' = fin /\ conn' = conn
    BY DEF RequestArrived, Goto, peers, socket, body
  <1>2. TokensInv'  BY <1>1 DEF UploadInv, TokensInv
  <1>3. Ahead' = Ahead  BY <1>1 DEF Ahead, Waiting
  <1>4. Connected'  BY <1>1 DEF UploadInv, Connected, Reading, Lines
  <1>5. Softly'  BY <1>1 DEF UploadInv, Softly, Soft
  <1>6. Announced'  BY <1>1, <1>3 DEF UploadInv, Announced, Lines
  <1>7. Place'  BY <1>1, <1>3 DEF UploadInv, Place
  <1>8. Over' /\ AtRest'  BY <1>1 DEF UploadInv, Over, AtRest, InFile
  <1> QED  BY <1>2, <1>4, <1>5, <1>6, <1>7, <1>8 DEF UploadInv

\* Nothing that the parser or the handler has changes.
LEMMA PlaceStays ==
    ASSUME Place, Ahead' = Ahead, pc' = pc, asked' = asked, isForm' = isForm, length' = length,
           calls' = calls, buf' = buf, total' = total, matched' = matched
    PROVE  Place'
  <1>1. Given' = Given /\ Held' = Held  BY DEF Held, Given
  <1> QED  BY <1>1 DEF Place, InHeaders, InRaw, InUpload

LEMMA OutsideUploads ==
    ASSUME Polite, UploadInv, (\E p \in Peers : Connect(p)) \/ Arrive \/ Close
    PROVE  UploadInv'
  <1>1. /\ pc' = pc /\ asked' = asked /\ isForm' = isForm /\ length' = length /\ calls' = calls
        /\ buf' = buf /\ total' = total /\ matched' = matched /\ conn' = conn /\ rx' = rx
    BY DEF Connect, Arrive, Close, socket, parsed, body
  <1>2. TokensInv /\ Place  BY DEF UploadInv
  <1>3. /\ left' \in Seq(Token) /\ sock' \in Seq(Token) /\ Ahead' = Ahead
        /\ (Softly => Softly')
    <2>1. CASE Arrive
      <3>1. /\ Ahead' = Ahead /\ left' \in Seq(Token) /\ sock' \in Seq(Token) /\ Soft'
        BY <1>2, <2>1, ArriveKeeps
      <3> QED  BY <3>1 DEF Softly
    <2>2. CASE Close \/ \E p \in Peers : Connect(p)
      <3>1. sock' = sock /\ left' = left  BY <2>2 DEF Connect, Close
      <3>2. Waiting' = Waiting /\ Ahead' = Ahead  BY <1>1, <3>1 DEF Waiting, Ahead
      <3>3. Soft' <=> Soft  BY <3>1 DEF Soft
      <3> QED  BY <1>1, <1>2, <3>1, <3>2, <3>3 DEF Softly, TokensInv
    <2> QED  BY <2>1, <2>2
  <1>4. TokensInv'  BY <1>1, <1>2, <1>3 DEF TokensInv
  <1>5. Connected' /\ Announced' /\ AtRest'
    BY <1>1, <1>3 DEF UploadInv, Connected, Announced, AtRest
  <1>6. Place'  BY <1>1, <1>2, <1>3, PlaceStays
  <1>7. fin' = fin \/ fin' = TRUE  BY DEF Connect, Arrive, Close
  <1>8. Over'
    <2>1. ASSUME Told(calls, asked.file, fin) PROVE Told(calls, asked.file, fin')
      BY <1>7, <2>1 DEF Told
    <2> QED  BY <1>1, <2>1 DEF UploadInv, Over
  <1> QED  BY <1>3, <1>4, <1>5, <1>6, <1>8 DEF UploadInv

-----------------------------------------------------------------------------
(* Lines.                                                                    *)

\* What a line leaves alone, and what may be ahead of the next.
LEMMA LineReads ==
    ASSUME UploadInv, Read, pc \in Lines \ {"wait", "file", "fileEnd"},
           buf' = buf, matched' = matched, calls' = calls, pc' \notin {"wait", "idle"} \cup InFile
    PROVE  /\ TokensInv' /\ Softly' /\ Announced' /\ Over' /\ AtRest' /\ Connected'
           /\ Line = "file" => Rest(Ahead', Heading(asked), 0)
  <1>1. TokensInv /\ conn /\ asked \in Requests /\ Soft /\ Marked(Ahead, asked)
    BY DEF UploadInv, Connected, Softly, Announced, Reading, Lines
  <1>2. /\ rx' \in Seq(Token) /\ sock' \in Seq(Token) /\ left' = left /\ asked' = asked
        /\ conn' = conn /\ fin' = fin
        /\ \/ Shifted(Ahead, Ahead') /\ Line = Ahead[1]
           \/ Ahead' = Ahead /\ Line = "" /\ Ahead = left
    BY <1>1, LineRead
  <1>3. TokensInv'  BY <1>1, <1>2 DEF TokensInv, InFile
  <1>4. Softly'  BY <1>1, <1>2 DEF Softly, Soft
  <1>5. Marked(Ahead', asked) /\ (Line = "file" => Rest(Ahead', Heading(asked), 0))
    BY <1>1, <1>2, MarkedShift
  <1>6. Announced'  BY <1>2, <1>5 DEF Announced
  <1>7. Over' /\ AtRest'
    BY <1>2 DEF UploadInv, Over, AtRest, InFile, Lines
  <1>8. Connected'  BY <1>1, <1>2 DEF Connected
  <1> QED  BY <1>3, <1>4, <1>5, <1>6, <1>7, <1>8

LEMMA RequestUploads ==
    ASSUME UploadInv, ParseRequest
    PROVE  UploadInv'
  <1>1. pc = "request" /\ Read /\ buf' = buf /\ matched' = matched /\ calls' = calls
    BY DEF ParseRequest, body
  <1>2. TokensInv /\ conn /\ asked \in Requests /\ Soft /\ Rest(Ahead, Opening(asked), 0)
    BY <1>1 DEF UploadInv, Connected, Softly, Place, Reading, Lines
  <1>3. PICK l \in Nat : l = Len(asked.file)  BY <1>2, HeadingTyped
  <1>4. PICK g \in Seq(Token) : g = Opening(asked)  BY <1>2, HeadingTyped
  <1>5. g[1] = "request" /\ 0 < Len(g)
    <2>1. g[1] = "request"  BY <1>2, <1>3, <1>4, OpeningIs
    <2>2. Len(g) \in {l + 3, 2, 1}  BY <1>2, <1>3, <1>4, OpeningIs
    <2> QED  BY <2>1, <2>2
  <1>6. Line = "request" /\ Rest(Ahead', g, 1)
    <2>1. PICK z \in Nat : z = 0  OBVIOUS
    <2>2. g[z + 1] = "request" /\ z < Len(g) /\ z + 1 = 1  BY <1>5, <2>1
    <2>3. g[z + 1] \notin Bytes  BY <2>2 DEF Bytes
    <2>4. Rest(Ahead, g, z)  BY <1>2, <1>4, <2>1
    <2>5. Line = g[z + 1] /\ Rest(Ahead', g, z + 1)  BY <1>1, <1>2, <2>2, <2>3, <2>4, LineFound
    <2> QED  BY <2>2, <2>5
  <1>7. pc' = "headers" /\ isForm' = FALSE  BY <1>6 DEF ParseRequest, Goto
  <1>8. TokensInv' /\ Softly' /\ Announced' /\ Over' /\ AtRest' /\ Connected'
    BY <1>1, <1>7, LineReads DEF Lines, InFile
  <1>9. asked' = asked  BY <1>1 DEF Read
  <1>10. InHeaders'  BY <1>4, <1>6, <1>7, <1>9 DEF InHeaders
  <1>11. Place'  BY <1>7, <1>10 DEF Place
  <1> QED  BY <1>8, <1>11 DEF UploadInv

\* The header a raw body or a form has; the empty line.
LEMMA HeaderLine ==
    ASSUME UploadInv, pc = "headers", Read
    PROVE  /\ asked.kind = "raw" /\ Rest(Ahead, Opening(asked), 1) =>
                Line = "length" /\ Rest(Ahead', Opening(asked), 2)
           /\ asked.kind = "raw" /\ Rest(Ahead, Opening(asked), 2) =>
                Line = "" /\ Rest(Ahead', Opening(asked), 3)
           /\ IsForm(asked) /\ Rest(Ahead, Opening(asked), 1) => Line = "form"
  <1>2. TokensInv /\ conn /\ asked \in Requests /\ Soft
    BY DEF UploadInv, Connected, Softly, Place, Reading, Lines
  <1>3. PICK l \in Nat : l = Len(asked.file)  BY <1>2, HeadingTyped
  <1>4. PICK g \in Seq(Token) : g = Opening(asked)  BY <1>2, HeadingTyped
  <1>5. asked.kind = "raw" => Len(g) = l + 3 /\ g[2] = "length" /\ g[3] = ""
    BY <1>2, <1>3, <1>4, OpeningIs
  <1>6. IsForm(asked) => Len(g) = 2 /\ g[2] = "form"  BY <1>2, <1>3, <1>4, OpeningIs
  <1>7. ASSUME NEW k \in Nat, k < Len(g), Rest(Ahead, g, k), g[k + 1] \notin Bytes
        PROVE  Line = g[k + 1] /\ Rest(Ahead', g, k + 1)
    BY <1>2, <1>7, LineFound
  <1>8. "length" \notin Bytes /\ "" \notin Bytes /\ "form" \notin Bytes  BY DEF Bytes
  <1>9. PICK one \in Nat : one = 1  OBVIOUS
  <1>10. PICK two \in Nat : two = 2  OBVIOUS
  <1>11. ASSUME asked.kind = "raw", Rest(Ahead, g, 1)
         PROVE  Line = "length" /\ Rest(Ahead', g, 2)
    <2>1. one + 1 = 2 /\ one < l + 3  BY <1>9
    <2>2. one < Len(g) /\ g[one + 1] = "length"  BY <1>5, <1>11, <2>1
    <2> QED  BY <1>7, <1>8, <1>9, <1>11, <2>1, <2>2
  <1>12. ASSUME asked.kind = "raw", Rest(Ahead, g, 2)
         PROVE  Line = "" /\ Rest(Ahead', g, 3)
    <2>1. two + 1 = 3 /\ two < l + 3  BY <1>10
    <2>2. two < Len(g) /\ g[two + 1] = ""  BY <1>5, <1>12, <2>1
    <2> QED  BY <1>7, <1>8, <1>10, <1>12, <2>1, <2>2
  <1>13. ASSUME IsForm(asked), Rest(Ahead, g, 1)
         PROVE  Line = "form"
    <2>1. one + 1 = 2 /\ one < 2  BY <1>9
    <2>2. one < Len(g) /\ g[one + 1] = "form"  BY <1>6, <1>13, <2>1
    <2> QED  BY <1>7, <1>8, <1>9, <1>13, <2>1, <2>2
  <1> QED  BY <1>4, <1>11, <1>12, <1>13

LEMMA HeaderUploads ==
    ASSUME UploadInv, ParseHeader
    PROVE  UploadInv'
  <1>1. pc = "headers" /\ Read /\ buf' = buf /\ matched' = matched /\ calls' = calls
    BY DEF ParseHeader, body
  <1>2. InHeaders  BY <1>1 DEF UploadInv, Place
  <1>3. /\ length' = IF Line = "length" THEN Len(asked.file) ELSE length
        /\ isForm' = (isForm \/ Line = "form")
        /\ IF Line # "" THEN pc' = "headers"
           ELSE IF ~IsPost(asked) THEN pc' = "parsed"
           ELSE IF isForm THEN pc' = "form"
           ELSE pc' = IF TakesData(asked) THEN "raw" ELSE "plain"
    BY <1>1 DEF ParseHeader, Goto
  <1>4. pc' \in {"headers", "parsed", "form", "raw", "plain"}  BY <1>3
  <1>5. TokensInv' /\ Softly' /\ Announced' /\ Over' /\ AtRest' /\ Connected'
    BY <1>1, <1>4, LineReads DEF Lines, InFile
  <1>6. asked' = asked  BY <1>1 DEF Read
  <1>7. /\ asked.kind = "raw" /\ Rest(Ahead, Opening(asked), 1) =>
             Line = "length" /\ Rest(Ahead', Opening(asked), 2)
        /\ asked.kind = "raw" /\ Rest(Ahead, Opening(asked), 2) =>
             Line = "" /\ Rest(Ahead', Opening(asked), 3)
        /\ IsForm(asked) /\ Rest(Ahead, Opening(asked), 1) => Line = "form"
    BY <1>1, HeaderLine
  <1> SUFFICES Place'  BY <1>5 DEF UploadInv
  <1>8. CASE asked.kind = "raw" /\ Line # ""
    <2>1. ~isForm /\ Rest(Ahead, Opening(asked), 1)  BY <1>2, <1>7, <1>8 DEF InHeaders
    <2>2. Line = "length" /\ Rest(Ahead', Opening(asked), 2)  BY <1>7, <1>8, <2>1
    <2>3. pc' = "headers" /\ ~isForm' /\ length' = Len(asked.file)  BY <1>3, <2>1, <2>2
    <2>4. ~IsForm(asked)  BY <1>8 DEF IsForm
    <2>5. InHeaders'  BY <1>6, <2>2, <2>3, <2>4 DEF InHeaders
    <2> QED  BY <2>3, <2>5 DEF Place
  <1>9. CASE asked.kind = "raw" /\ Line = ""
    <2>1. /\ ~isForm /\ Rest(Ahead, Opening(asked), 2) /\ length = Len(asked.file)
      BY <1>2, <1>7, <1>9 DEF InHeaders
    <2>2. Rest(Ahead', Opening(asked), 3)  BY <1>7, <1>9, <2>1
    <2>3. IsPost(asked) /\ TakesData(asked)  BY <1>9 DEF IsPost, TakesData
    <2>4. pc' = "raw" /\ length' = Len(asked.file)  BY <1>3, <1>9, <2>1, <2>3
    <2> QED  BY <1>6, <1>9, <2>2, <2>4 DEF Place
  <1>10. CASE IsForm(asked)
    <2>1. IsPost(asked) /\ asked.kind # "raw"  BY <1>10 DEF IsForm, IsPost
    <2>2. isForm \/ Line = "form"  BY <1>2, <1>7, <1>10 DEF InHeaders
    <2>3. isForm' /\ pc' \in {"headers", "form"}  BY <1>3, <2>1, <2>2
    <2>4. InHeaders'  BY <1>6, <2>1, <2>3 DEF InHeaders
    <2> QED  BY <2>3, <2>4 DEF Place
  <1>11. CASE asked.kind # "raw" /\ ~IsForm(asked)
    <2>1. InHeaders'  BY <1>6, <1>11 DEF InHeaders
    <2>2. ~TakesData(asked)  BY <1>11 DEF TakesData
    <2>3. pc' \in {"headers", "parsed", "form", "plain"}  BY <1>3, <2>2
    <2> QED  BY <2>1, <2>3 DEF Place
  <1> QED  BY <1>8, <1>9, <1>10, <1>11

\* The lines of a form.
LEMMA FormUploads ==
    ASSUME UploadInv, FormStart \/ Part \/ FieldHeader \/ Value \/ Tail_
    PROVE  UploadInv'
  <1>1. /\ pc \in {"form", "part", "fieldHeaders", "value", "tail"} /\ Read
        /\ buf' = buf /\ matched' = matched /\ calls' = calls
    BY DEF FormStart, Part, FieldHeader, Value, Tail_, body
  <1>2. /\ pc' \in {"form", "part", "fieldHeaders", "value", "fileHeaders", "formEnd", "drop"}
        /\ pc' = "fileHeaders" => Line = "file"
    <2>1. CASE FormStart  BY <2>1 DEF FormStart, Goto
    <2>2. CASE Part  BY <2>2 DEF Part, Goto
    <2>3. CASE FieldHeader  BY <2>3 DEF FieldHeader, Goto
    <2>4. CASE Value  BY <2>4 DEF Value, Goto
    <2>5. CASE Tail_  BY <2>5 DEF Tail_, Goto
    <2> QED  BY <2>1, <2>2, <2>3, <2>4, <2>5
  <1>3. /\ TokensInv' /\ Softly' /\ Announced' /\ Over' /\ AtRest' /\ Connected'
        /\ Line = "file" => Rest(Ahead', Heading(asked), 0)
    BY <1>1, <1>2, LineReads DEF Lines, InFile
  <1>4. asked' = asked  BY <1>1 DEF Read
  <1>5. Place'  BY <1>2, <1>3, <1>4 DEF Place
  <1> QED  BY <1>3, <1>5 DEF UploadInv

-----------------------------------------------------------------------------
(* Callbacks.                                                                *)

LEMMA GivenNext == Given' = GivenBy(calls')
  BY DEF Given, GivenBy, DataOf

LEMMA NoBytes ==
    ASSUME NEW file \in Seq(Token)
    PROVE  Prefix(<<>>, file)
  <1>1. Len(<<>>) = 0 /\ <<>> \in Seq(Token)  BY Short
  <1>2. PICK l \in Nat : l = Len(file)  OBVIOUS
  <1> QED  BY <1>1, <1>2 DEF Prefix

\* An upload begins, and one that is refused ends.
LEMMA Begins ==
    ASSUME NEW cs, cs = <<Called("start", <<>>)>>, CallBack(cs)
    PROVE  calls' = cs /\ Started(calls') /\ Given' = <<>> /\ Started(cs) /\ GivenBy(cs) = <<>>
  <1>1. Started(cs) /\ GivenBy(cs) = <<>> /\ cs[1].st = "start" /\ cs # <<>>  BY BegunBy
  <1>2. calls' = cs  BY <1>1 DEF CallBack
  <1> QED  BY <1>1, <1>2, GivenNext

LEMMA Refused ==
    ASSUME NEW cs, cs = <<Called("start", <<>>), Called("aborted", <<>>)>>, CallBack(cs),
           NEW file \in Seq(Token), NEW closed
    PROVE  Told(calls', file, closed)
  <1>1. PICK c \in Callbacks : c = Called("start", <<>>) /\ c.st = "start"
    <2>1. <<>> \in Seq(Token)  BY Short
    <2>2. Called("start", <<>>) \in Callbacks /\ Called("start", <<>>).st = "start"
      BY <2>1, CallbackTyped
    <2> QED  BY <2>2
  <1>2. PICK d \in Callbacks : d = Called("aborted", <<>>)
    <2>1. <<>> \in Seq(Token)  BY Short
    <2>2. Called("aborted", <<>>) \in Callbacks  BY <2>1, CallbackTyped
    <2> QED  BY <2>2
  <1>3. cs = <<c>> \o <<d>>
    <2>1. cs = <<c, d>>  BY <1>1, <1>2
    <2> QED  BY <2>1, CallbackPair
  <1>4. cs # <<>> /\ cs[1].st = "start"  BY <1>1
  <1>5. calls' = cs  BY <1>4 DEF CallBack
  <1>6. Started(<<c>>) /\ GivenBy(<<c>>) = <<>>  BY <1>1, BegunBy
  <1>7. Prefix(GivenBy(<<c>>), file)  BY <1>6, NoBytes
  <1>8. PICK st \in {"end", "aborted"} : st = "aborted"  OBVIOUS
  <1>9. Told(<<c>> \o <<Called(st, <<>>)>>, file, closed)
    <2>1. st = "end" => GivenBy(<<c>>) = file  BY <1>8
    <2> QED  BY <1>6, <1>7, <2>1, ToldOver
  <1> QED  BY <1>2, <1>3, <1>5, <1>8, <1>9

\* A callback that is not the first.
LEMMA Goes ==
    ASSUME NEW cs \in Seq(Callbacks), \A i \in 1..Len(cs) : cs[i].st # "start", CallBack(cs)
    PROVE  calls' = calls \o cs
  <1>1. cs # <<>> => 1 \in 1..Len(cs)  OBVIOUS
  <1> QED  BY <1>1 DEF CallBack

LEMMA FileHeaderUploads ==
    ASSUME UploadInv, FileHeader
    PROVE  UploadInv'
  <1>1. pc = "fileHeaders" /\ Read  BY DEF FileHeader
  <1>2. /\ TokensInv /\ conn /\ asked \in Requests /\ Soft /\ Marked(Ahead, asked)
        /\ Rest(Ahead, Heading(asked), 0) \/ Rest(Ahead, Heading(asked), 1)
    BY <1>1 DEF UploadInv, Connected, Softly, Place, Announced, Reading, Lines
  <1>3. PICK l \in Nat : l = Len(asked.file)  BY <1>2, HeadingTyped
  <1>4. PICK g \in Seq(Token) : g = Heading(asked)  BY <1>2, HeadingTyped
  <1>5. Len(g) = l + 5 /\ g[1] = "type" /\ g[2] = ""  BY <1>2, <1>3, <1>4, HeadingIs
  <1>5a. Len(g) = l + 5  BY <1>5
  <1>6. "type" \notin Bytes /\ "" \notin Bytes  BY DEF Bytes
  <1>7. ASSUME NEW k \in Nat, k < Len(g), Rest(Ahead, g, k), g[k + 1] \notin Bytes
        PROVE  Shifted(Ahead, Ahead') /\ Line = g[k + 1] /\ Rest(Ahead', g, k + 1)
    BY <1>1, <1>2, <1>7, LineFound
  <1>8. /\ Shifted(Ahead, Ahead')
        /\ \/ Line = "type" /\ Rest(Ahead', g, 1)
           \/ Line = "" /\ Rest(Ahead', g, 2)
    <2>1. PICK z \in Nat : z = 0  OBVIOUS
    <2>2. PICK one \in Nat : one = 1  OBVIOUS
    <2>3. z + 1 = 1 /\ one + 1 = 2 /\ z < Len(g) /\ one < Len(g)  BY <1>5a, <2>1, <2>2
    <2>4. CASE Rest(Ahead, g, 0)
      <3>1. g[z + 1] = "type"  BY <1>5, <2>3
      <3> QED  BY <1>6, <1>7, <2>1, <2>3, <2>4, <3>1
    <2>5. CASE Rest(Ahead, g, 1)
      <3>1. g[one + 1] = ""  BY <1>5, <2>3
      <3> QED  BY <1>6, <1>7, <2>2, <2>3, <2>5, <3>1
    <2> QED  BY <1>2, <1>4, <2>4, <2>5
  <1>9. /\ rx' \in Seq(Token) /\ sock' \in Seq(Token) /\ left' = left /\ asked' = asked
        /\ conn' = conn /\ fin' = fin
    BY <1>1, <1>2, LineRead
  <1>10. Marked(Ahead', asked)  BY <1>2, <1>8, MarkedShift
  <1>11. Soft'  BY <1>2, <1>9 DEF Soft
  <1>12. CASE Line # ""
    <2>1. buf' = buf /\ matched' = matched /\ calls' = calls /\ pc' = "fileHeaders"
      BY <1>1, <1>12 DEF FileHeader, Goto, body
    <2>2. TokensInv' /\ Softly' /\ Announced' /\ Over' /\ AtRest' /\ Connected'
      BY <1>1, <2>1, LineReads DEF Lines, InFile
    <2>3. Rest(Ahead', g, 1)  BY <1>8, <1>12
    <2>4. Place'  BY <1>4, <1>9, <2>1, <2>3 DEF Place
    <2> QED  BY <2>2, <2>4 DEF UploadInv
  <1>13. CASE Line = ""
    <2>1. buf' = <<>> /\ matched' = 0  BY <1>13 DEF FileHeader
    <2>2. \/ CallBack(<<Called("start", <<>>)>>) /\ pc' = "file"
          \/ CallBack(<<Called("start", <<>>), Called("aborted", <<>>)>>) /\ pc' = "drop"
      BY <1>13 DEF FileHeader, Goto
    <2>3. TokensInv'  BY <1>2, <1>9, <2>1, Short DEF TokensInv
    <2>4. Connected' /\ Softly' /\ Announced' /\ AtRest'
      BY <1>2, <1>9, <1>10, <1>11, <2>2 DEF Connected, Softly, Announced, AtRest
    <2>5. CASE CallBack(<<Called("start", <<>>)>>) /\ pc' = "file"
      <3>1. Started(calls') /\ Given' = <<>>  BY <2>5, Begins
      <3>2. Held' = <<>>  BY <2>1, <3>1, Short, Associates DEF Held
      <3>3. Rest(Ahead', Heading(asked), 2)  BY <1>4, <1>8, <1>13
      <3>4. Matching(<<>>, 0, Ahead', asked)  BY <1>2, <3>3, MatchStarts
      <3>5. InUpload'  BY <1>9, <2>1, <3>1, <3>2, <3>4 DEF InUpload
      <3>6. Place' /\ Over'  BY <2>5, <3>5 DEF Place, Over, InFile
      <3> QED  BY <2>3, <2>4, <3>6 DEF UploadInv
    <2>6. CASE /\ CallBack(<<Called("start", <<>>), Called("aborted", <<>>)>>)
               /\ pc' = "drop"
      <3>1. PICK file \in Seq(Token) : file = asked.file  BY <1>2, FileBytes, PlainTokens
      <3>2. Told(calls', file, fin')  BY <2>6, Refused
      <3>3. Over'  BY <1>9, <3>1, <3>2 DEF Over
      <3>4. Place'  BY <2>6 DEF Place
      <3> QED  BY <2>3, <2>4, <3>3, <3>4 DEF UploadInv
    <2> QED  BY <2>2, <2>5, <2>6
  <1> QED  BY <1>12, <1>13

\* A byte that may belong to the delimiter.
LEMMA PartOfDelimiter ==
    ASSUME UploadInv, FileByte, Head(Waiting) = Delim[matched + 1],
           Shifted(Ahead, Ahead'), Ahead[1] = Head(Waiting), asked' = asked
    PROVE  Place' /\ matched' \in 0..3 /\ buf' = buf /\ pc' \in {"file", "fileEnd"}
           /\ (pc' = "file" => matched' \in 0..2)
  <1>1. /\ matched' = matched + 1 /\ pc' = IF matched' = Len(Delim) THEN "fileEnd" ELSE "file"
        /\ buf' = buf /\ calls' = calls /\ pc = "file"
    BY DEF FileByte, Goto
  <1>2. Started(calls) /\ Matching(Held, matched, Ahead, asked) /\ asked \in Requests
    BY <1>1 DEF UploadInv, Place, InUpload, Connected, Reading, Lines
  <1>3. matched \in 0..2  BY <1>2 DEF Matching
  <1>4. Held' = Held  BY <1>1 DEF Held, Given
  <1>5. IF matched = 2 THEN Held = asked.file ELSE Matching(Held, matched + 1, Ahead', asked)
    BY <1>2, MatchGoesOn
  <1>6. Len(Delim) = 3  BY DelimTyped
  <1>7. CASE matched = 2
    <2>1. matched' = 3 /\ pc' = "fileEnd"  BY <1>1, <1>6, <1>7
    <2>2. Place'  BY <1>1, <1>2, <1>4, <1>5, <1>7, <2>1 DEF Place
    <2> QED  BY <1>1, <2>1, <2>2
  <1>8. CASE matched # 2
    <2>1. matched' \in 0..2 /\ matched' = matched + 1  BY <1>1, <1>3, <1>8
    <2>2. pc' = "file"  BY <1>1, <1>6, <2>1
    <2>3. InUpload'  BY <1>1, <1>2, <1>4, <1>5, <1>8 DEF InUpload
    <2>4. Place'  BY <2>2, <2>3 DEF Place
    <2> QED  BY <1>1, <2>1, <2>2, <2>4
  <1> QED  BY <1>7, <1>8

\* What is in the buffer, or was given, stays with what comes after it.
Same(f, r, b, e) == f \o r = b \o e

LEMMA HeldMore ==
    ASSUME NEW g \in Seq(Token), NEW b \in Seq(Token), NEW f \in Seq(Token), NEW r \in Seq(Token),
           NEW e \in Seq(Token)
    PROVE  Same(f, r, b, e) => Same(g \o f, r, g \o b, e)
  <1>1. (g \o f) \o r = g \o (f \o r)  BY SMTT(40)
  <1>2. (g \o b) \o e = g \o (b \o e)  BY SMTT(40)
  <1> QED  BY <1>1, <1>2 DEF Same

\* A byte that is not the next one of the delimiter.
LEMMA PartOfFile ==
    ASSUME UploadInv, FileByte, Head(Waiting) # Delim[matched + 1],
           Shifted(Ahead, Ahead'), Ahead[1] = Head(Waiting), asked' = asked
    PROVE  Place' /\ matched' \in 0..2 /\ buf' \in Seq(Token) /\ pc' = "file"
  <1>1. PICK b \in Token : b = Head(Waiting)
    <2>1. TokensInv /\ Waiting # <<>>  BY DEF UploadInv, FileByte
    <2> QED  BY <2>1, WaitingTyped
  <1>2. PICK e \in Seq(Token) : e = IF b = Delim[1] THEN <<>> ELSE <<b>>  BY Short
  <1>3. PICK more \in Seq(Token) :
          more = Emitted(b) /\ more = SubSeq(Delim, 1, matched) \o e
    <2>1. matched \in 0..3  BY DEF UploadInv, TokensInv
    <2>2. Emitted(b) \in Seq(Token)  BY <2>1, EmittedTyped
    <2>3. Emitted(b) = SubSeq(Delim, 1, matched) \o e  BY <1>2 DEF Emitted
    <2> QED  BY <2>2, <2>3
  <1>4. buf \in Seq(Token)  BY DEF UploadInv, TokensInv
  <1>5. PICK full \in Seq(Seq(Token)) : full = Pieces(more).full  BY <1>4, PiecesHold
  <1>6. PICK rest \in Seq(Token) : rest = Pieces(more).rest  BY <1>4, PiecesHold
  <1>7. FlattenSeq(full) \in Seq(Token) /\ FlattenSeq(full) \o rest = buf \o more
    BY <1>4, <1>5, <1>6, PiecesHold
  <1>8. PICK ds \in Seq(Callbacks) : /\ ds = [i \in DOMAIN full |-> Called("write", full[i])]
                                     /\ GivenBy(ds) = FlattenSeq(full)
                                     /\ \A i \in 1..Len(ds) : ds[i].st = "write"
    BY PiecesGiven
  <1>9. /\ matched' = (IF b = Delim[1] THEN 1 ELSE 0) /\ CallBack(ds) /\ buf' = rest
        /\ pc' = "file" /\ pc = "file"
    BY <1>1, <1>3, <1>5, <1>6, <1>8 DEF FileByte, Goto
  <1>10. calls' = calls \o ds
    <2>1. \A i \in 1..Len(ds) : ds[i].st # "start"  BY <1>8
    <2> QED  BY <1>9, <2>1, Goes
  <1>11. Started(calls) /\ Matching(Held, matched, Ahead, asked) /\ asked \in Requests
    BY <1>9 DEF UploadInv, Place, InUpload, Connected, Reading, Lines
  <1>12. Started(calls')  BY <1>8, <1>10, <1>11, StartedMore
  <1>13. PICK given \in Seq(Token) : given = Given /\ given = GivenBy(calls)
    <2>1. calls \in Seq(Callbacks)  BY <1>11 DEF Started
    <2> QED  BY <1>8, <2>1, GivenMore, GivenIs
  <1>14. Given' = given \o FlattenSeq(full)
    <2>1. calls \in Seq(Callbacks)  BY <1>11 DEF Started
    <2>2. GivenBy(calls \o ds) = GivenBy(calls) \o GivenBy(ds)  BY <2>1, GivenMore
    <2> QED  BY <1>8, <1>10, <1>13, <2>2, GivenNext
  <1>15. Held' = Held \o more
    <2>1. Held' = (given \o FlattenSeq(full)) \o rest  BY <1>9, <1>14 DEF Held
    <2>2. Held = given \o buf  BY <1>13 DEF Held
    <2>3. PICK f \in Seq(Token) : f = FlattenSeq(full)  BY <1>7
    <2>3a. PICK b0 \in Seq(Token) : b0 = buf  BY <1>4
    <2>3b. f \o rest = b0 \o more  BY <1>7, <2>3, <2>3a
    <2>3c. Same(f, rest, b0, more)  BY <2>3b DEF Same
    <2>3d. Same(given \o f, rest, given \o b0, more)  BY <2>3c, HeldMore
    <2>3e. (given \o f) \o rest = (given \o b0) \o more  BY <2>3d DEF Same
    <2>4. (given \o f) \o rest = (given \o buf) \o more  BY <2>3a, <2>3e
    <2> QED  BY <2>1, <2>2, <2>3, <2>4
  <1>16. Matching(Held', IF b = Delim[1] THEN 1 ELSE 0, Ahead', asked)
    <2>1. Held' = Held \o (SubSeq(Delim, 1, matched) \o e)  BY <1>3, <1>15
    <2>2. b = Ahead[1] /\ b # Delim[matched + 1]  BY <1>1
    <2>3. \A x \in Seq(Token) : \A q :
             /\ q = Held \o (SubSeq(Delim, 1, matched) \o x)
             /\ x = IF b = Delim[1] THEN <<>> ELSE <<b>>
             => Matching(q, IF b = Delim[1] THEN 1 ELSE 0, Ahead', asked)
      BY <1>11, <2>2, MatchGoesOn
    <2> QED  BY <1>2, <2>1, <2>3, Zenon
  <1>17. InUpload'  BY <1>9, <1>12, <1>16 DEF InUpload
  <1>18. Place'  BY <1>9, <1>17 DEF Place
  <1> QED  BY <1>6, <1>9, <1>18

LEMMA FileByteUploads ==
    ASSUME UploadInv, FileByte
    PROVE  UploadInv'
  <1>1. /\ pc = "file" /\ conn' = conn /\ Waiting # <<>> /\ Take(1) /\ left' = left
        /\ asked' = asked /\ fin' = fin
    BY DEF FileByte
  <1>2. TokensInv /\ conn /\ asked \in Requests /\ Soft /\ Marked(Ahead, asked)
    BY <1>1 DEF UploadInv, Connected, Softly, Announced, Reading, Lines
  <1>3. /\ Shifted(Ahead, Ahead') /\ Ahead[1] = Head(Waiting)
        /\ rx' \in Seq(Token) /\ sock' \in Seq(Token)
    BY <1>1, <1>2, TakeOne
  <1>4. Marked(Ahead', asked)  BY <1>2, <1>3, MarkedShift
  <1>5. /\ Place' /\ matched' \in 0..3 /\ buf' \in Seq(Token) /\ pc' \in {"file", "fileEnd"}
        /\ (pc' = "file" => matched' \in 0..2)
    <2>1. CASE Head(Waiting) = Delim[matched + 1]
      <3>1. buf \in Seq(Token)  BY <1>2 DEF TokensInv
      <3> QED  BY <1>1, <1>3, <2>1, <3>1, PartOfDelimiter
    <2>2. CASE Head(Waiting) # Delim[matched + 1]
      <3>1. Place' /\ matched' \in 0..2 /\ buf' \in Seq(Token) /\ pc' = "file"
        BY <1>1, <1>3, <2>2, PartOfFile
      <3>2. matched' \in 0..3  BY <3>1
      <3> QED  BY <3>1, <3>2
    <2> QED  BY <2>1, <2>2
  <1>6. TokensInv'  BY <1>1, <1>2, <1>3, <1>5 DEF TokensInv
  <1>7. Connected' /\ Softly' /\ Announced' /\ Over' /\ AtRest'
    BY <1>1, <1>2, <1>4, <1>5 DEF Connected, Softly, Soft, Announced, Over, AtRest, InFile
  <1> QED  BY <1>5, <1>6, <1>7 DEF UploadInv

LEMMA PrefixPart ==
    ASSUME NEW g \in Seq(Token), NEW b \in Seq(Token), NEW f \in Seq(Token), Prefix(g \o b, f)
    PROVE  Prefix(g, f)
  <1>1. PICK m \in Nat : m = Len(g)  OBVIOUS
  <1>2. PICK n \in Nat : n = Len(b)  OBVIOUS
  <1>3. PICK u \in Seq(Token) : u = g \o b  BY Joined
  <1>4. Len(u) = m + n /\ \A i \in 1..m : u[i] = g[i]  BY <1>1, <1>2, <1>3, Joins
  <1>5. PICK l \in Nat : l = Len(f)  OBVIOUS
  <1>6. m + n <= l /\ \A i \in 1..(m + n) : u[i] = f[i]  BY <1>3, <1>4, <1>5 DEF Prefix
  <1>7. m <= l /\ \A i \in 1..m : g[i] = f[i]
    <2>1. m <= m + n /\ \A i \in 1..m : i \in 1..(m + n)  OBVIOUS
    <2> QED  BY <1>4, <1>6, <2>1
  <1> QED  BY <1>1, <1>5, <1>7 DEF Prefix

\* One more piece.
LEMMA PieceGiven ==
    ASSUME NEW cs, Started(cs), NEW data \in Seq(Token)
    PROVE  LET es == cs \o <<Called("write", data)>>
           IN  Started(es) /\ GivenBy(es) = GivenBy(cs) \o data
  <1>1. PICK ds : ds = <<Called("write", data)>>  OBVIOUS
  <1>2. Called("write", data) \in Callbacks /\ Called("write", data).st = "write"
    BY CallbackTyped
  <1>3. ds \in Seq(Callbacks) /\ Len(ds) = 1 /\ ds[1] = Called("write", data)
    <2>1. PICK c \in Callbacks : c = Called("write", data)  BY <1>2
    <2>2. ds = <<c>>  BY <1>1, <2>1
    <2> QED  BY <2>1, <2>2
  <1>4. \A i \in 1..Len(ds) : ds[i].st = "write"
    <2>1. \A i \in 1..1 : i = 1  OBVIOUS
    <2> QED  BY <1>2, <1>3, <2>1
  <1>5. Started(cs \o ds)  BY <1>3, <1>4, StartedMore
  <1>6. cs \in Seq(Callbacks)  BY DEF Started
  <1>7. GivenBy(cs \o <<Called("write", data)>>) = GivenBy(cs) \o data
    <2>1. "write" \in {"start", "write", "end", "aborted"}  OBVIOUS
    <2>2. Adds(OneMore(cs, "write", data), cs, "write", data)  BY <1>6, <2>1, GivenAppend
    <2> QED  BY <2>2 DEF Adds, OneMore
  <1> QED  BY <1>1, <1>5, <1>7

\* One callback that is not the first.
LEMMA GoesOne ==
    ASSUME NEW st \in {"write", "end", "aborted"}, NEW data \in Seq(Token),
           CallBack(<<Called(st, data)>>)
    PROVE  calls' = calls \o <<Called(st, data)>>
  <1>1. PICK c \in Callbacks : c = Called(st, data) /\ c.st = st
    <2>1. st \in {"start", "write", "end", "aborted"}  OBVIOUS
    <2>2. Called(st, data) \in Callbacks /\ Called(st, data).st = st  BY <2>1, CallbackTyped
    <2> QED  BY <2>2
  <1>2. PICK ds \in Seq(Callbacks) : ds = <<c>>  BY Short
  <1>3. Len(ds) = 1 /\ ds[1] = c  BY <1>2
  <1>4. \A i \in 1..Len(ds) : ds[i].st # "start"
    <2>1. \A i \in 1..1 : i = 1  OBVIOUS
    <2>2. c.st # "start"  BY <1>1
    <2> QED  BY <1>3, <2>1, <2>2
  <1>5. CallBack(ds)  BY <1>1, <1>2
  <1>6. calls' = calls \o ds  BY <1>4, <1>5, Goes
  <1> QED  BY <1>1, <1>2, <1>6

LEMMA AbortedUploads ==
    ASSUME UploadInv, FileAborted
    PROVE  UploadInv'
  <1>1. /\ pc = "file" /\ pc' = "drop" /\ rx' = rx /\ sock' = sock /\ left' = left /\ buf' = buf
        /\ matched' = matched /\ asked' = asked /\ fin' = fin
        /\ CallBack(<<Called("aborted", <<>>)>>)
    BY DEF FileAborted, Goto, peers, socket
  <1>2. TokensInv /\ asked \in Requests /\ InUpload
    BY <1>1 DEF UploadInv, Connected, Place, Reading, Lines
  <1>3. PICK file \in Seq(Token) : file = asked.file  BY <1>2, FileBytes, PlainTokens
  <1>4. Started(calls) /\ Prefix(Held, file)  BY <1>2, <1>3 DEF InUpload, Matching
  <1>5. PICK given \in Seq(Token) : given = Given /\ given = GivenBy(calls)
    <2>1. calls \in Seq(Callbacks)  BY <1>4 DEF Started
    <2> QED  BY <2>1, GivenMore, GivenIs
  <1>6. Prefix(given, file)
    <2>1. buf \in Seq(Token)  BY <1>2 DEF TokensInv
    <2>2. Prefix(given \o buf, file)  BY <1>4, <1>5 DEF Held
    <2> QED  BY <2>1, <2>2, PrefixPart
  <1>7. calls' = calls \o <<Called("aborted", <<>>)>>
    <2>1. <<>> \in Seq(Token)  BY Short
    <2>2. "aborted" \in {"write", "end", "aborted"}  OBVIOUS
    <2> QED  BY <1>1, <2>1, <2>2, GoesOne
  <1>8. Told(calls', file, fin')
    <2>1. PICK st \in {"end", "aborted"} : st = "aborted"  OBVIOUS
    <2>2. st = "end" => GivenBy(calls) = file  BY <2>1
    <2>3. Told(calls \o <<Called(st, <<>>)>>, file, fin')  BY <1>4, <1>5, <1>6, <2>2, ToldOver
    <2> QED  BY <1>7, <2>1, <2>3
  <1>9. TokensInv'  BY <1>1, <1>2 DEF TokensInv
  <1>10. Over'  BY <1>1, <1>3, <1>8 DEF Over
  <1>11. Connected' /\ Softly' /\ Announced' /\ AtRest' /\ Place'
    BY <1>1 DEF Connected, Softly, Announced, AtRest, Place, Reading, Lines
  <1> QED  BY <1>9, <1>10, <1>11 DEF UploadInv

\* The two or three callbacks at the end of a file, one after the other.
EachInTurn(cs, c, d, e) ==
    /\ cs \o <<c, d>> = (cs \o <<c>>) \o <<d>>
    /\ cs \o Append(<<c, d>>, e) = ((cs \o <<c>>) \o <<d>>) \o <<e>>

LEMMA InTurn ==
    ASSUME NEW cs \in Seq(Callbacks), NEW c \in Callbacks, NEW d \in Callbacks, NEW e \in Callbacks
    PROVE  EachInTurn(cs, c, d, e)
  <1>1. PICK x \in Seq(Callbacks) : x = <<c>>  BY Short
  <1>2. PICK y \in Seq(Callbacks) : y = <<d>>  BY Short
  <1>3. PICK z \in Seq(Callbacks) : z = <<e>>  BY Short
  <1>4. PICK w \in Seq(Callbacks) : w = <<c, d>> /\ w = x \o y  BY <1>1, <1>2, CallbackPair
  <1>5. cs \o w = (cs \o x) \o y
    <2>1. Regrouped(cs, x, y)  BY CallbacksAssociate
    <2>2. cs \o (x \o y) = (cs \o x) \o y  BY <2>1 DEF Regrouped
    <2> QED  BY <1>4, <2>2
  <1>6. PICK v \in Seq(Callbacks) : v = Append(w, e)  BY AppendProperties
  <1>7. v = w \o z
    <2>1. PICK k \in Nat : k = Len(w)  OBVIOUS
    <2>2. Len(z) = 1 /\ z[1] = e  BY <1>3
    <2>3. PICK u \in Seq(Callbacks) : u = w \o z  BY ConcatProperties
    <2>4. /\ Len(u) = Len(w) + Len(z)
          /\ \A i \in 1..Len(w) + Len(z) : u[i] = IF i <= Len(w) THEN w[i] ELSE z[i - Len(w)]
      BY <2>3, ConcatProperties
    <2>5. /\ Len(v) = k + 1 /\ v[k + 1] = e /\ \A i \in 1..k : v[i] = w[i]
      BY <1>6, <2>1, AppendProperties
    <2>6. Len(u) = k + 1  BY <2>1, <2>2, <2>4
    <2>7. \A i \in 1..k : u[i] = w[i]  BY <2>1, <2>2, <2>4
    <2>8. u[k + 1] = e
      <3>1. k + 1 \in 1..Len(w) + Len(z) /\ ~(k + 1 <= Len(w)) /\ (k + 1) - Len(w) = 1
        BY <2>1, <2>2
      <3> QED  BY <2>2, <2>4, <3>1
    <2>9. \A i \in 1..(k + 1) : u[i] = v[i]
      <3>1. \A i \in 1..(k + 1) : i \in 1..k \/ i = k + 1  OBVIOUS
      <3> QED  BY <2>5, <2>7, <2>8, <3>1
    <2>10. u = v  BY <2>5, <2>6, <2>9, SeqEqual
    <2> QED  BY <2>3, <2>10
  <1>8. PICK t \in Seq(Callbacks) : t = cs \o w  BY ConcatProperties
  <1>9. cs \o v = t \o z
    <2>1. Regrouped(cs, w, z)  BY CallbacksAssociate
    <2>2. cs \o (w \o z) = (cs \o w) \o z  BY <2>1 DEF Regrouped
    <2> QED  BY <1>7, <1>8, <2>2
  <1>10. cs \o <<c, d>> = (cs \o <<c>>) \o <<d>>  BY <1>1, <1>2, <1>4, <1>5
  <1>11. cs \o Append(<<c, d>>, e) = ((cs \o <<c>>) \o <<d>>) \o <<e>>
    BY <1>1, <1>2, <1>3, <1>4, <1>5, <1>6, <1>8, <1>9
  <1> QED  BY <1>10, <1>11 DEF EachInTurn

\* The upload is over, and nothing of it is missing.
LEMMA Ended ==
    ASSUME NEW cs, Started(cs), NEW piece \in Seq(Token), NEW file \in Seq(Token),
           GivenBy(cs) \o piece = file, NEW closed
    PROVE  /\ Told((cs \o <<Called("write", piece)>>) \o <<Called("end", <<>>)>>, file, closed)
           /\ closed => Told(((cs \o <<Called("write", piece)>>) \o <<Called("end", <<>>)>>)
                             \o <<Called("aborted", <<>>)>>, file, closed)
  <1>1. PICK es : es = cs \o <<Called("write", piece)>>  OBVIOUS
  <1>2. Started(es) /\ GivenBy(es) = file  BY <1>1, PieceGiven
  <1>3. Prefix(GivenBy(es), file)  BY <1>2 DEF Prefix
  <1>4. PICK st \in {"end", "aborted"} : st = "end"  OBVIOUS
  <1>5. Told(es \o <<Called(st, <<>>)>>, file, closed)  BY <1>2, <1>3, ToldOver
  <1>6. closed => Told((es \o <<Called("end", <<>>)>>) \o <<Called("aborted", <<>>)>>, file, closed)
    BY <1>2, ToldTwice
  <1> QED  BY <1>1, <1>4, <1>5, <1>6

LEMMA FileEndUploads ==
    ASSUME UploadInv, FileEnd
    PROVE  UploadInv'
  <1>1. /\ pc = "fileEnd" /\ pc' \in {"reboot", "tail", "drop"} /\ rx' = rx /\ sock' = sock
        /\ left' = left /\ buf' = buf /\ matched' = matched /\ asked' = asked /\ fin' = fin
        /\ conn' = conn
    BY DEF FileEnd, Goto, peers, socket
  <1>2. TokensInv /\ asked \in Requests /\ conn /\ Started(calls) /\ Held = asked.file
        /\ Soft /\ Marked(Ahead, asked)
    BY <1>1 DEF UploadInv, Connected, Place, Softly, Announced, Reading, Lines
  <1>3. PICK file \in Seq(Token) : file = asked.file  BY <1>2, FileBytes, PlainTokens
  <1>4. PICK piece \in Seq(Token) : piece = buf  BY <1>2 DEF TokensInv
  <1>5. GivenBy(calls) \o piece = file  BY <1>2, <1>3, <1>4, GivenIs DEF Held
  <1>6. PICK c \in Callbacks : c = Called("write", piece) /\ c.st = "write"
    <2>1. "write" \in {"start", "write", "end", "aborted"}  OBVIOUS
    <2> QED  BY <2>1, CallbackTyped
  <1>7. <<>> \in Seq(Token)  BY Short
  <1>8. PICK d \in Callbacks : d = Called("end", <<>>) /\ d.st = "end"
    <2>1. "end" \in {"start", "write", "end", "aborted"}  OBVIOUS
    <2>2. Called("end", <<>>) \in Callbacks /\ Called("end", <<>>).st = "end"
      BY <1>7, <2>1, CallbackTyped
    <2> QED  BY <2>2
  <1>9. PICK e \in Callbacks : e = Called("aborted", <<>>) /\ e.st = "aborted"
    <2>1. "aborted" \in {"start", "write", "end", "aborted"}  OBVIOUS
    <2>2. Called("aborted", <<>>) \in Callbacks /\ Called("aborted", <<>>).st = "aborted"
      BY <1>7, <2>1, CallbackTyped
    <2> QED  BY <2>2
  <1>10. calls \in Seq(Callbacks)  BY <1>2 DEF Started
  <1>11. \/ CallBack(<<c, d>>)
         \/ CallBack(Append(<<c, d>>, e)) /\ ~StillConnected
    BY <1>4, <1>6, <1>8, <1>9 DEF FileEnd
  <1>12. \/ calls' = (calls \o <<c>>) \o <<d>>
         \/ calls' = ((calls \o <<c>>) \o <<d>>) \o <<e>> /\ ~StillConnected
    <2>0. EachInTurn(calls, c, d, e)  BY <1>10, InTurn
    <2>1. c.st # "start"  BY <1>6
    <2>2. CASE CallBack(<<c, d>>)
      <3>1. calls' = calls \o <<c, d>>  BY <2>1, <2>2 DEF CallBack
      <3> QED  BY <2>0, <3>1 DEF EachInTurn
    <2>3. CASE CallBack(Append(<<c, d>>, e)) /\ ~StillConnected
      <3>1. Append(<<c, d>>, e)[1] = c  OBVIOUS
      <3>2. calls' = calls \o Append(<<c, d>>, e)  BY <2>1, <2>3, <3>1 DEF CallBack
      <3> QED  BY <2>0, <2>3, <3>2 DEF EachInTurn
    <2> QED  BY <1>11, <2>2, <2>3
  <1>13. ~StillConnected => fin  BY <1>2 DEF StillConnected
  <1>14. Told(calls', file, fin')
    <2>1. /\ Told((calls \o <<c>>) \o <<d>>, file, fin)
          /\ fin => Told(((calls \o <<c>>) \o <<d>>) \o <<e>>, file, fin)
      BY <1>2, <1>5, <1>6, <1>8, <1>9, Ended
    <2> QED  BY <1>1, <1>12, <1>13, <2>1
  <1>15. TokensInv'  BY <1>1, <1>2 DEF TokensInv
  <1>16. Over'  BY <1>1, <1>3, <1>14 DEF Over
  <1>17. Ahead' = Ahead  BY <1>1 DEF Ahead, Waiting
  <1>18. Connected' /\ Softly' /\ Announced' /\ AtRest' /\ Place'
    BY <1>1, <1>2, <1>17
       DEF Connected, Softly, Soft, Announced, AtRest, Place, Reading, Lines
  <1> QED  BY <1>15, <1>16, <1>18 DEF UploadInv

-----------------------------------------------------------------------------
(* A raw body.                                                               *)

LEMMA RawStartUploads ==
    ASSUME UploadInv, RawStart
    PROVE  UploadInv'
  <1>1. /\ pc = "raw" /\ pc' = "rawBytes" /\ rx' = rx /\ sock' = sock /\ left' = left
        /\ buf' = <<>> /\ total' = 0 /\ matched' = matched /\ asked' = asked /\ conn' = conn
        /\ length' = length /\ CallBack(<<Called("start", <<>>)>>)
    BY DEF RawStart, Goto, peers, socket, parsed
  <1>2. /\ TokensInv /\ asked \in Requests /\ conn /\ Soft
        /\ asked.kind = "raw" /\ length = Len(asked.file) /\ Rest(Ahead, Opening(asked), 3)
    BY <1>1 DEF UploadInv, Connected, Place, Softly, Reading, Lines
  <1>3. PICK file \in Seq(Token) : file = asked.file  BY <1>2, FileBytes, PlainTokens
  <1>4. Started(calls') /\ Given' = <<>>  BY <1>1, Begins
  <1>5. Len(<<>>) = 0 /\ <<>> \in Seq(Token)  BY Short
  <1>6. Held' = <<>>  BY <1>1, <1>4, <1>5, Associates DEF Held
  <1>7. Prefix(Held', file)  BY <1>6, NoBytes
  <1>8. Ahead' = Ahead  BY <1>1 DEF Ahead, Waiting
  <1>9. 3 + Len(Held') = 3 /\ total' = Len(Given')  BY <1>1, <1>4, <1>5, <1>6
  <1>10. Rest(Ahead', Opening(asked'), 3 + Len(Held'))  BY <1>1, <1>2, <1>8, <1>9
  <1>11. InRaw'  BY <1>1, <1>2, <1>3, <1>4, <1>7, <1>9, <1>10 DEF InRaw
  <1>12. Place' /\ Over' /\ Announced' /\ AtRest'
    BY <1>1, <1>11 DEF Place, Over, Announced, AtRest, InFile, Lines
  <1>13. Connected' /\ Softly'  BY <1>1, <1>2 DEF Connected, Softly, Soft
  <1>14. TokensInv'  BY <1>1, <1>2, <1>5 DEF TokensInv
  <1> QED  BY <1>12, <1>13, <1>14 DEF UploadInv

\* The next byte of the file is the next one of the body.
LEMMA RawNext ==
    ASSUME NEW a, NEW b, Shifted(a, b), NEW r \in Requests, r.kind = "raw",
           NEW p \in Seq(Token), Prefix(p, r.file), Len(p) < Len(r.file),
           Rest(a, Opening(r), 3 + Len(p)), NEW c \in Token, c = a[1]
    PROVE  /\ Prefix(p \o <<c>>, r.file) /\ p \o <<c>> \in Seq(Token)
           /\ Len(p \o <<c>>) = Len(p) + 1
           /\ Rest(b, Opening(r), 3 + Len(p \o <<c>>))
  <1>1. PICK f \in Seq(Plain) : f = r.file  BY FileBytes
  <1>2. PICK l \in Nat : l = Len(f)  OBVIOUS
  <1>3. PICK g \in Seq(Token) : g = Opening(r)  BY HeadingTyped
  <1>4. /\ Len(g) = l + 3 /\ \A i \in 1..l : g[3 + i] = f[i]
    BY <1>1, <1>2, <1>3, OpeningIs
  <1>5. PICK n \in Nat : n = Len(p)  OBVIOUS
  <1>6. n < l /\ \A i \in 1..n : p[i] = f[i]  BY <1>1, <1>2, <1>5 DEF Prefix
  <1>7. PICK k \in Nat : k = 3 + n  OBVIOUS
  <1>8. k < Len(g) /\ Rest(a, g, k)  BY <1>3, <1>4, <1>5, <1>6, <1>7
  <1>9. c = g[k + 1] /\ Rest(b, g, k + 1)  BY <1>8, RestShift
  <1>10. c = f[n + 1]
    <2>1. n + 1 \in 1..l /\ k + 1 = 3 + (n + 1)  BY <1>6, <1>7
    <2> QED  BY <1>4, <1>9, <2>1
  <1>11. PICK e \in Seq(Token) : e = <<c>> /\ Len(e) = 1 /\ e[1] = c
    <2>1. PICK e \in Seq(Token) : e = <<c>>  BY Short
    <2>2. Len(e) = 1 /\ e[1] = c  BY <2>1
    <2> QED  BY <2>1, <2>2
  <1>12. PICK one \in Nat : one = 1  OBVIOUS
  <1>13. PICK u : u = p \o e  OBVIOUS
  <1>14. u \in Seq(Token) /\ Len(u) = n + 1 /\ (\A i \in 1..n : u[i] = p[i]) /\ u[n + 1] = c
    <2>1. one = Len(e) /\ 1 \in 1..one  BY <1>11, <1>12
    <2>2. /\ u \in Seq(Token) /\ Len(u) = n + one /\ (\A i \in 1..n : u[i] = p[i])
          /\ \A i \in 1..one : u[n + i] = e[i]
      BY <1>5, <1>13, <2>1, Joins
    <2> QED  BY <1>11, <1>12, <2>1, <2>2
  <1>15. n + 1 <= l /\ \A i \in 1..(n + 1) : u[i] = f[i]
    <2>1. \A i \in 1..(n + 1) : i \in 1..n \/ i = n + 1  OBVIOUS
    <2> QED  BY <1>6, <1>10, <1>14, <2>1
  <1>16. Prefix(u, r.file)  BY <1>1, <1>2, <1>14, <1>15 DEF Prefix
  <1>17. Rest(b, g, 3 + Len(u))
    <2>1. 3 + Len(u) = k + 1  BY <1>7, <1>14
    <2> QED  BY <1>9, <2>1
  <1> QED  BY <1>3, <1>5, <1>11, <1>13, <1>14, <1>16, <1>17

LEMMA OneAppended ==
    ASSUME NEW s \in Seq(Token), NEW c \in Token
    PROVE  /\ Append(s, c) \in Seq(Token) /\ Append(s, c) = s \o <<c>>
           /\ Len(Append(s, c)) = Len(s) + 1
  OBVIOUS

LEMMA RawByteUploads ==
    ASSUME UploadInv, RawByte
    PROVE  UploadInv'
  <1>1. /\ pc = "rawBytes" /\ pc' = "rawBytes" /\ conn /\ conn' = conn /\ Waiting # <<>> /\ Take(1)
        /\ left' = left /\ asked' = asked /\ length' = length /\ matched' = matched
        /\ total < length
    BY DEF RawByte, parsed
  <1>2. TokensInv /\ asked \in Requests /\ Soft /\ InRaw
    BY <1>1 DEF UploadInv, Connected, Place, Softly, Reading, Lines
  <1>3. /\ Shifted(Ahead, Ahead') /\ Ahead[1] = Head(Waiting)
        /\ rx' \in Seq(Token) /\ sock' \in Seq(Token)
    BY <1>1, <1>2, TakeOne
  <1> SUFFICES InRaw' /\ buf' \in Seq(Token)
    <2>1. Place' /\ Over' /\ Announced' /\ AtRest' /\ Connected' /\ Softly'
      BY <1>1, <1>2
         DEF Place, Over, Announced, AtRest, Connected, Softly, Soft, InFile, Lines
    <2>2. TokensInv'  BY <1>1, <1>2, <1>3 DEF TokensInv
    <2> QED  BY <2>1, <2>2 DEF UploadInv
  <1>4. PICK c \in Token : c = Head(Waiting)  BY <1>1, <1>2, WaitingTyped
  <1>5. PICK l \in Nat : l = Len(asked.file)  BY <1>2, HeadingTyped
  <1>6. /\ asked.kind = "raw" /\ length = l /\ Started(calls)
        /\ Prefix(Held, asked.file) /\ Rest(Ahead, Opening(asked), 3 + Len(Held))
        /\ total = Len(Given) /\ (buf # <<>> => Len(Held) < l)
    BY <1>2, <1>5 DEF InRaw
  <1>7. PICK given \in Seq(Token) : given = Given /\ given = GivenBy(calls)
    <2>1. calls \in Seq(Callbacks)  BY <1>6 DEF Started
    <2> QED  BY <2>1, GivenMore, GivenIs
  <1>8. PICK piece \in Seq(Token) : piece = buf  BY <1>2 DEF TokensInv
  <1>9. PICK held \in Seq(Token) : held = given \o piece  BY Joined
  <1>10. Held = held  BY <1>7, <1>8, <1>9 DEF Held
  <1>11. PICK n \in Nat : n = Len(given)  OBVIOUS
  <1>12. PICK m \in Nat : m = Len(piece)  OBVIOUS
  <1>13. Len(held) = n + m  BY <1>9, <1>11, <1>12, Joins
  <1>14. total = n /\ n < l  BY <1>1, <1>6, <1>7, <1>11
  <1>15. Len(held) < l
    <2>1. CASE piece = <<>>
      <3>1. m = 0  BY <1>12, <2>1
      <3> QED  BY <1>13, <1>14, <3>1
    <2>2. CASE piece # <<>>  BY <1>6, <1>8, <1>10, <2>2
    <2> QED  BY <2>1, <2>2
  <1>16. PICK next \in Seq(Token) : next = held \o <<c>>  BY Short, Joined
  <1>17. /\ Prefix(next, asked.file) /\ Len(next) = Len(held) + 1
         /\ Rest(Ahead', Opening(asked), 3 + Len(next))
    <2>1. c = Ahead[1]  BY <1>3, <1>4
    <2>2. Prefix(held, asked.file) /\ Rest(Ahead, Opening(asked), 3 + Len(held))
      BY <1>6, <1>10
    <2>3. Len(held) < Len(asked.file)  BY <1>5, <1>15
    <2> QED  BY <1>2, <1>3, <1>6, <1>16, <2>1, <2>2, <2>3, RawNext
  <1>18. PICK got \in Seq(Token) : /\ got = Append(buf, Head(Waiting)) /\ got = piece \o <<c>>
                                   /\ Len(got) = m + 1
    BY <1>4, <1>8, <1>12, OneAppended
  <1>19. next = given \o got
    <2>1. PICK e \in Seq(Token) : e = <<c>>  BY Short
    <2>2. next = (given \o piece) \o e  BY <1>9, <1>16, <2>1
    <2>3. got = piece \o e  BY <1>18, <2>1
    <2>4. (given \o piece) \o e = given \o (piece \o e)  BY SMTT(40)
    <2> QED  BY <2>2, <2>3, <2>4
  <1>20. CASE Len(got) = BufLen \/ total + Len(got) = length
    <2>1. CallBack(<<Called("write", got)>>) /\ buf' = <<>> /\ total' = total + Len(got)
      BY <1>18, <1>20 DEF RawByte
    <2>2. calls' = calls \o <<Called("write", got)>>
      <3>1. "write" \in {"write", "end", "aborted"}  OBVIOUS
      <3> QED  BY <2>1, <3>1, GoesOne
    <2>3. Started(calls') /\ Given' = next  BY <1>6, <1>7, <1>19, <2>2, PieceGiven, GivenNext
    <2>4. <<>> \in Seq(Token)  BY Short
    <2>5. Held' = next  BY <2>1, <2>3, Associates DEF Held
    <2>6. total' = Len(Given')
      <3>1. total' = n + (m + 1)  BY <1>14, <1>18, <2>1
      <3>2. Len(next) = (n + m) + 1  BY <1>13, <1>17
      <3> QED  BY <2>3, <3>1, <3>2
    <2>7. InRaw'  BY <1>1, <1>5, <1>6, <1>17, <2>1, <2>3, <2>5, <2>6 DEF InRaw
    <2>8. buf' \in Seq(Token)  BY <2>1, <2>4
    <2> QED  BY <2>7, <2>8
  <1>21. CASE ~(Len(got) = BufLen \/ total + Len(got) = length)
    <2>1. buf' = got /\ total' = total /\ calls' = calls  BY <1>18, <1>21 DEF RawByte
    <2>2. Given' = given /\ Started(calls')  BY <1>6, <1>7, <2>1, GivenNext
    <2>3. Held' = next  BY <1>19, <2>1, <2>2 DEF Held
    <2>4. Len(next) < l
      <3>1. PICK k \in Nat : k = Len(next) /\ k <= l  BY <1>5, <1>17 DEF Prefix
      <3>2. k = (n + m) + 1  BY <1>13, <1>17, <3>1
      <3>3. ~(n + (m + 1) = l)  BY <1>6, <1>14, <1>18, <1>21
      <3> QED  BY <3>1, <3>2, <3>3
    <2>5. total' = Len(Given')  BY <1>11, <1>14, <2>1, <2>2
    <2>6. InRaw'  BY <1>1, <1>5, <1>6, <1>17, <2>2, <2>3, <2>4, <2>5 DEF InRaw
    <2> QED  BY <2>1, <2>6
  <1> QED  BY <1>20, <1>21

LEMMA RawSilenceUploads ==
    ASSUME UploadInv, RawSilence
    PROVE  UploadInv'
  <1>1. /\ pc = "rawBytes" /\ conn' = conn /\ rx' = rx /\ sock' = sock /\ left' = left
        /\ asked' = asked /\ length' = length /\ matched' = matched /\ fin' = fin
        /\ buf' = <<>> /\ total' = total + Len(buf)
        /\ IF buf = <<>> THEN CallBack(<<Called("aborted", <<>>)>>) /\ pc' = "drop"
           ELSE CallBack(<<Called("write", buf)>>) /\ pc' = "rawBytes"
    BY DEF RawSilence, Goto, peers, socket, parsed
  <1>2. TokensInv /\ asked \in Requests /\ conn /\ Soft /\ InRaw
    BY <1>1 DEF UploadInv, Connected, Place, Softly, Reading, Lines
  <1>3. PICK file \in Seq(Token) : file = asked.file  BY <1>2, FileBytes, PlainTokens
  <1>4. /\ asked.kind = "raw" /\ length = Len(asked.file) /\ Started(calls)
        /\ Prefix(Held, file) /\ Rest(Ahead, Opening(asked), 3 + Len(Held))
        /\ total = Len(Given)
    BY <1>2, <1>3 DEF InRaw
  <1>5. PICK given \in Seq(Token) : given = Given /\ given = GivenBy(calls)
    <2>1. calls \in Seq(Callbacks)  BY <1>4 DEF Started
    <2> QED  BY <2>1, GivenMore, GivenIs
  <1>6. PICK piece \in Seq(Token) : piece = buf  BY <1>2 DEF TokensInv
  <1>7. PICK held \in Seq(Token) : held = given \o piece  BY Joined
  <1>8. Held = held  BY <1>5, <1>6, <1>7 DEF Held
  <1>9. Ahead' = Ahead  BY <1>1 DEF Ahead, Waiting
  <1>10. <<>> \in Seq(Token)  BY Short
  <1>11. TokensInv'  BY <1>1, <1>2, <1>10 DEF TokensInv
  <1>12. Connected' /\ Softly' /\ Announced' /\ AtRest'
    BY <1>1, <1>2 DEF Connected, Softly, Soft, Announced, AtRest, Lines
  <1>13. CASE piece = <<>>
    <2>1. CallBack(<<Called("aborted", <<>>)>>) /\ pc' = "drop"  BY <1>1, <1>6, <1>13
    <2>2. calls' = calls \o <<Called("aborted", <<>>)>>
      <3>1. "aborted" \in {"write", "end", "aborted"}  OBVIOUS
      <3> QED  BY <1>10, <2>1, <3>1, GoesOne
    <2>3. Prefix(given, file)
      <3>1. Prefix(given \o piece, file)  BY <1>4, <1>7, <1>8
      <3> QED  BY <3>1, PrefixPart
    <2>4. PICK st \in {"end", "aborted"} : st = "aborted"  OBVIOUS
    <2>5. Told(calls \o <<Called(st, <<>>)>>, file, fin')
      <3>1. st = "end" => GivenBy(calls) = file  BY <2>4
      <3> QED  BY <1>4, <1>5, <2>3, <3>1, ToldOver
    <2>6. Over'  BY <1>1, <1>3, <2>2, <2>4, <2>5 DEF Over
    <2>7. Place'  BY <2>1 DEF Place
    <2> QED  BY <1>11, <1>12, <2>6, <2>7 DEF UploadInv
  <1>14. CASE piece # <<>>
    <2>1. CallBack(<<Called("write", piece)>>) /\ pc' = "rawBytes"  BY <1>1, <1>6, <1>14
    <2>2. calls' = calls \o <<Called("write", piece)>>
      <3>1. "write" \in {"write", "end", "aborted"}  OBVIOUS
      <3> QED  BY <2>1, <3>1, GoesOne
    <2>3. Started(calls') /\ Given' = held  BY <1>4, <1>5, <1>7, <2>2, PieceGiven, GivenNext
    <2>4. Held' = held  BY <1>1, <2>3, Associates DEF Held
    <2>5. total' = Len(Given')
      <3>1. PICK n \in Nat : n = Len(given)  OBVIOUS
      <3>2. PICK m \in Nat : m = Len(piece)  OBVIOUS
      <3>3. Len(held) = n + m  BY <1>7, <3>1, <3>2, Joins
      <3> QED  BY <1>1, <1>4, <1>5, <1>6, <2>3, <3>1, <3>2, <3>3
    <2>6. InRaw'  BY <1>1, <1>3, <1>4, <1>8, <1>9, <2>3, <2>4, <2>5 DEF InRaw
    <2>7. Place' /\ Over'  BY <2>1, <2>6 DEF Place, Over, InFile
    <2> QED  BY <1>11, <1>12, <2>7 DEF UploadInv
  <1> QED  BY <1>13, <1>14

LEMMA RawEndUploads ==
    ASSUME UploadInv, RawEnd
    PROVE  UploadInv'
  <1>1. /\ pc = "rawBytes" /\ pc' = "parsed" /\ rx' = rx /\ sock' = sock /\ left' = left
        /\ asked' = asked /\ matched' = matched /\ fin' = fin /\ buf' = buf
        /\ total >= length /\ CallBack(<<Called("end", <<>>)>>)
    BY DEF RawEnd, Goto, peers, socket
  <1>2. TokensInv /\ asked \in Requests /\ Soft /\ InRaw
    BY <1>1 DEF UploadInv, Connected, Place, Softly, Reading, Lines
  <1>3. PICK file \in Seq(Token) : file = asked.file  BY <1>2, FileBytes, PlainTokens
  <1>4. length = Len(file) /\ Started(calls) /\ Prefix(Held, file) /\ total = Len(Given)
    BY <1>2, <1>3 DEF InRaw
  <1>5. PICK given \in Seq(Token) : given = Given /\ given = GivenBy(calls)
    <2>1. calls \in Seq(Callbacks)  BY <1>4 DEF Started
    <2> QED  BY <2>1, GivenMore, GivenIs
  <1>6. Prefix(given, file)
    <2>1. PICK piece \in Seq(Token) : piece = buf  BY <1>2 DEF TokensInv
    <2>2. Prefix(given \o piece, file)  BY <1>4, <1>5, <2>1 DEF Held
    <2> QED  BY <2>2, PrefixPart
  <1>7. given = file
    <2>1. PICK n \in Nat : n = Len(given)  OBVIOUS
    <2>2. PICK l \in Nat : l = Len(file)  OBVIOUS
    <2>3. n <= l /\ \A i \in 1..n : given[i] = file[i]  BY <1>6, <2>1, <2>2 DEF Prefix
    <2>4. n >= l  BY <1>1, <1>4, <1>5, <2>1, <2>2
    <2>5. n = l  BY <2>3, <2>4
    <2> QED  BY <2>1, <2>2, <2>3, <2>5, SeqEqual
  <1>8. <<>> \in Seq(Token)  BY Short
  <1>9. calls' = calls \o <<Called("end", <<>>)>>
    <2>1. "end" \in {"write", "end", "aborted"}  OBVIOUS
    <2> QED  BY <1>1, <1>8, <2>1, GoesOne
  <1>10. PICK st \in {"end", "aborted"} : st = "end"  OBVIOUS
  <1>11. Told(calls \o <<Called(st, <<>>)>>, file, fin')
    BY <1>4, <1>5, <1>6, <1>7, ToldOver
  <1>12. Over'  BY <1>1, <1>3, <1>9, <1>10, <1>11 DEF Over
  <1>13. TokensInv'  BY <1>1, <1>2 DEF TokensInv
  <1>14. Connected' /\ Softly' /\ Announced' /\ AtRest' /\ Place'
    BY <1>1, <1>2
       DEF Connected, Softly, Soft, Announced, AtRest, Place, Reading, Lines
  <1> QED  BY <1>12, <1>13, <1>14 DEF UploadInv

LEMMA UploadInit == Init => UploadInv
  <1>1. SUFFICES ASSUME Init PROVE UploadInv  OBVIOUS
  <1>2. TokensInv  BY <1>1, Short DEF Init, TokensInv
  <1>3. Connected /\ Softly /\ Announced /\ Place /\ Over /\ AtRest
    BY <1>1 DEF Init, Connected, Softly, Soft, Announced, Place, Over, AtRest, Reading, Lines
  <1> QED  BY <1>2, <1>3 DEF UploadInv

LEMMA UploadNext ==
    ASSUME Polite, UploadInv, [Next]_vars
    PROVE  UploadInv'
  <1>1. CASE UNCHANGED vars
    <2>1. /\ pc' = pc /\ asked' = asked /\ isForm' = isForm /\ length' = length /\ calls' = calls
          /\ buf' = buf /\ total' = total /\ matched' = matched /\ conn' = conn /\ rx' = rx
          /\ sock' = sock /\ left' = left /\ fin' = fin
      BY <1>1 DEF vars, peers, socket, parsed, body
    <2>2. Ahead' = Ahead /\ Waiting' = Waiting  BY <2>1 DEF Ahead, Waiting
    <2>3. Place'  BY <2>1, <2>2, PlaceStays DEF UploadInv
    <2>4. TokensInv'  BY <2>1 DEF UploadInv, TokensInv
    <2>5. Connected' /\ Softly' /\ Announced' /\ Over' /\ AtRest'
      BY <2>1, <2>2 DEF UploadInv, Connected, Softly, Soft, Announced, Over, AtRest
    <2> QED  BY <2>3, <2>4, <2>5 DEF UploadInv
  <1>2. CASE (\E p \in Peers : Connect(p)) \/ Arrive \/ Close  BY <1>2, OutsideUploads
  <1>3. CASE HandleClient
    <2>1. CASE \E p \in Peers : Accept(p)  BY <2>1, AcceptUploads
    <2>2. CASE RequestArrived  BY <2>2, ArrivedUploads
    <2>3. CASE GiveUp \/ PlainShort \/ PlainDone \/ FormEnd \/ Allow \/ Return
      BY <2>3, ControlUploads
    <2>4. CASE Drop \/ Reboot  BY <2>4, ResetUploads
    <2>5. CASE ParseRequest  BY <2>5, RequestUploads
    <2>6. CASE ParseHeader  BY <2>6, HeaderUploads
    <2>7. CASE PlainRead \/ ParseDone  BY <2>7, SocketUploads
    <2>8. CASE FormStart \/ Part \/ FieldHeader \/ Value \/ Tail_  BY <2>8, FormUploads
    <2>9. CASE RawStart \/ RawByte \/ RawSilence \/ RawEnd
      BY <2>9, RawStartUploads, RawByteUploads, RawSilenceUploads, RawEndUploads
    <2>10. CASE FileHeader \/ FileByte \/ FileAborted \/ FileEnd
      BY <2>10, FileHeaderUploads, FileByteUploads, AbortedUploads, FileEndUploads
    <2>11. CASE \/ Refuse \/ SendOpen \/ ChunkResponseBegin \/ ChunkResponseEnd \/ Finalize
                \/ \E n \in Sizes : Send(n) \/ SendFile(n) \/ SendContent(n) \/ ChunkWrite(n)
      BY <2>11, AnswerUploads
    <2> QED
      BY <1>3, <2>1, <2>2, <2>3, <2>4, <2>5, <2>6, <2>7, <2>8, <2>9, <2>10, <2>11 DEF HandleClient
  <1> QED  BY <1>1, <1>2, <1>3 DEF Next

\* The library's notion of a prefix.
LEMMA PrefixIs ==
    ASSUME NEW s \in Seq(Token), NEW t \in Seq(Token), Prefix(s, t)
    PROVE  IsPrefix(s, t)
  <1>1. PICK m \in Nat : m = Len(s)  OBVIOUS
  <1>2. PICK n \in Nat : n = Len(t)  OBVIOUS
  <1>3. m <= n /\ \A i \in 1..m : s[i] = t[i]  BY <1>1, <1>2 DEF Prefix
  <1>4. SubSeq(s, 1, m) = SubSeq(t, 1, m)
    <2>1. SubSeq(s, 1, m) = s  BY <1>1, SubWhole
    <2>2. PICK u \in Seq(Token) : u = SubSeq(t, 1, m)
      <3>1. SubSeq(t, 1, m) \in Seq(Token)  BY <1>2, <1>3, Sub
      <3> QED  BY <3>1
    <2>3. Len(u) = m /\ \A i \in 1..m : u[i] = t[i]  BY <1>2, <1>3, <2>2
    <2>4. u = s  BY <1>1, <1>3, <2>3, SeqEqual
    <2> QED  BY <2>1, <2>2, <2>4
  <1> QED  BY <1>1, <1>2, <1>3, <1>4 DEF IsPrefix

LEMMA UploadTold ==
    ASSUME UploadInv
    PROVE  UploadFaithful
  <1>1. SUFFICES ASSUME calls # <<>> PROVE UploadFaithful  BY DEF UploadFaithful
  <1>2. CASE pc \notin InFile
    <2>1. Told(calls, asked.file, fin)  BY <1>1, <1>2 DEF UploadInv, Over
    <2>2. PICK cs \in Seq(Callbacks) : cs = calls  BY <2>1 DEF Told
    <2>3. PICK n \in Nat : n = Len(cs) /\ n >= 1  BY <2>1, <2>2 DEF Told
    <2>4. PICK file \in Seq(Token) : file = asked.file  BY <2>1 DEF Told
    <2>5. /\ cs[1].st = "start" /\ (\A i \in 2..n : cs[i].st # "start")
          /\ \A i \in 1..(n - 1) : cs[i].st # "aborted" /\ (cs[i].st = "end" => i = n - 1 /\ fin)
          /\ cs[n].st \in {"end", "aborted"} /\ Prefix(GivenBy(cs), file)
          /\ (\E i \in 1..n : cs[i].st = "end") => GivenBy(cs) = file
      BY <2>1, <2>2, <2>3, <2>4 DEF Told
    <2>6. Given = GivenBy(cs) /\ GivenBy(cs) \in Seq(Token)  BY <2>2, GivenIs, GivenMore
    <2>7. IsPrefix(Given, file)  BY <2>5, <2>6, PrefixIs
    <2> QED  BY <2>2, <2>3, <2>4, <2>5, <2>6, <2>7, Zenon DEF UploadFaithful
  <1>3. CASE pc \in InFile
    <2>1. asked \in Requests /\ TokensInv
      BY <1>3 DEF UploadInv, Connected, Reading, Lines, InFile
    <2>2. PICK file \in Seq(Token) : file = asked.file  BY <2>1, FileBytes, PlainTokens
    <2>3. Started(calls) /\ (Prefix(Held, file) \/ Held = file)
      BY <1>3, <2>2 DEF UploadInv, Place, InRaw, InUpload, Matching, InFile
    <2>4. PICK cs \in Seq(Callbacks) : cs = calls  BY <2>3 DEF Started
    <2>5. PICK n \in Nat : n = Len(cs) /\ n >= 1  BY <2>3, <2>4 DEF Started
    <2>6. cs[1].st = "start" /\ \A i \in 2..n : cs[i].st = "write"
      BY <2>3, <2>4, <2>5 DEF Started
    <2>7. PICK given \in Seq(Token) : given = Given  BY <2>4, GivenIs, GivenMore
    <2>8. Prefix(given, file)
      <3>1. PICK piece \in Seq(Token) : piece = buf  BY <2>1 DEF TokensInv
      <3>2. Prefix(given \o piece, file)  BY <2>3, <2>7, <3>1 DEF Held, Prefix
      <3> QED  BY <3>2, PrefixPart
    <2>9. IsPrefix(given, file)  BY <2>8, PrefixIs
    <2>10. \A i \in 1..n : cs[i].st \in {"start", "write"}
      <3>1. \A i \in 1..n : i = 1 \/ i \in 2..n  OBVIOUS
      <3> QED  BY <2>6, <3>1
    <2>11. \A i \in 1..n : cs[i].st # "aborted" /\ cs[i].st # "end"  BY <2>10
    <2>12. \A i \in 1..(n - 1) : cs[i].st # "aborted" /\ cs[i].st # "end"
      <3>1. \A i \in 1..(n - 1) : i \in 1..n  OBVIOUS
      <3> QED  BY <2>11, <3>1
    <2>13. \A i \in 2..n : cs[i].st # "start"  BY <2>6
    <2>14. pc \notin {"drop", "parsed", "handler"}  BY <1>3 DEF InFile
    <2> QED
      BY <2>2, <2>4, <2>5, <2>6, <2>7, <2>9, <2>11, <2>12, <2>13, <2>14, Zenon DEF UploadFaithful
  <1> QED  BY <1>2, <1>3

\* Whatever a peer sends in an upload or a raw body, and wherever in a body it
\* stops, the handler is told of it from the beginning to the end: all bytes
\* in their order, none lost to the search for the delimiter or to the limits
\* of the buffer, and END only after the whole file.
THEOREM UploadsAlwaysFaithful ==
    ASSUME Polite
    PROVE  Spec => []UploadFaithful
  <1>1. Init => UploadInv  BY UploadInit
  <1>2. UploadInv /\ [Next]_vars => UploadInv'  BY UploadNext
  <1>3. UploadInv => UploadFaithful  BY UploadTold
  <1> QED  BY <1>1, <1>2, <1>3, PTL DEF Spec

=============================================================================

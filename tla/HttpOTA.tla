------------------------------- MODULE HttpOTA ------------------------------
(* The firmware update of HttpOTA.cpp as operators on its state: one for     *)
(* each call its upload handler makes.  Flash is addressed in cells; the     *)
(* boot loader lies in the first sector, then image slot 0, then slot 1.     *)
(*                                                                           *)
(* raw_flash_erase, raw_flash_write, the image flags and the boot loader     *)
(* that reads them belong to the vendor's library: an erase, a write and     *)
(* each of the three flag updates may fail, and a board that restarts runs   *)
(* the slot flagged newer.                                                   *)
EXTENDS Integers, Sequences, FiniteSets

CONSTANTS
    Sector,     \* FLASH_SECTOR_SIZE, in cells
    Sectors     \* sectors of an image slot

ASSUME FlashAssumption == {Sector, Sectors} \subseteq Nat \ {0}

Slot      == Sector * Sectors
SlotStart(i) == Sector + i * Slot            \* RE_IMG_0_OFFSET, RE_IMG_1_OFFSET
Cells     == 0..(SlotStart(2) - 1)
SlotCells(i) == SlotStart(i)..(SlotStart(i + 1) - 1)

(* _state, with the flash and the flags it works on.  newAddr, the start of  *)
(* the slot that is not running, and imgSize follow from running.            *)
Factory == [running |-> 0, newer |-> {0}, flash |-> [a \in Cells |-> "old"],
            offset |-> 0, erase |-> 0, updating |-> FALSE, status |-> "idle",
            reply |-> 0]

\* HttpOTA::begin
OtaBegin(o) ==
    [o EXCEPT !.offset = 0, !.erase = 0, !.updating = FALSE, !.status = "idle",
              !.reply = 0]

NewAddr(o) == SlotStart(1 - o.running)

Fails(o, code) == [o EXCEPT !.updating = FALSE, !.status = "error", !.reply = code]

\* An upload begins.  The size tests of this call look at upload.totalSize,
\* which is still 0.
OtaStartUnchecked(o, isBin) ==      \* mutant
    [OtaBegin(o) EXCEPT !.updating = TRUE, !.status = "uploading"]
OtaStart(o, isBin) ==
    IF isBin
    THEN [OtaBegin(o) EXCEPT !.updating = TRUE, !.status = "uploading",
                             !.erase = NewAddr(o)]
    ELSE [o EXCEPT !.reply = 400]

\* Sectors erased so that everything below `upto' is.
Erased(o, upto) ==
    LET missing == upto - o.erase
        sectors == IF missing <= 0 THEN 0 ELSE (missing + Sector - 1) \div Sector
    IN  o.erase..(o.erase + sectors * Sector - 1)

Blank(flash, cells) ==
    [a \in DOMAIN flash |-> IF a \in cells THEN "blank" ELSE flash[a]]

Store(flash, at, data) ==
    [a \in DOMAIN flash |->
        IF a \in at..(at + Len(data) - 1) THEN data[a - at + 1] ELSE flash[a]]

OtaFits(o, data) == o.offset + Len(data) <= Slot

\* A piece of the file.  `fault' is the flash call that fails, if one does.
OtaWrite(o, data, fault) ==
    LET at     == NewAddr(o) + o.offset
        cells  == Erased(o, at + Len(data))
        erased == [o EXCEPT !.flash = Blank(o.flash, cells),
                            !.erase = @ + Cardinality(cells)]
    IN  IF ~OtaFits(o, data) THEN Fails(o, 413)
        ELSE IF fault = "erase" /\ cells # {} THEN Fails(o, 500)
        ELSE IF fault = "write" THEN Fails(erased, 500)
        ELSE [erased EXCEPT !.flash = Store(@, at, data),
                            !.offset = @ + Len(data)]

\* The end of the file: the flags are set, whatever became of the pieces;
\* `failed' are the updates that do not succeed.
OtaEnd(o, failed) ==
    LET other == 1 - o.running
        older == IF 1 \in failed THEN o.newer ELSE o.newer \ {o.running}
        wiped == IF 2 \in failed THEN older ELSE older \ {other}
        newer == IF 3 \in failed THEN wiped ELSE wiped \cup {other}
        o2    == [o EXCEPT !.newer = newer]
    IN  IF failed # {} THEN Fails(o2, 500)
        ELSE [o2 EXCEPT !.updating = FALSE, !.status = "success", !.reply = 200]

OtaAborted(o) == [o EXCEPT !.updating = FALSE, !.status = "error"]

\* The board restarts.
OtaBoot(o) ==
    OtaBegin([o EXCEPT !.running = IF o.newer = {} THEN @ ELSE CHOOSE i \in o.newer : TRUE])
=============================================================================

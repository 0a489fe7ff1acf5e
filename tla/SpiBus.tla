-------------------------------- MODULE SpiBus -------------------------------
(* SPIClass (SPI.cpp) and drv_spi.c: the settings of the object, the registers *)
(* of the device, its pins, and bytes that are exchanged with a partner.  The  *)
(* code sets the device up as a slave: the partner gives the clock.            *)
(*                                                                            *)
(* Assumed: the partner clocks a byte before 1000 looks at the flags are over; *)
(* modes are SPI_MODE0 to 3; blocks have less than 2^16 bytes;                 *)
(* setClockDivider() follows a call that has found the device's name, without  *)
(* which its frequency is taken for 0.                                         *)
EXTENDS Integers, FiniteSets, FiniteSetsExt

CONSTANTS
    BusClock,       \* frequency of APB2
    Speeds,         \* speeds the sketch asks for
    Dividers,       \* and dividers
    Words           \* bytes that are sent, and two of which make a word

ASSUME SpiAssumption ==
    BusClock \in Nat /\ {BusClock} \union Speeds \subseteq Nat \ {0} /\ Dividers \subseteq Nat

VARIABLES
    object,     \* SPIClass: initialized, spisettings, whether _spi.spi is found, pin_ssel
    device,     \* registers: clocked, enabled, prescaler, mode, byte order
    spiPins,    \* pins that have the function of SPI
    moved       \* history: the last exchange, on both sides

spiVars == <<object, device, spiPins, moved>>

SPI_SPEED_DEFAULT == 100000
Orders == {"LSBFIRST", "MSBFIRST"}
SpiModes == 0..3
Prescalers == {2, 4, 8, 16, 32, 64, 128, 256}
Settings == [speed : Speeds, mode : SpiModes, order : Orders]

SpiOff == [clocked |-> FALSE, on |-> FALSE, psc |-> 2, mode |-> 0, order |-> "MSBFIRST"]
NothingMoved == [sent |-> <<>>, heard |-> <<>>, given |-> <<>>, result |-> <<>>]

SpiInit ==
    /\ \E ssel \in BOOLEAN :
         object = [ready |-> FALSE, found |-> FALSE, ssel |-> ssel,
                   set |-> [speed |-> SPI_SPEED_DEFAULT, mode |-> 0, order |-> "MSBFIRST"]]
    /\ device = SpiOff /\ spiPins = {} /\ moved = NothingMoved

-----------------------------------------------------------------------------
(* drv_spi.c.                                                                *)

PrescaleAbove(speed) ==                                         \* mutant
    Min({p \in Prescalers : p = 256 \/ speed >= BusClock \div (2 * p)})

\* The first prescaler whose clock the speed reaches.
Prescale(speed) == Min({p \in Prescalers : p = 256 \/ speed >= BusClock \div p})

\* spi_begin() with settings s, and what it makes of the object.
SpiBegin(s, ready) ==
    /\ object' = [object EXCEPT !.set = s, !.ready = ready, !.found = TRUE]
    /\ spiPins' = spiPins \union {"mosi", "miso", "sclk"} \union (IF object.ssel THEN {"ssel"} ELSE {})
    /\ device' = [clocked |-> TRUE, on |-> TRUE, psc |-> Prescale(s.speed),
                  mode |-> s.mode, order |-> s.order]
    /\ moved' = NothingMoved

FreedButSsel == {"mosi", "miso", "sclk"}                        \* mutant

\* Pins of which spi_free() takes the function.
FreedPins == {"mosi", "miso", "sclk"} \union (IF object.ssel THEN {"ssel"} ELSE {})

-----------------------------------------------------------------------------
(* SPIClass.                                                                 *)

BeginSpi == ~object.ready /\ SpiBegin(object.set, TRUE)

BeginTransaction == \E s \in Settings : SpiBegin(s, TRUE)

\* end() and endTransaction() are the same.
SpiEnd ==
    /\ object.ready /\ object' = [object EXCEPT !.ready = FALSE]
    /\ device' = SpiOff /\ spiPins' = spiPins \ FreedPins
    /\ moved' = NothingMoved

\* The three set the device up, and leave the mark as it is.
SetBitOrder == \E o \in Orders : SpiBegin([object.set EXCEPT !.order = o], object.ready)
SetDataMode == \E m \in SpiModes : SpiBegin([object.set EXCEPT !.mode = m], object.ready)
SetClockDivider ==
    /\ object.found
    /\ \E d \in Dividers :
         SpiBegin([object.set EXCEPT !.speed = IF d = 0 THEN SPI_SPEED_DEFAULT ELSE BusClock \div d],
                  object.ready)

MINUS1 == 255       \* -1 in eight bits

\* spi_master_write() of each byte: what the partner hears, and what is read.
Heard(bytes) == IF device.on THEN bytes ELSE <<>>
ReadBack(bytes) == IF device.on THEN bytes ELSE [n \in DOMAIN bytes |-> MINUS1]

HighFirst(word) == <<word.high, word.low>>                      \* mutant

\* transfer16(): the bytes of a word as they are sent, and put together again.
InOrder(word) ==
    IF object.set.order = "LSBFIRST" THEN <<word.low, word.high>> ELSE <<word.high, word.low>>
Together(bytes) ==
    IF object.set.order = "LSBFIRST" THEN [high |-> bytes[2], low |-> bytes[1]]
    ELSE [high |-> bytes[1], low |-> bytes[2]]

\* The partner means the order of the device's register.
OnBus(word) == IF device.order = "LSBFIRST" THEN <<word.low, word.high>> ELSE <<word.high, word.low>>

Transfer16 ==
    /\ \E mine, its \in [high : Words, low : Words] :
         moved' = [sent |-> OnBus(mine), heard |-> Heard(InOrder(mine)),
                   given |-> its, result |-> Together(ReadBack(OnBus(its)))]
    /\ UNCHANGED <<object, device, spiPins>>

\* transfer() of a byte or a block, in place or not, and receive().
TransferBytes ==
    /\ \E n \in 1..2 : \E mine, its \in [1..n -> Words] :
         moved' = [sent |-> mine, heard |-> Heard(mine), given |-> its, result |-> ReadBack(its)]
    /\ UNCHANGED <<object, device, spiPins>>

SpiNext ==
    \/ BeginSpi \/ BeginTransaction \/ SpiEnd
    \/ SetBitOrder \/ SetDataMode \/ SetClockDivider
    \/ Transfer16 \/ TransferBytes

SpiSpec == SpiInit /\ [][SpiNext]_spiVars

-----------------------------------------------------------------------------
(* Properties.                                                               *)

\* While the object is begun the device runs with its settings, at the fastest
\* clock that is not faster than asked, or the slowest there is; and when the
\* device is off no pin is left to it, over any order of the calls
\* (SPI.cpp:66-100, 148-177, drv_spi.c:86-197).
RunsAsSet ==
    /\ object.ready =>
         /\ device.on /\ device.mode = object.set.mode /\ device.order = object.set.order
         /\ \/ device.psc = 256
            \/ BusClock \div device.psc <= object.set.speed
         /\ \A p \in Prescalers : p < device.psc => BusClock \div p > object.set.speed
    /\ ~device.on => spiPins = {}

\* Words and blocks that were exchanged with a device that runs are whole and
\* in order on both sides, whatever the byte order was set to (SPI.cpp:102-146).
WordsExchanged ==
    moved.heard # <<>> => moved.heard = moved.sent /\ moved.result = moved.given
=============================================================================

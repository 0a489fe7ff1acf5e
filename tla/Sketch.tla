------------------------------- MODULE Sketch -------------------------------
(* A sketch on the parts of the core and its libraries that it calls without  *)
(* anything running beside it, or beside their own hardware only: String,     *)
(* streams and numbers, addresses, hashes, the clock, pin interrupts, the SPI *)
(* bus and the access point.                                                  *)
(* None of them shares state with another, so an order of calls to two of     *)
(* them is one order for each: a behaviour of this module is about one part.  *)
EXTENDS Strings, Numbers, Addresses, Digest, RealTimeClock, AccessPoint,
        PinInterrupts, SpiBus

VARIABLE part       \* that the sketch is about

stringVars == <<str>>
streamVars == <<feed, sent>>
addressVars == <<ip, typed>>
accessVars == <<apVars, infoVars, ipVars>>
deviceVars == <<pinVars, spiVars>>

Parts == {"strings", "streams", "numbers", "addresses", "digests", "clock", "access point",
          "pins", "spi"}

NoDigest ==
    builder = <<>> /\ message = <<>> /\ ours = {} /\ pbkdf = NoKey /\ calls = 0

SketchInit ==
    /\ part \in Parts
    /\ TextInit /\ ClockInit /\ ApInit /\ PinInit
    /\ IF part = "spi" THEN SpiInit ELSE SpiInit /\ ~object.ssel
    /\ IF part = "streams" THEN StreamInit /\ sent = Nothing ELSE NumberInit
    /\ IF part = "addresses" THEN AddressInit ELSE ip = Fresh /\ typed = <<>>
    /\ IF part = "digests" THEN DigestInit ELSE NoDigest

Only(p) == part = p /\ UNCHANGED part

SketchNext ==
    \/ /\ Only("strings") /\ TextNext
       /\ UNCHANGED <<streamVars, addressVars, digestVars, clockVars, accessVars, deviceVars>>
    \/ /\ Only("streams") /\ StreamNext
       /\ UNCHANGED <<stringVars, sent, addressVars, digestVars, clockVars, accessVars, deviceVars>>
    \/ /\ Only("numbers") /\ NumberNext
       /\ UNCHANGED <<stringVars, addressVars, digestVars, clockVars, accessVars, deviceVars>>
    \/ /\ Only("addresses") /\ AddressNext
       /\ UNCHANGED <<stringVars, streamVars, digestVars, clockVars, accessVars, deviceVars>>
    \/ /\ Only("digests") /\ DigestNext
       /\ UNCHANGED <<stringVars, streamVars, addressVars, clockVars, accessVars, deviceVars>>
    \/ /\ Only("clock") /\ ClockNext
       /\ UNCHANGED <<stringVars, streamVars, addressVars, digestVars, accessVars, deviceVars>>
    \/ /\ Only("access point") /\ ApNext
       /\ UNCHANGED <<stringVars, streamVars, addressVars, digestVars, clockVars, deviceVars>>
    \/ /\ Only("pins") /\ PinNext
       /\ UNCHANGED <<stringVars, streamVars, addressVars, digestVars, clockVars, accessVars, spiVars>>
    \/ /\ Only("spi") /\ SpiNext
       /\ UNCHANGED <<stringVars, streamVars, addressVars, digestVars, clockVars, accessVars, pinVars>>

sketchVars == <<part, stringVars, streamVars, addressVars, digestVars, clockVars, accessVars, deviceVars>>

SketchSpec == SketchInit /\ [][SketchNext]_sketchVars

\* Which String and which hash object is which does not matter.
Alike == Permutations(Names) \union Permutations(Builders)

-----------------------------------------------------------------------------
(* Properties: those of each part, where the sketch is about it.             *)

\* Searching and comparing calls of String find what is there; numbers, texts
\* and addresses are read where they are and as what they mean; and a number
\* or an address that was printed is read back.
TextsRead ==
    /\ part = "strings" => SearchesFind
    /\ part = "streams" => ReadsAsSpecified
    /\ part = "numbers" => PrintedIsRead
    /\ part = "addresses" => AddressesRead

\* Digests and derived keys are those of the standards.
DigestsRight == part = "digests" => DigestAsSpecified /\ KeyAsSpecified

\* The clock shows the time and calls when due; pin interrupts call for the
\* edges of their pins; the SPI bus runs as set, and its words are whole.
DevicesRight ==
    /\ part = "clock" => ClockShowsTime /\ CalledWhenDue
    /\ part = "pins" => EdgesCalled
    /\ part = "spi" => RunsAsSet /\ WordsExchanged

\* What the access point tells, and what getStatus() allocates.
StatusRight == part = "access point" => StatusTrue
=============================================================================

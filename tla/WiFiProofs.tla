------------------------------ MODULE WiFiProofs -----------------------------
(* Theorems about WiFi for every number of scans, attempts to join and access *)
(* points, in a sketch that waits for a result before it asks again.          *)
EXTENDS WiFi, FiniteSetTheorems, TLAPS

-----------------------------------------------------------------------------
(* The inductive invariant.                                                  *)

QueueEvents == {"scanDone", "scanFail", "joined", "joinFailed"}

WiFiType ==
    /\ pc \in {"idle", "scanFlags", "scanStart", "scanResults", "scanRegister",
               "joinStart", "joinRegister", "joinStatus"}
    /\ apNum \in 0..MaxAps /\ list \in Nat /\ oom \in BOOLEAN
    /\ found \in [Tasks -> 0..MaxAps]
    /\ step \in [Tasks -> {"none", "clear", "count", "alloc", "fill", "finish"}]
    /\ status \in {"STOPPED", "IDLE", "ONGOING", "CONNECTED", "FAILED",
                   "DISCONNECTED"}
    /\ handlers \subseteq {"scan", "join"}
    /\ queue \in Seq(QueueEvents) /\ Len(queue) <= 2
    /\ loop \in {"idle"} \cup ScanCallbacks \cup JoinCallbacks
    /\ scan \in {"idle", "busy"} /\ link \in {"down", "joining", "up"}
    /\ asked \in [scan : Nat, join : Nat] /\ told \in [scan : Nat, join : Nat]

\* Of each kind one event at most waits in the queue.
InQueue(kind) == \E i \in 1..Len(queue) : Kind(queue[i]) = kind
HasJoined     == \E i \in 1..Len(queue) : queue[i] = "joined"

QueueInv ==
    \A i, j \in 1..Len(queue) : Kind(queue[i]) = Kind(queue[j]) => i = j

\* Who processes results, and how far that has come: one task at a time, on
\* fields that nothing else touches, and the list in use is the only one.
Listed == list \in filled /\ heap[list] = apNum

ListInv ==
    /\ DOMAIN heap = {list} \ {NoList} /\ filled \subseteq DOMAIN heap
    /\ step["eloop"] # "none" <=> loop = "scanDone"
    /\ step["sketch"] # "none" <=> pc = "scanResults"
    /\ list # NoList => complete \/ \E t \in Tasks : step[t] \in {"fill", "finish"}
    /\ pc = "scanFlags" => list = NoList
    /\ complete /\ ~oom /\ apNum > 0 => Listed
    /\ \A t \in Tasks :
          /\ step[t] # "none" => ~complete
          /\ step[t] \in {"clear", "count", "alloc"} => list = NoList
          /\ step[t] \in {"count", "alloc", "fill"} => found[t] >= 1
          /\ step[t] \in {"alloc", "fill"} => apNum = found[t]
          /\ step[t] = "fill" => list # NoList /\ heap[list] = apNum
          /\ step[t] = "finish" => oom \/ apNum = 0 \/ Listed

\* An asynchronous scan whose result has still to be processed: one at most,
\* and scanComplete() answers that it is running.
ScanPending == scan = "busy" \/ InQueue("scan") \/ loop \in {"scanDone", "scanFail"}

ScanInv ==
    /\ ScanPending => /\ running /\ ~complete /\ ~expired
                      /\ pc \notin {"scanFlags", "scanStart", "scanResults"}
    /\ scan = "busy" => ~InQueue("scan")
    /\ scan = "busy" \/ InQueue("scan") => loop \notin {"scanDone", "scanFail"}
    /\ pc = "scanFlags" => ~expired
    /\ pc \in {"scanStart", "scanResults"} => running /\ ~complete /\ ~expired

\* The same of an attempt to join, of which status() tells.
JoinPending == link = "joining" \/ InQueue("join") \/ loop \in {"joined", "joinFailed"}

JoinInv ==
    /\ JoinPending => status = "ONGOING" \/ pc \in {"joinRegister", "joinStatus"}
    /\ link = "joining" => ~InQueue("join")
    /\ link = "joining" \/ InQueue("join") => loop \notin {"joined", "joinFailed"}
    /\ pc = "joinStart" => status = "IDLE"

\* While no result has met a registration: the callbacks, the events still to
\* be posted, and the link that status() stands for.
One(b) == IF b THEN 1 ELSE 0

ScanMatched ==
    /\ pc = "scanRegister" => scan = "busy" /\ ("scan" \in handlers <=> loop = "scanEnd")
    /\ pc # "scanRegister" => ("scan" \in handlers <=> ScanUnderWay)
    /\ loop = "scanEnd" /\ ScanPending => pc = "scanRegister"
    /\ asked.scan - told.scan = One(InQueue("scan")) + One(scan = "busy")
                                + One(loop \in ScanCallbacks)

JoinMatched ==
    /\ pc \in {"joinRegister", "joinStatus"} => link = "joining" /\ status = "IDLE"
    /\ pc = "joinRegister" => ("join" \in handlers <=> loop = "joinEnd")
    /\ pc # "joinRegister" => ("join" \in handlers <=> JoinUnderWay)
    /\ loop = "joinEnd" /\ JoinPending => pc = "joinRegister"
    /\ asked.join - told.join = One(InQueue("join")) + One(link = "joining")
                                + One(loop \in {"joined", "joinFailed"})
    /\ status = "ONGOING" => JoinPending

LinkMatched ==
    /\ status = "CONNECTED" => link = "up" \/ dropped
    /\ status = "DISCONNECTED" => link = "down"
    /\ loop = "joined" \/ HasJoined => link = "up" \/ dropped

StationInv ==
    /\ WiFiType /\ QueueInv /\ ListInv /\ ScanInv /\ JoinInv
    /\ ~raced => ScanMatched /\ JoinMatched /\ LinkMatched

-----------------------------------------------------------------------------
USE WiFiAssumption

\* What taking an event out of the queue leaves in it.
LEMMA QueueTaken ==
    ASSUME WiFiType, QueueInv, queue # <<>>, queue' = Tail(queue)
    PROVE  /\ queue' \in Seq(QueueEvents) /\ Len(queue') <= 2
           /\ Head(queue) \in QueueEvents /\ QueueInv'
           /\ Kind(Head(queue)) = "scan" =>
                 InQueue("scan") /\ ~InQueue("scan")' /\ (InQueue("join")' <=> InQueue("join"))
           /\ Kind(Head(queue)) = "join" =>
                 InQueue("join") /\ ~InQueue("join")' /\ (InQueue("scan")' <=> InQueue("scan"))
           /\ HasJoined' => HasJoined
           /\ Head(queue) = "joined" => HasJoined
<1>1. /\ queue \in Seq(QueueEvents) /\ Len(queue) <= 2 /\ Len(queue) >= 1
      /\ Head(queue) = queue[1] /\ 1 \in 1..Len(queue)
  BY DEF WiFiType
<1>2. /\ queue' \in Seq(QueueEvents) /\ Len(queue') = Len(queue) - 1
      /\ \A i \in 1..Len(queue') : queue'[i] = queue[i + 1] /\ i + 1 \in 1..Len(queue)
  BY <1>1
<1>3. Kind(queue[1]) \in {"scan", "join"}
  BY DEF Kind
<1>4. QueueInv'
  BY <1>1, <1>2 DEF QueueInv
<1>5. \A i \in 1..Len(queue) : i = 1 \/ (i - 1 \in 1..Len(queue') /\ queue[i] = queue'[i - 1])
  BY <1>1, <1>2
<1>6. /\ InQueue("scan")' <=> \E i \in 2..Len(queue) : Kind(queue[i]) = "scan"
      /\ InQueue("join")' <=> \E i \in 2..Len(queue) : Kind(queue[i]) = "join"
  <2> HIDE DEF Kind
  <2>1. ASSUME NEW k, NEW i \in 1..Len(queue'), Kind(queue'[i]) = k
        PROVE  \E j \in 2..Len(queue) : Kind(queue[j]) = k
    <3>1. i + 1 \in 2..Len(queue) /\ queue'[i] = queue[i + 1]
      BY <1>1, <1>2
    <3> QED BY <2>1, <3>1
  <2>2. ASSUME NEW k, NEW i \in 2..Len(queue), Kind(queue[i]) = k
        PROVE  \E j \in 1..Len(queue') : Kind(queue'[j]) = k
    <3>1. i - 1 \in 1..Len(queue') /\ queue'[i - 1] = queue[i]
      BY <1>1, <1>2
    <3> QED BY <2>2, <3>1
  <2> QED BY <2>1, <2>2 DEF InQueue
<1>7. \A i \in 2..Len(queue) : Kind(queue[i]) # Kind(queue[1])
  BY <1>1 DEF QueueInv
<1>8. HasJoined' => HasJoined
  BY <1>2 DEF HasJoined
<1> HIDE DEF Kind
<1> QED BY <1>1, <1>2, <1>3, <1>4, <1>6, <1>7, <1>8 DEF InQueue, HasJoined

\* What posting an event of a kind that is not in the queue makes of it.
LEMMA QueuePosted ==
    ASSUME WiFiType, QueueInv, NEW e \in QueueEvents, ~InQueue(Kind(e)),
           queue' = Append(queue, e)
    PROVE  /\ queue' \in Seq(QueueEvents) /\ Len(queue') <= 2 /\ QueueInv'
           /\ Kind(e) = "scan" => InQueue("scan")' /\ (InQueue("join")' <=> InQueue("join"))
           /\ Kind(e) = "join" => InQueue("join")' /\ (InQueue("scan")' <=> InQueue("scan"))
           /\ HasJoined' <=> HasJoined \/ e = "joined"
<1>1. queue \in Seq(QueueEvents) /\ Len(queue) \in Nat /\ Len(queue) <= 2
  BY DEF WiFiType
<1>2. /\ queue' \in Seq(QueueEvents) /\ Len(queue') = Len(queue) + 1
      /\ queue'[Len(queue) + 1] = e
      /\ \A i \in 1..Len(queue) : queue'[i] = queue[i]
  BY <1>1
<1>3. \A x : Kind(x) \in {"scan", "join"}
  BY DEF Kind
<1> HIDE DEF Kind
<1>4. \A i \in 1..Len(queue) : Kind(queue[i]) # Kind(e)
  BY DEF InQueue
<1>5. Len(queue) <= 1
  <2>1. Len(queue) <= 1 \/ Len(queue) = 2
    <3>1. \A n \in Nat : n <= 2 => n <= 1 \/ n = 2
      OBVIOUS
    <3> QED BY <1>1, <3>1
  <2>2. ASSUME Len(queue) = 2 PROVE FALSE
    <3>1. Kind(queue[1]) = Kind(queue[2])
      BY <1>3, <1>4, <2>2
    <3> QED BY <2>2, <3>1 DEF QueueInv
  <2> QED BY <2>1, <2>2
<1>6. QueueInv'
  <2> SUFFICES ASSUME NEW i \in 1..Len(queue'), NEW j \in 1..Len(queue'),
                      Kind(queue'[i]) = Kind(queue'[j])
               PROVE  i = j
    BY DEF QueueInv
  <2>1. CASE i \in 1..Len(queue) /\ j \in 1..Len(queue)
    BY <1>2, <2>1 DEF QueueInv
  <2>2. CASE i = Len(queue) + 1 /\ j \in 1..Len(queue)
    BY <1>2, <1>4, <2>2
  <2>3. CASE j = Len(queue) + 1 /\ i \in 1..Len(queue)
    BY <1>2, <1>4, <2>3
  <2> QED BY <1>1, <1>2, <2>1, <2>2, <2>3
<1>7. /\ InQueue("scan")' <=> InQueue("scan") \/ Kind(e) = "scan"
      /\ InQueue("join")' <=> InQueue("join") \/ Kind(e) = "join"
  <2>1. 1..Len(queue') = 1..Len(queue) \cup {Len(queue) + 1}
    BY <1>1, <1>2
  <2> QED BY <1>2, <2>1 DEF InQueue
<1>8. HasJoined' <=> HasJoined \/ e = "joined"
  <2>1. 1..Len(queue') = 1..Len(queue) \cup {Len(queue) + 1}
    BY <1>1, <1>2
  <2> QED BY <1>2, <2>1 DEF HasJoined
<1> QED BY <1>2, <1>3, <1>5, <1>6, <1>7, <1>8

\* Kinds of the events.
LEMMA Kinds ==
    /\ \A e \in {"scanDone", "scanFail"} : Kind(e) = "scan" /\ e \in QueueEvents
    /\ \A e \in {"joined", "joinFailed"} : Kind(e) = "join" /\ e \in QueueEvents
    /\ \A e \in QueueEvents : Kind(e) = "scan" <=> e \in {"scanDone", "scanFail"}
BY DEF Kind, QueueEvents

\* What a step of _processScanResults leaves alone.
LEMMA GoesOn ==
    ASSUME NEW t \in Tasks, NEW from, NEW to, Goes(t, from, to)
    PROVE  /\ UNCHANGED <<expired, status, handlers, queue, scan, link, asked, told,
                          raced, dropped>>
           /\ from # "finish" => UNCHANGED <<pc, loop, running, complete>>
BY DEF Goes, callVars, staVars, radioVars, histVars

-----------------------------------------------------------------------------
(* Each step of the tasks preserves the invariant.                           *)

LEMMA StepScanDelete ==
    ASSUME Patient, StationInv, ScanDelete
    PROVE  StationInv'
<1>1. QueueInv' /\ ScanInv' /\ JoinInv'
  BY DEF StationInv, QueueInv, ScanInv, ScanPending, InQueue, JoinInv,
         JoinPending, ScanDelete, Delete, flags, staVars, eloopVars,
         radioVars
<1>2. /\ (~raced => ScanMatched)'
      /\ (~raced => JoinMatched)' /\ (~raced => LinkMatched)'
  BY DEF StationInv, ScanMatched, ScanPending, ScanUnderWay, Waiting,
         InQueue, JoinMatched, JoinPending, JoinUnderWay, LinkMatched,
         HasJoined, ScanDelete, Delete, staVars, eloopVars, radioVars,
         histVars
<1>3. WiFiType'
  BY DEF StationInv, WiFiType, QueueEvents, Tasks, ScanCallbacks,
         JoinCallbacks, ScanDelete, Idle, Answer, Delete, NoList, Running,
         Failed, flags, processing, staVars, eloopVars, radioVars, histVars,
         callVars
<1>4. ListInv'
  BY DEF StationInv, WiFiType, ListInv, Listed, ScanInv, ScanPending, Tasks,
         NoList, ScanDelete, Idle, Answer, Delete, Running, Failed, flags,
         processing, staVars, eloopVars, radioVars, histVars, callVars
<1> QED BY <1>1, <1>2, <1>3, <1>4 DEF StationInv

LEMMA StepScanCall ==
    ASSUME Patient, StationInv, NEW mode \in BOOLEAN, ScanCall(mode)
    PROVE  StationInv'
<1>1. QueueInv' /\ (~raced => LinkMatched)'
  BY DEF StationInv, QueueInv, LinkMatched, HasJoined, ScanCall, Delete,
         staVars, eloopVars, radioVars, histVars
<1>2. WiFiType'
  BY DEF StationInv, WiFiType, QueueEvents, Tasks, ScanCallbacks,
         JoinCallbacks, ScanCall, Idle, Answer, Delete, NoList, Running,
         Failed, processing, staVars, eloopVars, radioVars, histVars
<1>3. ListInv'
  <2>1. pc = "idle" /\ pc' = "scanFlags" /\ UNCHANGED <<complete, step, found, oom, loop>>
    BY DEF ScanCall, Idle, processing, eloopVars
  <2>2. loop # "scanDone"
    BY DEF StationInv, ScanInv, ScanPending, ScanCall, Answer
  <2>3. \A t \in Tasks : step[t] = "none"
    BY <2>1, <2>2 DEF StationInv, ListInv, Tasks
  <2>4. list' = NoList /\ DOMAIN heap' = {} /\ filled' = {}
    BY DEF StationInv, ListInv, ScanCall, Delete
  <2>5. apNum' = 0 \/ (list = NoList /\ apNum' = apNum)
    BY DEF ScanCall, Delete
  <2>6. complete /\ ~oom => apNum' = 0
    BY <2>5 DEF StationInv, ListInv, Listed, WiFiType
  <2> QED BY <2>1, <2>2, <2>3, <2>4, <2>6 DEF ListInv, Tasks
<1>4. ScanInv'
  BY DEF StationInv, WiFiType, ListInv, ScanInv, ScanPending, QueueInv,
         InQueue, Kind, Tasks, QueueEvents, ScanUnderWay, Waiting,
         ScanCallbacks, JoinCallbacks, ScanCall, Idle, Answer, Delete,
         NoList, Running, Failed, processing, staVars, eloopVars, radioVars,
         histVars
<1>5. JoinInv'
  BY DEF StationInv, WiFiType, JoinInv, JoinPending, QueueInv, InQueue, Kind,
         QueueEvents, ListInv, Tasks, ScanCall, Idle, Answer, Delete, NoList,
         Running, Failed, processing, staVars, eloopVars, radioVars, histVars
<1>6. (~raced => ScanMatched)'
  BY DEF StationInv, WiFiType, ScanInv, ScanMatched, ScanPending,
         ScanUnderWay, Waiting, InQueue, Kind, One, QueueInv, ListInv, Tasks,
         ScanCallbacks, JoinCallbacks, ScanCall, Idle, Answer, Delete,
         NoList, Running, Failed, processing, staVars, eloopVars, radioVars,
         histVars
<1>7. (~raced => JoinMatched)'
  BY DEF StationInv, WiFiType, JoinInv, JoinMatched, JoinPending,
         JoinUnderWay, Waiting, InQueue, Kind, One, QueueInv, ScanCallbacks,
         JoinCallbacks, ListInv, Tasks, ScanCall, Idle, Answer, Delete,
         NoList, Running, Failed, processing, staVars, eloopVars, radioVars,
         histVars
<1> QED BY <1>1, <1>2, <1>3, <1>4, <1>5, <1>6, <1>7 DEF StationInv

LEMMA StepScanFlags ==
    ASSUME Patient, StationInv, ScanFlags
    PROVE  StationInv'
<1>1. QueueInv' /\ (~raced => LinkMatched)'
  BY DEF StationInv, QueueInv, LinkMatched, HasJoined, ScanFlags, staVars,
         eloopVars, radioVars, histVars
<1>2. WiFiType'
  BY DEF StationInv, WiFiType, QueueEvents, Tasks, ScanCallbacks,
         JoinCallbacks, ScanFlags, Flags, results, processing, staVars,
         eloopVars, radioVars, histVars, callVars
<1>3. ListInv'
  BY DEF StationInv, WiFiType, ListInv, Listed, ScanInv, ScanPending, Tasks,
         NoList, ScanFlags, Flags, results, processing, staVars, eloopVars,
         radioVars, histVars, callVars
<1>4. ScanInv'
  BY DEF StationInv, WiFiType, ListInv, ScanInv, ScanPending, QueueInv,
         InQueue, Kind, Tasks, QueueEvents, ScanUnderWay, Waiting,
         ScanCallbacks, JoinCallbacks, ScanFlags, Flags, results, processing,
         staVars, eloopVars, radioVars, histVars, callVars
<1>5. JoinInv'
  BY DEF StationInv, WiFiType, JoinInv, JoinPending, QueueInv, InQueue, Kind,
         QueueEvents, ListInv, Tasks, ScanFlags, Flags, results, processing,
         staVars, eloopVars, radioVars, histVars, callVars
<1>6. (~raced => ScanMatched)'
  BY DEF StationInv, WiFiType, ScanInv, ScanMatched, ScanPending,
         ScanUnderWay, Waiting, InQueue, Kind, One, QueueInv, ListInv, Tasks,
         ScanCallbacks, JoinCallbacks, ScanFlags, Flags, results, processing,
         staVars, eloopVars, radioVars, histVars, callVars
<1>7. (~raced => JoinMatched)'
  BY DEF StationInv, WiFiType, JoinInv, JoinMatched, JoinPending,
         JoinUnderWay, Waiting, InQueue, Kind, One, QueueInv, ScanCallbacks,
         JoinCallbacks, ListInv, Tasks, ScanFlags, Flags, results,
         processing, staVars, eloopVars, radioVars, histVars, callVars
<1> QED BY <1>1, <1>2, <1>3, <1>4, <1>5, <1>6, <1>7 DEF StationInv

LEMMA StepScanRefused ==
    ASSUME Patient, StationInv, ScanRefused
    PROVE  StationInv'
<1>1. QueueInv' /\ (~raced => LinkMatched)'
  BY DEF StationInv, QueueInv, LinkMatched, HasJoined, ScanRefused, scanVars,
         staVars, eloopVars, radioVars, histVars
<1>2. WiFiType'
  BY DEF StationInv, WiFiType, QueueEvents, Tasks, ScanCallbacks,
         JoinCallbacks, ScanRefused, scanVars, staVars, eloopVars, radioVars,
         histVars, callVars, flags, results, processing
<1>3. ListInv'
  BY DEF StationInv, WiFiType, ListInv, Listed, ScanInv, ScanPending, Tasks,
         NoList, ScanRefused, scanVars, staVars, eloopVars, radioVars,
         histVars, callVars, flags, results, processing
<1>4. ScanInv'
  BY DEF StationInv, WiFiType, ListInv, ScanInv, ScanPending, QueueInv,
         InQueue, Kind, Tasks, QueueEvents, ScanUnderWay, Waiting,
         ScanCallbacks, JoinCallbacks, ScanRefused, scanVars, staVars,
         eloopVars, radioVars, histVars, callVars, flags, results, processing
<1>5. JoinInv'
  BY DEF StationInv, WiFiType, JoinInv, JoinPending, QueueInv, InQueue, Kind,
         QueueEvents, ListInv, Tasks, ScanRefused, scanVars, staVars,
         eloopVars, radioVars, histVars, callVars, flags, results, processing
<1>6. (~raced => ScanMatched)'
  BY DEF StationInv, WiFiType, ScanInv, ScanMatched, ScanPending,
         ScanUnderWay, Waiting, InQueue, Kind, One, QueueInv, ListInv, Tasks,
         ScanCallbacks, JoinCallbacks, ScanRefused, scanVars, staVars,
         eloopVars, radioVars, histVars, callVars, flags, results, processing
<1>7. (~raced => JoinMatched)'
  BY DEF StationInv, WiFiType, JoinInv, JoinMatched, JoinPending,
         JoinUnderWay, Waiting, InQueue, Kind, One, QueueInv, ScanCallbacks,
         JoinCallbacks, ListInv, Tasks, ScanRefused, scanVars, staVars,
         eloopVars, radioVars, histVars, callVars, flags, results, processing
<1> QED BY <1>1, <1>2, <1>3, <1>4, <1>5, <1>6, <1>7 DEF StationInv

LEMMA StepScanStart ==
    ASSUME Patient, StationInv, ScanStart
    PROVE  StationInv'
<1>1. QueueInv' /\ (~raced => LinkMatched)'
  BY DEF StationInv, QueueInv, LinkMatched, HasJoined, ScanStart, staVars,
         eloopVars
<1>2. WiFiType'
  BY SMTT(30) DEF StationInv, WiFiType, QueueEvents, Tasks, ScanCallbacks,
         JoinCallbacks, ScanStart, flags, results, staVars, eloopVars,
         callVars
<1>3. ListInv'
  BY SMTT(30) DEF StationInv, WiFiType, ListInv, Listed, ScanInv, ScanPending, Tasks,
         NoList, ScanStart, flags, results, staVars, eloopVars, callVars
<1>4. ScanInv'
  BY DEF StationInv, WiFiType, ListInv, ScanInv, ScanPending, QueueInv,
         InQueue, Kind, Tasks, QueueEvents, ScanUnderWay, Waiting,
         ScanCallbacks, JoinCallbacks, ScanStart, flags, results, staVars,
         eloopVars, callVars
<1>5. JoinInv'
  BY DEF StationInv, WiFiType, JoinInv, JoinPending, QueueInv, InQueue, Kind,
         QueueEvents, ListInv, Tasks, ScanStart, flags, results, staVars,
         eloopVars, callVars
<1>6. (~raced => ScanMatched)'
  BY SMTT(30) DEF StationInv, WiFiType, ScanInv, ScanMatched, ScanPending,
         ScanUnderWay, Waiting, InQueue, Kind, One, QueueInv, ListInv, Tasks,
         ScanCallbacks, JoinCallbacks, ScanStart, flags, results, staVars,
         eloopVars, callVars
<1>7. (~raced => JoinMatched)'
  <2>1. asked'.join = asked.join /\ UNCHANGED <<link, status, handlers, queue, loop, told, raced>>
    BY DEF ScanStart, StationInv, WiFiType, staVars, eloopVars
  <2>2. pc = "scanStart" /\ pc' \notin {"joinRegister", "joinStatus"}
    BY DEF ScanStart
  <2> QED BY <2>1, <2>2 DEF StationInv, JoinMatched, JoinPending, JoinUnderWay, Waiting,
             InQueue, One
<1> QED BY <1>1, <1>2, <1>3, <1>4, <1>5, <1>6, <1>7 DEF StationInv

LEMMA StepScanRegister ==
    ASSUME Patient, StationInv, ScanRegister
    PROVE  StationInv'
<1>1. QueueInv'
  BY DEF StationInv, QueueInv, ScanRegister, scanVars
<1>2. WiFiType'
  BY DEF StationInv, WiFiType, QueueEvents, Tasks, ScanCallbacks,
         JoinCallbacks, ScanRegister, scanVars, staVars, radioVars, callVars,
         flags, results, processing
<1>3. ListInv'
  BY DEF StationInv, WiFiType, ListInv, Listed, ScanInv, ScanPending, Tasks,
         NoList, ScanRegister, scanVars, staVars, radioVars, callVars, flags,
         results, processing
<1>4. ScanInv'
  BY DEF StationInv, WiFiType, ListInv, ScanInv, ScanPending, QueueInv,
         InQueue, Kind, Tasks, QueueEvents, ScanUnderWay, Waiting,
         ScanCallbacks, JoinCallbacks, ScanRegister, scanVars, staVars,
         radioVars, callVars, flags, results, processing
<1>5. JoinInv'
  BY DEF StationInv, WiFiType, JoinInv, JoinPending, QueueInv, InQueue, Kind,
         QueueEvents, ListInv, Tasks, ScanRegister, scanVars, staVars,
         radioVars, callVars, flags, results, processing
<1>6. (~raced => ScanMatched)'
  BY DEF StationInv, WiFiType, ScanInv, ScanMatched, ScanPending,
         ScanUnderWay, Waiting, InQueue, Kind, One, QueueInv, ListInv, Tasks,
         ScanCallbacks, JoinCallbacks, ScanRegister, scanVars, staVars,
         radioVars, callVars, flags, results, processing
<1>7. (~raced => JoinMatched)'
  BY DEF StationInv, WiFiType, JoinInv, JoinMatched, JoinPending,
         JoinUnderWay, Waiting, InQueue, Kind, One, QueueInv, ScanCallbacks,
         JoinCallbacks, ListInv, Tasks, ScanRegister, scanVars, staVars,
         radioVars, callVars, flags, results, processing
<1>8. (~raced => LinkMatched)'
  BY DEF StationInv, WiFiType, JoinInv, JoinMatched, LinkMatched,
         JoinPending, JoinUnderWay, Waiting, InQueue, Kind, ScanCallbacks,
         JoinCallbacks, HasJoined, ScanRegister, scanVars, staVars,
         radioVars, callVars, flags, results, processing
<1> QED BY <1>1, <1>2, <1>3, <1>4, <1>5, <1>6, <1>7, <1>8 DEF StationInv

LEMMA StepProcessClear ==
    ASSUME Patient, StationInv, NEW t \in Tasks, NEW n \in 0..MaxAps, ProcessClear(t, n)
    PROVE  StationInv'
<1>1. UNCHANGED <<expired, status, handlers, queue, scan, link, asked, told, raced,
                 dropped, pc, loop, running, complete>>
  BY GoesOn DEF ProcessClear
<1>2. QueueInv' /\ ScanInv' /\ JoinInv'
  BY <1>1 DEF StationInv, QueueInv, ScanInv, ScanPending, InQueue, JoinInv,
         JoinPending
<1>3. /\ (~raced => ScanMatched)'
      /\ (~raced => JoinMatched)' /\ (~raced => LinkMatched)'
  BY <1>1 DEF StationInv, ScanMatched, ScanPending, ScanUnderWay, Waiting,
         InQueue, JoinMatched, JoinPending, JoinUnderWay, LinkMatched,
         HasJoined
<1>4. WiFiType'
  <2>2. /\ apNum' = 0 /\ list' = NoList /\ found' = [found EXCEPT ![t] = n] /\ UNCHANGED oom
        /\ step' \in [Tasks -> {"none", "clear", "count", "alloc", "fill", "finish"}]
    BY DEF ProcessClear, Goes, StationInv, WiFiType
  <2>3. list' \in Nat /\ oom' \in BOOLEAN
    BY <2>2 DEF NoList, StationInv, WiFiType
  <2> QED BY <1>1, <2>2, <2>3 DEF StationInv, WiFiType
<1>5. ListInv'
  BY DEF StationInv, WiFiType, ListInv, Listed, ScanInv, ScanPending, Tasks,
         NoList, ProcessClear, Goes, staVars, radioVars, histVars, callVars
<1> QED BY <1>2, <1>3, <1>4, <1>5 DEF StationInv

LEMMA StepProcessCount ==
    ASSUME Patient, StationInv, NEW t \in Tasks, ProcessCount(t)
    PROVE  StationInv'
<1>1. UNCHANGED <<expired, status, handlers, queue, scan, link, asked, told, raced,
                 dropped, pc, loop, running, complete>>
  BY GoesOn DEF ProcessCount
<1>2. QueueInv' /\ ScanInv' /\ JoinInv'
  BY <1>1 DEF StationInv, QueueInv, ScanInv, ScanPending, InQueue, JoinInv,
         JoinPending
<1>3. /\ (~raced => ScanMatched)'
      /\ (~raced => JoinMatched)' /\ (~raced => LinkMatched)'
  BY <1>1 DEF StationInv, ScanMatched, ScanPending, ScanUnderWay, Waiting,
         InQueue, JoinMatched, JoinPending, JoinUnderWay, LinkMatched,
         HasJoined
<1>4. WiFiType'
  BY DEF StationInv, WiFiType, QueueEvents, Tasks, ScanCallbacks,
         JoinCallbacks, ProcessCount, Goes, staVars, radioVars, histVars,
         callVars
<1>5. ListInv'
  BY DEF StationInv, WiFiType, ListInv, Listed, ScanInv, ScanPending, Tasks,
         NoList, ProcessCount, Goes, staVars, radioVars, histVars, callVars
<1> QED BY <1>2, <1>3, <1>4, <1>5 DEF StationInv

LEMMA StepProcessAlloc ==
    ASSUME Patient, StationInv, NEW t \in Tasks, ProcessAlloc(t)
    PROVE  StationInv'
<1>1. UNCHANGED <<expired, status, handlers, queue, scan, link, asked, told, raced,
                 dropped, pc, loop, running, complete>>
  BY GoesOn DEF ProcessAlloc
<1>2. QueueInv' /\ ScanInv' /\ JoinInv'
  BY <1>1 DEF StationInv, QueueInv, ScanInv, ScanPending, InQueue, JoinInv,
         JoinPending
<1>3. /\ (~raced => ScanMatched)'
      /\ (~raced => JoinMatched)' /\ (~raced => LinkMatched)'
  BY <1>1 DEF StationInv, ScanMatched, ScanPending, ScanUnderWay, Waiting,
         InQueue, JoinMatched, JoinPending, JoinUnderWay, LinkMatched,
         HasJoined
<1>4. WiFiType'
  BY DEF StationInv, WiFiType, QueueEvents, Tasks, ScanCallbacks,
         JoinCallbacks, ProcessAlloc, Goes, staVars, radioVars, histVars,
         callVars
<1>5. ListInv'
  BY DEF StationInv, WiFiType, ListInv, Listed, ScanInv, ScanPending, Tasks,
         NoList, ProcessAlloc, Goes, staVars, radioVars, histVars, callVars
<1> QED BY <1>2, <1>3, <1>4, <1>5 DEF StationInv

LEMMA StepProcessNoMemory ==
    ASSUME Patient, StationInv, NEW t \in Tasks, ProcessNoMemory(t)
    PROVE  StationInv'
<1>1. UNCHANGED <<expired, status, handlers, queue, scan, link, asked, told, raced,
                 dropped, pc, loop, running, complete>>
  BY GoesOn DEF ProcessNoMemory
<1>2. QueueInv' /\ ScanInv' /\ JoinInv'
  BY <1>1 DEF StationInv, QueueInv, ScanInv, ScanPending, InQueue, JoinInv,
         JoinPending
<1>3. /\ (~raced => ScanMatched)'
      /\ (~raced => JoinMatched)' /\ (~raced => LinkMatched)'
  BY <1>1 DEF StationInv, ScanMatched, ScanPending, ScanUnderWay, Waiting,
         InQueue, JoinMatched, JoinPending, JoinUnderWay, LinkMatched,
         HasJoined
<1>4. WiFiType'
  <2>2. /\ list' = NoList /\ oom' = TRUE /\ UNCHANGED <<apNum, found>>
        /\ step' \in [Tasks -> {"none", "clear", "count", "alloc", "fill", "finish"}]
    BY DEF ProcessNoMemory, Goes, StationInv, WiFiType
  <2>3. list' \in Nat /\ oom' \in BOOLEAN
    BY <2>2 DEF NoList, StationInv, WiFiType
  <2> QED BY <1>1, <2>2, <2>3 DEF StationInv, WiFiType
<1>5. ListInv'
  BY DEF StationInv, WiFiType, ListInv, Listed, ScanInv, ScanPending, Tasks,
         NoList, ProcessNoMemory, Goes, staVars, radioVars, histVars,
         callVars
<1> QED BY <1>2, <1>3, <1>4, <1>5 DEF StationInv

LEMMA StepProcessFill ==
    ASSUME Patient, StationInv, NEW t \in Tasks, ProcessFill(t)
    PROVE  StationInv'
<1>1. UNCHANGED <<expired, status, handlers, queue, scan, link, asked, told, raced,
                 dropped, pc, loop, running, complete>>
  BY GoesOn DEF ProcessFill
<1>2. QueueInv' /\ ScanInv' /\ JoinInv'
  BY <1>1 DEF StationInv, QueueInv, ScanInv, ScanPending, InQueue, JoinInv,
         JoinPending
<1>3. /\ (~raced => ScanMatched)'
      /\ (~raced => JoinMatched)' /\ (~raced => LinkMatched)'
  BY <1>1 DEF StationInv, ScanMatched, ScanPending, ScanUnderWay, Waiting,
         InQueue, JoinMatched, JoinPending, JoinUnderWay, LinkMatched,
         HasJoined
<1>4. WiFiType'
  BY DEF StationInv, WiFiType, QueueEvents, Tasks, ScanCallbacks,
         JoinCallbacks, ProcessFill, Goes, staVars, radioVars, histVars,
         callVars
<1>5. ListInv'
  BY DEF StationInv, WiFiType, ListInv, Listed, ScanInv, ScanPending, Tasks,
         NoList, ProcessFill, Goes, staVars, radioVars, histVars, callVars
<1> QED BY <1>2, <1>3, <1>4, <1>5 DEF StationInv

LEMMA StepProcessFinish ==
    ASSUME Patient, StationInv, NEW t \in Tasks, ProcessFinish(t)
    PROVE  StationInv'
<1>1. QueueInv'
  BY DEF StationInv, QueueInv, ProcessFinish, Goes
<1>2. WiFiType'
  BY DEF StationInv, WiFiType, QueueEvents, Tasks, ScanCallbacks,
         JoinCallbacks, ProcessFinish, Goes, results, staVars, radioVars,
         histVars, callVars
<1>3. ListInv'
  BY DEF StationInv, WiFiType, ListInv, Listed, ScanInv, ScanPending, Tasks,
         NoList, ProcessFinish, Goes, results, staVars, radioVars, histVars,
         callVars
<1>4. ScanInv'
  BY DEF StationInv, WiFiType, ListInv, ScanInv, ScanPending, QueueInv,
         InQueue, Kind, Tasks, QueueEvents, ScanUnderWay, Waiting,
         ScanCallbacks, JoinCallbacks, ProcessFinish, Goes, results, staVars,
         radioVars, histVars, callVars
<1>5. JoinInv'
  BY DEF StationInv, WiFiType, JoinInv, JoinPending, QueueInv, InQueue, Kind,
         QueueEvents, ListInv, Tasks, ProcessFinish, Goes, results, staVars,
         radioVars, histVars, callVars
<1>6. (~raced => ScanMatched)'
  BY DEF StationInv, WiFiType, ScanInv, ScanMatched, ScanPending,
         ScanUnderWay, Waiting, InQueue, Kind, One, QueueInv, ListInv, Tasks,
         ScanCallbacks, JoinCallbacks, ProcessFinish, Goes, results, staVars,
         radioVars, histVars, callVars
<1>7. (~raced => JoinMatched)'
  BY DEF StationInv, WiFiType, JoinInv, JoinMatched, JoinPending,
         JoinUnderWay, Waiting, InQueue, Kind, One, QueueInv, ScanCallbacks,
         JoinCallbacks, ListInv, Tasks, ProcessFinish, Goes, results,
         staVars, radioVars, histVars, callVars
<1>8. (~raced => LinkMatched)'
  BY DEF StationInv, WiFiType, JoinInv, JoinMatched, LinkMatched,
         JoinPending, JoinUnderWay, Waiting, InQueue, Kind, ScanCallbacks,
         JoinCallbacks, HasJoined, ProcessFinish, Goes, results, staVars,
         radioVars, histVars, callVars
<1> QED BY <1>1, <1>2, <1>3, <1>4, <1>5, <1>6, <1>7, <1>8 DEF StationInv

LEMMA StepStaBegin ==
    ASSUME Patient, StationInv, StaBegin
    PROVE  StationInv'
<1>1. QueueInv' /\ ListInv' /\ ScanInv' /\ (~raced => ScanMatched)'
  BY DEF StationInv, QueueInv, ListInv, Listed, ScanInv, ScanPending,
         InQueue, ScanMatched, ScanUnderWay, Waiting, StaBegin, scanVars,
         eloopVars, radioVars, histVars, flags, results, processing
<1>2. WiFiType'
  BY DEF StationInv, WiFiType, QueueEvents, Tasks, ScanCallbacks,
         JoinCallbacks, StaBegin, Idle, scanVars, eloopVars, radioVars,
         histVars, callVars, flags, results, processing
<1>3. JoinInv'
  BY DEF StationInv, WiFiType, JoinInv, JoinPending, QueueInv, InQueue, Kind,
         QueueEvents, ListInv, Tasks, StaBegin, Idle, scanVars, eloopVars,
         radioVars, histVars, callVars, flags, results, processing
<1>4. (~raced => JoinMatched)'
  BY DEF StationInv, WiFiType, JoinInv, JoinMatched, JoinPending,
         JoinUnderWay, Waiting, InQueue, Kind, One, QueueInv, ScanCallbacks,
         JoinCallbacks, ListInv, Tasks, StaBegin, Idle, scanVars, eloopVars,
         radioVars, histVars, callVars, flags, results, processing
<1>5. (~raced => LinkMatched)'
  BY DEF StationInv, WiFiType, JoinInv, JoinMatched, LinkMatched,
         JoinPending, JoinUnderWay, Waiting, InQueue, Kind, ScanCallbacks,
         JoinCallbacks, HasJoined, StaBegin, Idle, scanVars, eloopVars,
         radioVars, histVars, callVars, flags, results, processing
<1> QED BY <1>1, <1>2, <1>3, <1>4, <1>5 DEF StationInv

LEMMA StepJoinNoStation ==
    ASSUME Patient, StationInv, JoinNoStation
    PROVE  StationInv'
<1>1. QueueInv' /\ ListInv' /\ ScanInv' /\ (~raced => ScanMatched)'
  BY DEF StationInv, QueueInv, ListInv, Listed, ScanInv, ScanPending,
         InQueue, ScanMatched, ScanUnderWay, Waiting, JoinNoStation,
         scanVars, eloopVars, radioVars, histVars, flags, results, processing
<1>2. WiFiType'
  BY DEF StationInv, WiFiType, QueueEvents, Tasks, ScanCallbacks,
         JoinCallbacks, JoinNoStation, JoinPossible, Idle, scanVars,
         eloopVars, radioVars, histVars, flags, results, processing
<1>3. JoinInv'
  BY DEF StationInv, WiFiType, JoinInv, JoinPending, QueueInv, InQueue, Kind,
         QueueEvents, ListInv, Tasks, JoinNoStation, JoinPossible, Idle,
         scanVars, eloopVars, radioVars, histVars, flags, results, processing
<1>4. (~raced => JoinMatched)'
  BY DEF StationInv, WiFiType, JoinInv, JoinMatched, JoinPending,
         JoinUnderWay, Waiting, InQueue, Kind, One, QueueInv, ScanCallbacks,
         JoinCallbacks, ListInv, Tasks, JoinNoStation, JoinPossible, Idle,
         scanVars, eloopVars, radioVars, histVars, flags, results, processing
<1>5. (~raced => LinkMatched)'
  BY DEF StationInv, WiFiType, JoinInv, JoinMatched, LinkMatched,
         JoinPending, JoinUnderWay, Waiting, InQueue, Kind, ScanCallbacks,
         JoinCallbacks, HasJoined, JoinNoStation, JoinPossible, Idle,
         scanVars, eloopVars, radioVars, histVars, flags, results, processing
<1> QED BY <1>1, <1>2, <1>3, <1>4, <1>5 DEF StationInv

LEMMA StepJoinCall ==
    ASSUME Patient, StationInv, NEW mode \in BOOLEAN, JoinCall(mode)
    PROVE  StationInv'
<1>1. QueueInv'
  BY DEF StationInv, QueueInv, JoinCall, scanVars, eloopVars
<1>2. WiFiType'
  BY DEF StationInv, WiFiType, QueueEvents, Tasks, ScanCallbacks,
         JoinCallbacks, JoinCall, JoinPossible, Idle, scanVars, eloopVars,
         radioVars, histVars, flags, results, processing
<1>3. ListInv'
  BY DEF StationInv, WiFiType, ListInv, Listed, ScanInv, ScanPending, Tasks,
         NoList, JoinCall, JoinPossible, Idle, scanVars, eloopVars,
         radioVars, histVars, flags, results, processing
<1>4. ScanInv'
  BY DEF StationInv, WiFiType, ListInv, ScanInv, ScanPending, QueueInv,
         InQueue, Kind, Tasks, QueueEvents, ScanUnderWay, Waiting,
         ScanCallbacks, JoinCallbacks, JoinCall, JoinPossible, Idle,
         scanVars, eloopVars, radioVars, histVars, flags, results, processing
<1>5. JoinInv'
  BY DEF StationInv, WiFiType, JoinInv, JoinPending, QueueInv, InQueue, Kind,
         QueueEvents, ListInv, Tasks, JoinCall, JoinPossible, Idle, scanVars,
         eloopVars, radioVars, histVars, flags, results, processing
<1>6. (~raced => ScanMatched)'
  BY DEF StationInv, WiFiType, ScanInv, ScanMatched, ScanPending,
         ScanUnderWay, Waiting, InQueue, Kind, One, QueueInv, ListInv, Tasks,
         ScanCallbacks, JoinCallbacks, JoinCall, JoinPossible, Idle,
         scanVars, eloopVars, radioVars, histVars, flags, results, processing
<1>7. (~raced => JoinMatched)'
  BY DEF StationInv, WiFiType, JoinInv, JoinMatched, JoinPending,
         JoinUnderWay, Waiting, InQueue, Kind, One, QueueInv, ScanCallbacks,
         JoinCallbacks, ListInv, Tasks, JoinCall, JoinPossible, Idle,
         scanVars, eloopVars, radioVars, histVars, flags, results, processing
<1>8. (~raced => LinkMatched)'
  BY DEF StationInv, WiFiType, JoinInv, JoinMatched, LinkMatched,
         JoinPending, JoinUnderWay, Waiting, InQueue, Kind, ScanCallbacks,
         JoinCallbacks, HasJoined, JoinCall, JoinPossible, Idle, scanVars,
         eloopVars, radioVars, histVars, flags, results, processing
<1> QED BY <1>1, <1>2, <1>3, <1>4, <1>5, <1>6, <1>7, <1>8 DEF StationInv

LEMMA StepJoinRefused ==
    ASSUME Patient, StationInv, JoinRefused
    PROVE  StationInv'
<1>1. QueueInv'
  BY DEF StationInv, QueueInv, JoinRefused, scanVars, eloopVars
<1>2. WiFiType'
  BY DEF StationInv, WiFiType, QueueEvents, Tasks, ScanCallbacks,
         JoinCallbacks, JoinRefused, scanVars, eloopVars, histVars, callVars,
         flags, results, processing
<1>3. ListInv'
  BY DEF StationInv, WiFiType, ListInv, Listed, ScanInv, ScanPending, Tasks,
         NoList, JoinRefused, scanVars, eloopVars, histVars, callVars, flags,
         results, processing
<1>4. ScanInv'
  BY DEF StationInv, WiFiType, ListInv, ScanInv, ScanPending, QueueInv,
         InQueue, Kind, Tasks, QueueEvents, ScanUnderWay, Waiting,
         ScanCallbacks, JoinCallbacks, JoinRefused, scanVars, eloopVars,
         histVars, callVars, flags, results, processing
<1>5. JoinInv'
  BY DEF StationInv, WiFiType, JoinInv, JoinPending, QueueInv, InQueue, Kind,
         QueueEvents, ListInv, Tasks, JoinRefused, scanVars, eloopVars,
         histVars, callVars, flags, results, processing
<1>6. (~raced => ScanMatched)'
  BY DEF StationInv, WiFiType, ScanInv, ScanMatched, ScanPending,
         ScanUnderWay, Waiting, InQueue, Kind, One, QueueInv, ListInv, Tasks,
         ScanCallbacks, JoinCallbacks, JoinRefused, scanVars, eloopVars,
         histVars, callVars, flags, results, processing
<1>7. (~raced => JoinMatched)'
  BY DEF StationInv, WiFiType, JoinInv, JoinMatched, JoinPending,
         JoinUnderWay, Waiting, InQueue, Kind, One, QueueInv, ScanCallbacks,
         JoinCallbacks, ListInv, Tasks, JoinRefused, scanVars, eloopVars,
         histVars, callVars, flags, results, processing
<1>8. (~raced => LinkMatched)'
  BY DEF StationInv, WiFiType, JoinInv, JoinMatched, LinkMatched,
         JoinPending, JoinUnderWay, Waiting, InQueue, Kind, ScanCallbacks,
         JoinCallbacks, HasJoined, JoinRefused, scanVars, eloopVars,
         histVars, callVars, flags, results, processing
<1> QED BY <1>1, <1>2, <1>3, <1>4, <1>5, <1>6, <1>7, <1>8 DEF StationInv

LEMMA StepJoinStart ==
    ASSUME Patient, StationInv, JoinStart
    PROVE  StationInv'
<1>1. QueueInv'
  BY DEF StationInv, QueueInv, JoinStart, scanVars, eloopVars
<1>2. WiFiType'
  <2>1. asked' \in [scan : Nat, join : Nat] /\ told' \in [scan : Nat, join : Nat]
    BY SMTT(30) DEF JoinStart, Post, StationInv, WiFiType
  <2> QED BY <2>1 DEF StationInv, WiFiType, JoinStart, scanVars, results, processing,
             eloopVars
<1>3. ListInv'
  BY DEF StationInv, WiFiType, ListInv, Listed, ScanInv, ScanPending, Tasks,
         NoList, JoinStart, Post, scanVars, eloopVars, callVars, flags,
         results, processing
<1>4. ScanInv'
  BY DEF StationInv, WiFiType, ListInv, ScanInv, ScanPending, QueueInv,
         InQueue, Kind, Tasks, QueueEvents, ScanUnderWay, Waiting,
         ScanCallbacks, JoinCallbacks, JoinStart, Post, scanVars, eloopVars,
         callVars, flags, results, processing
<1>5. JoinInv'
  BY DEF StationInv, WiFiType, JoinInv, JoinPending, QueueInv, InQueue, Kind,
         QueueEvents, ListInv, Tasks, JoinStart, Post, scanVars, eloopVars,
         callVars, flags, results, processing
<1>6. (~raced => ScanMatched)'
  BY DEF StationInv, WiFiType, ScanInv, ScanMatched, ScanPending,
         ScanUnderWay, Waiting, InQueue, Kind, One, QueueInv, ListInv, Tasks,
         ScanCallbacks, JoinCallbacks, JoinStart, Post, scanVars, eloopVars,
         callVars, flags, results, processing
<1>7. (~raced => JoinMatched)'
  BY SMTT(30) DEF StationInv, WiFiType, JoinInv, JoinMatched, JoinPending,
         JoinUnderWay, Waiting, InQueue, Kind, One, QueueInv, ScanCallbacks,
         JoinCallbacks, ListInv, Tasks, JoinStart, Post, scanVars, eloopVars,
         callVars, flags, results, processing
<1>8. (~raced => LinkMatched)'
  BY DEF StationInv, WiFiType, JoinInv, JoinMatched, LinkMatched,
         JoinPending, JoinUnderWay, Waiting, InQueue, Kind, ScanCallbacks,
         JoinCallbacks, HasJoined, JoinStart, Post, scanVars, eloopVars,
         callVars, flags, results, processing
<1> QED BY <1>1, <1>2, <1>3, <1>4, <1>5, <1>6, <1>7, <1>8 DEF StationInv

LEMMA StepJoinRegister ==
    ASSUME Patient, StationInv, JoinRegister
    PROVE  StationInv'
<1>1. QueueInv'
  BY DEF StationInv, QueueInv, JoinRegister, scanVars
<1>2. WiFiType'
  BY DEF StationInv, WiFiType, QueueEvents, Tasks, ScanCallbacks,
         JoinCallbacks, JoinRegister, scanVars, staVars, radioVars, callVars,
         flags, results, processing
<1>3. ListInv'
  BY DEF StationInv, WiFiType, ListInv, Listed, ScanInv, ScanPending, Tasks,
         NoList, JoinRegister, scanVars, staVars, radioVars, callVars, flags,
         results, processing
<1>4. ScanInv'
  BY DEF StationInv, WiFiType, ListInv, ScanInv, ScanPending, QueueInv,
         InQueue, Kind, Tasks, QueueEvents, ScanUnderWay, Waiting,
         ScanCallbacks, JoinCallbacks, JoinRegister, scanVars, staVars,
         radioVars, callVars, flags, results, processing
<1>5. JoinInv'
  BY DEF StationInv, WiFiType, JoinInv, JoinPending, QueueInv, InQueue, Kind,
         QueueEvents, ListInv, Tasks, JoinRegister, scanVars, staVars,
         radioVars, callVars, flags, results, processing
<1>6. (~raced => ScanMatched)'
  BY DEF StationInv, WiFiType, ScanInv, ScanMatched, ScanPending,
         ScanUnderWay, Waiting, InQueue, Kind, One, QueueInv, ListInv, Tasks,
         ScanCallbacks, JoinCallbacks, JoinRegister, scanVars, staVars,
         radioVars, callVars, flags, results, processing
<1>7. (~raced => JoinMatched)'
  BY DEF StationInv, WiFiType, JoinInv, JoinMatched, JoinPending,
         JoinUnderWay, Waiting, InQueue, Kind, One, QueueInv, ScanCallbacks,
         JoinCallbacks, ListInv, Tasks, JoinRegister, scanVars, staVars,
         radioVars, callVars, flags, results, processing
<1>8. (~raced => LinkMatched)'
  BY DEF StationInv, WiFiType, JoinInv, JoinMatched, LinkMatched,
         JoinPending, JoinUnderWay, Waiting, InQueue, Kind, ScanCallbacks,
         JoinCallbacks, HasJoined, JoinRegister, scanVars, staVars,
         radioVars, callVars, flags, results, processing
<1> QED BY <1>1, <1>2, <1>3, <1>4, <1>5, <1>6, <1>7, <1>8 DEF StationInv

LEMMA StepJoinOngoing ==
    ASSUME Patient, StationInv, JoinOngoing
    PROVE  StationInv'
<1>1. QueueInv'
  BY DEF StationInv, QueueInv, JoinOngoing, scanVars, eloopVars
<1>2. WiFiType'
  BY DEF StationInv, WiFiType, QueueEvents, Tasks, ScanCallbacks,
         JoinCallbacks, JoinOngoing, scanVars, eloopVars, radioVars,
         histVars, callVars, flags, results, processing
<1>3. ListInv'
  BY DEF StationInv, WiFiType, ListInv, Listed, ScanInv, ScanPending, Tasks,
         NoList, JoinOngoing, scanVars, eloopVars, radioVars, histVars,
         callVars, flags, results, processing
<1>4. ScanInv'
  BY DEF StationInv, WiFiType, ListInv, ScanInv, ScanPending, QueueInv,
         InQueue, Kind, Tasks, QueueEvents, ScanUnderWay, Waiting,
         ScanCallbacks, JoinCallbacks, JoinOngoing, scanVars, eloopVars,
         radioVars, histVars, callVars, flags, results, processing
<1>5. JoinInv'
  BY DEF StationInv, WiFiType, JoinInv, JoinPending, QueueInv, InQueue, Kind,
         QueueEvents, ListInv, Tasks, JoinOngoing, scanVars, eloopVars,
         radioVars, histVars, callVars, flags, results, processing
<1>6. (~raced => ScanMatched)'
  BY DEF StationInv, WiFiType, ScanInv, ScanMatched, ScanPending,
         ScanUnderWay, Waiting, InQueue, Kind, One, QueueInv, ListInv, Tasks,
         ScanCallbacks, JoinCallbacks, JoinOngoing, scanVars, eloopVars,
         radioVars, histVars, callVars, flags, results, processing
<1>7. (~raced => JoinMatched)'
  BY DEF StationInv, WiFiType, JoinInv, JoinMatched, JoinPending,
         JoinUnderWay, Waiting, InQueue, Kind, One, QueueInv, ScanCallbacks,
         JoinCallbacks, ListInv, Tasks, JoinOngoing, scanVars, eloopVars,
         radioVars, histVars, callVars, flags, results, processing
<1>8. (~raced => LinkMatched)'
  BY DEF StationInv, WiFiType, JoinInv, JoinMatched, LinkMatched,
         JoinPending, JoinUnderWay, Waiting, InQueue, Kind, ScanCallbacks,
         JoinCallbacks, HasJoined, JoinOngoing, scanVars, eloopVars,
         radioVars, histVars, callVars, flags, results, processing
<1> QED BY <1>1, <1>2, <1>3, <1>4, <1>5, <1>6, <1>7, <1>8 DEF StationInv

LEMMA StepDisconnect ==
    ASSUME Patient, StationInv, Disconnect
    PROVE  StationInv'
<1>1. QueueInv' /\ ListInv' /\ ScanInv' /\ (~raced => ScanMatched)'
  BY DEF StationInv, QueueInv, ListInv, Listed, ScanInv, ScanPending,
         InQueue, ScanMatched, ScanUnderWay, Waiting, Disconnect, scanVars,
         eloopVars, histVars, flags, results, processing
<1>2. WiFiType'
  BY DEF StationInv, WiFiType, QueueEvents, Tasks, ScanCallbacks,
         JoinCallbacks, Disconnect, Idle, scanVars, eloopVars, histVars,
         callVars, flags, results, processing
<1>3. JoinInv'
  BY DEF StationInv, WiFiType, JoinInv, JoinPending, QueueInv, InQueue, Kind,
         QueueEvents, ListInv, Tasks, Disconnect, Idle, scanVars, eloopVars,
         histVars, callVars, flags, results, processing
<1>4. (~raced => JoinMatched)'
  BY DEF StationInv, WiFiType, JoinInv, JoinMatched, JoinPending,
         JoinUnderWay, Waiting, InQueue, Kind, One, QueueInv, ScanCallbacks,
         JoinCallbacks, ListInv, Tasks, Disconnect, Idle, scanVars,
         eloopVars, histVars, callVars, flags, results, processing
<1>5. (~raced => LinkMatched)'
  BY DEF StationInv, WiFiType, JoinInv, JoinMatched, LinkMatched,
         JoinPending, JoinUnderWay, Waiting, InQueue, Kind, ScanCallbacks,
         JoinCallbacks, HasJoined, Disconnect, Idle, scanVars, eloopVars,
         histVars, callVars, flags, results, processing
<1> QED BY <1>1, <1>2, <1>3, <1>4, <1>5 DEF StationInv

LEMMA StepEnd ==
    ASSUME Patient, StationInv, NEW mode \in BOOLEAN, End(mode)
    PROVE  StationInv'
<1>1. QueueInv' /\ ListInv'
  BY DEF StationInv, QueueInv, ListInv, Listed, End, scanVars, eloopVars,
         flags, results, processing
<1>2. WiFiType'
  BY DEF StationInv, WiFiType, QueueEvents, Tasks, ScanCallbacks,
         JoinCallbacks, End, Idle, Answer, Running, Failed, scanVars,
         eloopVars, radioVars, histVars, callVars, flags, results, processing
<1>3. ScanInv'
  BY DEF StationInv, WiFiType, ListInv, ScanInv, ScanPending, QueueInv,
         InQueue, Kind, Tasks, QueueEvents, ScanUnderWay, Waiting,
         ScanCallbacks, JoinCallbacks, End, Idle, Answer, Running, Failed,
         scanVars, eloopVars, radioVars, histVars, callVars, flags, results,
         processing
<1>4. JoinInv'
  BY DEF StationInv, WiFiType, JoinInv, JoinPending, QueueInv, InQueue, Kind,
         QueueEvents, ListInv, Tasks, End, Idle, Answer, Running, Failed,
         scanVars, eloopVars, radioVars, histVars, callVars, flags, results,
         processing
<1>5. (~raced => ScanMatched)'
  BY DEF StationInv, WiFiType, ScanInv, ScanMatched, ScanPending,
         ScanUnderWay, Waiting, InQueue, Kind, One, QueueInv, ListInv, Tasks,
         ScanCallbacks, JoinCallbacks, End, Idle, Answer, Running, Failed,
         scanVars, eloopVars, radioVars, histVars, callVars, flags, results,
         processing
<1>6. (~raced => JoinMatched)'
  BY DEF StationInv, WiFiType, JoinInv, JoinMatched, JoinPending,
         JoinUnderWay, Waiting, InQueue, Kind, One, QueueInv, ScanCallbacks,
         JoinCallbacks, ListInv, Tasks, End, Idle, Answer, Running, Failed,
         scanVars, eloopVars, radioVars, histVars, callVars, flags, results,
         processing
<1>7. (~raced => LinkMatched)'
  BY DEF StationInv, WiFiType, JoinInv, JoinMatched, LinkMatched,
         JoinPending, JoinUnderWay, Waiting, InQueue, Kind, ScanCallbacks,
         JoinCallbacks, HasJoined, End, Idle, Answer, Running, Failed,
         scanVars, eloopVars, radioVars, histVars, callVars, flags, results,
         processing
<1> QED BY <1>1, <1>2, <1>3, <1>4, <1>5, <1>6, <1>7 DEF StationInv

LEMMA StepDispatch ==
    ASSUME Patient, StationInv, Dispatch
    PROVE  StationInv'
<1>1. /\ queue # <<>> /\ queue' = Tail(queue) /\ loop = "idle"
      /\ UNCHANGED <<pc, running, complete, expired, apNum, list, heap, filled, found, oom,
                     status, handlers, scan, link, asked, told, raced, dropped>>
      /\ loop' = Head(queue) \/ loop' = "idle"
      /\ Kind(Head(queue)) \in handlers <=> loop' # "idle"
  <2>1. Head(queue) # "idle"
    BY QueueTaken DEF StationInv, Dispatch, QueueEvents
  <2> QED BY <2>1 DEF Dispatch, flags, results, staVars, radioVars, histVars, callVars
<1>2. /\ Head(queue) \in QueueEvents
      /\ Kind(Head(queue)) = "scan" =>
            InQueue("scan") /\ ~InQueue("scan")' /\ (InQueue("join")' <=> InQueue("join"))
      /\ Kind(Head(queue)) = "join" =>
            InQueue("join") /\ ~InQueue("join")' /\ (InQueue("scan")' <=> InQueue("scan"))
      /\ HasJoined' => HasJoined
      /\ Head(queue) = "joined" => HasJoined
  BY <1>1, QueueTaken DEF StationInv
<1>3. WiFiType'
  BY DEF StationInv, WiFiType, QueueEvents, Tasks, ScanCallbacks,
         JoinCallbacks, Dispatch, Kind, flags, results, staVars, radioVars,
         histVars, callVars
<1>4. QueueInv'
  BY QueueTaken DEF StationInv, Dispatch
<1>5. ListInv'
  <2>3. step' = IF loop' = "scanDone" THEN [step EXCEPT !["eloop"] = "clear"] ELSE step
    BY <1>1 DEF Dispatch
  <2>4. step["eloop"] = "none" /\ step \in [Tasks -> {"none", "clear", "count", "alloc", "fill", "finish"}]
    BY <1>1 DEF StationInv, ListInv, WiFiType
  <2>5. CASE loop' = "scanDone"
    <3>1. /\ Kind(Head(queue)) = "scan" /\ InQueue("scan")
      BY <1>1, <1>2, <2>5, Kinds
    <3>2. ~complete /\ pc # "scanResults"
      BY <3>1 DEF StationInv, ScanInv, ScanPending
    <3>3. step["sketch"] = "none" /\ list = NoList
      BY <2>4, <3>2 DEF StationInv, ListInv, Tasks, WiFiType
    <3>4. step' = [step EXCEPT !["eloop"] = "clear"]
      BY <2>3, <2>5
    <3> QED BY <1>1, <2>4, <2>5, <3>2, <3>3, <3>4 DEF StationInv, ListInv, Listed, Tasks
  <2>6. CASE loop' # "scanDone"
    BY <1>1, <2>3, <2>4, <2>6 DEF StationInv, ListInv, Listed, Tasks
  <2> QED BY <2>5, <2>6
<1>6. ScanInv'
  BY DEF StationInv, WiFiType, ListInv, ScanInv, ScanPending, QueueInv,
         InQueue, Kind, Tasks, QueueEvents, ScanUnderWay, Waiting,
         ScanCallbacks, JoinCallbacks, Dispatch, flags, results, staVars,
         radioVars, histVars, callVars
<1>7. JoinInv'
  BY DEF StationInv, WiFiType, JoinInv, JoinPending, QueueInv, InQueue, Kind,
         QueueEvents, ListInv, Tasks, Dispatch, flags, results, staVars,
         radioVars, histVars, callVars
<1>8. (~raced => ScanMatched)'
  <2>4. (loop' \in {"scanDone", "scanFail"}) <=> (loop' # "idle" /\ Kind(Head(queue)) = "scan")
    BY <1>1, <1>2, Kinds DEF QueueEvents
  <2> SUFFICES ASSUME ~raced PROVE ScanMatched'
    BY <1>1
  <2>5. ScanUnderWay <=> scan = "busy" \/ InQueue("scan")
    BY <1>1 DEF ScanUnderWay, Waiting, InQueue, ScanCallbacks
  <2>6. ScanUnderWay' <=> scan = "busy" \/ InQueue("scan")' \/ loop' \in ScanCallbacks
    BY <1>1 DEF ScanUnderWay, Waiting, InQueue
  <2>7. loop' # "scanEnd"
    BY <1>1, <1>2 DEF QueueEvents
  <2>8. CASE Kind(Head(queue)) = "scan"
    <3>1. pc # "scanRegister" /\ "scan" \in handlers /\ scan # "busy"
      BY <1>2, <2>5, <2>8 DEF StationInv, ScanMatched, ScanInv
    <3>2. loop' \in {"scanDone", "scanFail"}
      BY <1>1, <2>4, <2>8, <3>1
    <3> HIDE DEF InQueue
    <3> QED BY <1>1, <1>2, <2>5, <2>6, <2>7, <2>8, <3>1, <3>2
            DEF StationInv, ScanMatched, One, ScanCallbacks
  <2>9. CASE Kind(Head(queue)) # "scan"
    <3>1. loop' \notin ScanCallbacks /\ loop \notin ScanCallbacks
      BY <1>1, <2>4, <2>7, <2>9 DEF ScanCallbacks
    <3>2. InQueue("scan")' <=> InQueue("scan")
      BY <1>2, <2>9, Kinds DEF Kind
    <3> HIDE DEF InQueue
    <3> QED BY <1>1, <2>5, <2>6, <2>7, <3>1, <3>2
            DEF StationInv, ScanMatched, One, ScanPending, ScanCallbacks
  <2> QED BY <2>8, <2>9
<1>9. (~raced => JoinMatched)'
  <2>4. (loop' \in {"joined", "joinFailed"}) <=> (loop' # "idle" /\ Kind(Head(queue)) = "join")
    BY <1>1, <1>2, Kinds DEF QueueEvents
  <2> SUFFICES ASSUME ~raced PROVE JoinMatched'
    BY <1>1
  <2>5. JoinUnderWay <=> link = "joining" \/ InQueue("join")
    BY <1>1 DEF JoinUnderWay, Waiting, InQueue, JoinCallbacks
  <2>6. JoinUnderWay' <=> link = "joining" \/ InQueue("join")' \/ loop' \in JoinCallbacks
    BY <1>1 DEF JoinUnderWay, Waiting, InQueue
  <2>7. loop' # "joinEnd"
    BY <1>1, <1>2 DEF QueueEvents
  <2>8. CASE Kind(Head(queue)) = "join"
    <3>1. pc # "joinRegister" /\ "join" \in handlers /\ link # "joining"
      BY <1>2, <2>5, <2>8 DEF StationInv, JoinMatched, JoinInv
    <3>2. loop' \in {"joined", "joinFailed"}
      BY <1>1, <2>4, <2>8, <3>1
    <3> HIDE DEF InQueue
    <3> QED BY <1>1, <1>2, <2>5, <2>6, <2>7, <2>8, <3>1, <3>2
            DEF StationInv, JoinMatched, JoinPending, One, JoinCallbacks
  <2>9. CASE Kind(Head(queue)) # "join"
    <3>1. loop' \notin JoinCallbacks /\ loop \notin JoinCallbacks
      BY <1>1, <2>4, <2>7, <2>9 DEF JoinCallbacks
    <3>2. InQueue("join")' <=> InQueue("join")
      BY <1>2, <2>9, Kinds DEF Kind
    <3> HIDE DEF InQueue
    <3> QED BY <1>1, <2>5, <2>6, <2>7, <3>1, <3>2
            DEF StationInv, JoinMatched, One, JoinPending, JoinCallbacks
  <2> QED BY <2>8, <2>9
<1>10. (~raced => LinkMatched)'
  BY DEF StationInv, WiFiType, JoinInv, JoinMatched, LinkMatched,
         JoinPending, JoinUnderWay, Waiting, InQueue, Kind, ScanCallbacks,
         JoinCallbacks, HasJoined, Dispatch, flags, results, staVars,
         radioVars, histVars, callVars
<1> QED BY <1>3, <1>4, <1>5, <1>6, <1>7, <1>8, <1>9, <1>10 DEF StationInv

LEMMA StepScanEnd ==
    ASSUME Patient, StationInv, ScanEnd
    PROVE  StationInv'
<1>1. QueueInv'
  BY DEF StationInv, QueueInv, ScanEnd, scanVars
<1>2. WiFiType'
  BY DEF StationInv, WiFiType, QueueEvents, Tasks, ScanCallbacks,
         JoinCallbacks, ScanEnd, AfterScan, Post, scanVars, staVars,
         radioVars, callVars, flags, results, processing
<1>3. ListInv'
  BY DEF StationInv, WiFiType, ListInv, Listed, ScanInv, ScanPending, Tasks,
         NoList, ScanEnd, AfterScan, Post, scanVars, staVars, radioVars,
         callVars, flags, results, processing
<1>4. ScanInv'
  BY DEF StationInv, WiFiType, ListInv, ScanInv, ScanPending, QueueInv,
         InQueue, Kind, Tasks, QueueEvents, ScanUnderWay, Waiting,
         ScanCallbacks, JoinCallbacks, ScanEnd, AfterScan, Post, scanVars,
         staVars, radioVars, callVars, flags, results, processing
<1>5. JoinInv'
  BY DEF StationInv, WiFiType, JoinInv, JoinPending, QueueInv, InQueue, Kind,
         QueueEvents, ListInv, Tasks, ScanEnd, AfterScan, Post, scanVars,
         staVars, radioVars, callVars, flags, results, processing
<1>6. (~raced => ScanMatched)'
  BY SMTT(30) DEF StationInv, WiFiType, ScanInv, ScanMatched, ScanPending,
         ScanUnderWay, Waiting, InQueue, Kind, One, QueueInv, ListInv, Tasks,
         ScanCallbacks, JoinCallbacks, ScanEnd, AfterScan, Post, scanVars,
         staVars, radioVars, callVars, flags, results, processing
<1>7. (~raced => JoinMatched)'
  BY DEF StationInv, WiFiType, JoinInv, JoinMatched, JoinPending,
         JoinUnderWay, Waiting, InQueue, Kind, One, QueueInv, ScanCallbacks,
         JoinCallbacks, ListInv, Tasks, ScanEnd, AfterScan, Post, scanVars,
         staVars, radioVars, callVars, flags, results, processing
<1>8. (~raced => LinkMatched)'
  BY DEF StationInv, WiFiType, JoinInv, JoinMatched, LinkMatched,
         JoinPending, JoinUnderWay, Waiting, InQueue, Kind, ScanCallbacks,
         JoinCallbacks, HasJoined, ScanEnd, AfterScan, Post, scanVars,
         staVars, radioVars, callVars, flags, results, processing
<1> QED BY <1>1, <1>2, <1>3, <1>4, <1>5, <1>6, <1>7, <1>8 DEF StationInv

LEMMA StepJoinResult ==
    ASSUME Patient, StationInv, JoinResult
    PROVE  StationInv'
<1>1. QueueInv'
  BY DEF StationInv, QueueInv, JoinResult, scanVars
<1>2. WiFiType'
  BY SMTT(30) DEF StationInv, WiFiType, QueueEvents, Tasks, ScanCallbacks,
         JoinCallbacks, JoinResult, JoinStatus, JoinPost, Post, scanVars,
         radioVars, callVars, flags, results, processing
<1>3. ListInv'
  BY DEF StationInv, WiFiType, ListInv, Listed, ScanInv, ScanPending, Tasks,
         NoList, JoinResult, JoinStatus, JoinPost, Post, scanVars, radioVars,
         callVars, flags, results, processing
<1>4. ScanInv'
  BY DEF StationInv, WiFiType, ListInv, ScanInv, ScanPending, QueueInv,
         InQueue, Kind, Tasks, QueueEvents, ScanUnderWay, Waiting,
         ScanCallbacks, JoinCallbacks, JoinResult, JoinStatus, JoinPost,
         Post, scanVars, radioVars, callVars, flags, results, processing
<1>5. JoinInv'
  BY DEF StationInv, WiFiType, JoinInv, JoinPending, QueueInv, InQueue, Kind,
         QueueEvents, ListInv, Tasks, JoinResult, JoinStatus, JoinPost, Post,
         scanVars, radioVars, callVars, flags, results, processing
<1>6. (~raced => ScanMatched)'
  BY DEF StationInv, WiFiType, ScanInv, ScanMatched, ScanPending,
         ScanUnderWay, Waiting, InQueue, Kind, One, QueueInv, ListInv, Tasks,
         ScanCallbacks, JoinCallbacks, JoinResult, JoinStatus, JoinPost,
         Post, scanVars, radioVars, callVars, flags, results, processing
<1>7. (~raced => JoinMatched)'
  BY DEF StationInv, WiFiType, JoinInv, JoinMatched, JoinPending,
         JoinUnderWay, Waiting, InQueue, Kind, One, QueueInv, ScanCallbacks,
         JoinCallbacks, ListInv, Tasks, JoinResult, JoinStatus, JoinPost,
         Post, scanVars, radioVars, callVars, flags, results, processing
<1>8. (~raced => LinkMatched)'
  BY DEF StationInv, WiFiType, JoinInv, JoinMatched, LinkMatched,
         JoinPending, JoinUnderWay, Waiting, InQueue, Kind, ScanCallbacks,
         JoinCallbacks, HasJoined, JoinResult, JoinStatus, JoinPost, Post,
         scanVars, radioVars, callVars, flags, results, processing
<1> QED BY <1>1, <1>2, <1>3, <1>4, <1>5, <1>6, <1>7, <1>8 DEF StationInv

LEMMA StepJoinEnd ==
    ASSUME Patient, StationInv, JoinEnd
    PROVE  StationInv'
<1>1. QueueInv'
  BY DEF StationInv, QueueInv, JoinEnd, scanVars
<1>2. WiFiType'
  BY DEF StationInv, WiFiType, QueueEvents, Tasks, ScanCallbacks,
         JoinCallbacks, JoinEnd, scanVars, staVars, radioVars, histVars,
         callVars, flags, results, processing
<1>3. ListInv'
  BY DEF StationInv, WiFiType, ListInv, Listed, ScanInv, ScanPending, Tasks,
         NoList, JoinEnd, scanVars, staVars, radioVars, histVars, callVars,
         flags, results, processing
<1>4. ScanInv'
  BY DEF StationInv, WiFiType, ListInv, ScanInv, ScanPending, QueueInv,
         InQueue, Kind, Tasks, QueueEvents, ScanUnderWay, Waiting,
         ScanCallbacks, JoinCallbacks, JoinEnd, scanVars, staVars, radioVars,
         histVars, callVars, flags, results, processing
<1>5. JoinInv'
  BY DEF StationInv, WiFiType, JoinInv, JoinPending, QueueInv, InQueue, Kind,
         QueueEvents, ListInv, Tasks, JoinEnd, scanVars, staVars, radioVars,
         histVars, callVars, flags, results, processing
<1>6. (~raced => ScanMatched)'
  BY DEF StationInv, WiFiType, ScanInv, ScanMatched, ScanPending,
         ScanUnderWay, Waiting, InQueue, Kind, One, QueueInv, ListInv, Tasks,
         ScanCallbacks, JoinCallbacks, JoinEnd, scanVars, staVars, radioVars,
         histVars, callVars, flags, results, processing
<1>7. (~raced => JoinMatched)'
  BY DEF StationInv, WiFiType, JoinInv, JoinMatched, JoinPending,
         JoinUnderWay, Waiting, InQueue, Kind, One, QueueInv, ScanCallbacks,
         JoinCallbacks, ListInv, Tasks, JoinEnd, scanVars, staVars,
         radioVars, histVars, callVars, flags, results, processing
<1>8. (~raced => LinkMatched)'
  BY DEF StationInv, WiFiType, JoinInv, JoinMatched, LinkMatched,
         JoinPending, JoinUnderWay, Waiting, InQueue, Kind, ScanCallbacks,
         JoinCallbacks, HasJoined, JoinEnd, scanVars, staVars, radioVars,
         histVars, callVars, flags, results, processing
<1> QED BY <1>1, <1>2, <1>3, <1>4, <1>5, <1>6, <1>7, <1>8 DEF StationInv

LEMMA StepScanOutcome ==
    ASSUME Patient, StationInv, ScanOutcome
    PROVE  StationInv'
<1>1. PICK e \in {"scanDone", "scanFail"} : queue' = Append(queue, e)
  BY DEF ScanOutcome
<1>2. /\ scan = "busy" /\ scan' = "idle" /\ (raced' <=> raced \/ pc = "scanRegister")
      /\ UNCHANGED <<pc, running, complete, expired, apNum, list, heap, filled, step,
                     found, oom, status, handlers, loop, link, asked, told, dropped>>
  BY DEF ScanOutcome, scanVars, flags, results, processing, staVars
<1>3. Kind(e) = "scan" /\ e \in QueueEvents /\ ~InQueue("scan")
  BY <1>1, <1>2, Kinds DEF StationInv, ScanInv
<1>4. /\ queue' \in Seq(QueueEvents) /\ Len(queue') <= 2 /\ QueueInv'
      /\ InQueue("scan")' /\ (InQueue("join")' <=> InQueue("join"))
      /\ HasJoined' <=> HasJoined
  BY <1>1, <1>3, QueuePosted DEF StationInv
<1>5. WiFiType' /\ QueueInv' /\ ListInv'
  BY SMTT(30), <1>1, <1>2, <1>4 DEF StationInv, WiFiType, ListInv, Listed
<1>6. ScanInv' /\ JoinInv'
  <2> HIDE DEF InQueue
  <2> QED BY <1>1, <1>2, <1>4 DEF StationInv, ScanInv, ScanPending, JoinInv, JoinPending
<1>7. (~raced => ScanMatched)'
  <2>5. /\ ScanUnderWay <=> scan = "busy" \/ InQueue("scan") \/ loop \in ScanCallbacks
        /\ ScanUnderWay' <=> scan' = "busy" \/ InQueue("scan")' \/ loop' \in ScanCallbacks
    BY DEF ScanUnderWay, Waiting, InQueue
  <2> HIDE DEF InQueue
  <2> QED BY <1>2, <1>3, <1>4, <2>5 DEF StationInv, ScanMatched, ScanPending, One
<1>8. (~raced => JoinMatched)'
  <2>5. /\ JoinUnderWay <=> link = "joining" \/ InQueue("join") \/ loop \in JoinCallbacks
        /\ JoinUnderWay' <=> link' = "joining" \/ InQueue("join")' \/ loop' \in JoinCallbacks
    BY DEF JoinUnderWay, Waiting, InQueue
  <2> HIDE DEF InQueue
  <2> QED BY <1>1, <1>2, <1>3, <1>4, <2>5 DEF StationInv, JoinMatched, JoinPending, One
<1>9. (~raced => LinkMatched)'
  <2> HIDE DEF InQueue, HasJoined
  <2> QED BY <1>1, <1>2, <1>4 DEF StationInv, JoinInv, JoinPending, JoinMatched, LinkMatched
<1> QED BY <1>5, <1>6, <1>7, <1>8, <1>9 DEF StationInv

LEMMA StepJoinOutcome ==
    ASSUME Patient, StationInv, JoinOutcome
    PROVE  StationInv'
<1>1. PICK e \in {"joined", "joinFailed"} :
        /\ queue' = Append(queue, e)
        /\ link' = IF e = "joined" THEN "up" ELSE "down"
  BY DEF JoinOutcome
<1>2. /\ link = "joining" /\ (raced' <=> raced \/ pc \in {"joinRegister", "joinStatus"})
      /\ UNCHANGED <<pc, running, complete, expired, apNum, list, heap, filled, step,
                     found, oom, status, handlers, loop, scan, asked, told, dropped>>
  BY DEF JoinOutcome, scanVars, flags, results, processing, staVars
<1>3. Kind(e) = "join" /\ e \in QueueEvents /\ ~InQueue("join")
  BY <1>1, <1>2, Kinds DEF StationInv, JoinInv
<1>4. /\ queue' \in Seq(QueueEvents) /\ Len(queue') <= 2 /\ QueueInv'
      /\ InQueue("join")' /\ (InQueue("scan")' <=> InQueue("scan"))
      /\ HasJoined' <=> HasJoined \/ e = "joined"
  BY <1>1, <1>3, QueuePosted DEF StationInv
<1>5. WiFiType' /\ QueueInv' /\ ListInv'
  BY SMTT(30), <1>1, <1>2, <1>4 DEF StationInv, WiFiType, ListInv, Listed
<1>6. ScanInv' /\ JoinInv'
  <2> HIDE DEF InQueue
  <2> QED BY <1>1, <1>2, <1>4 DEF StationInv, ScanInv, ScanPending, JoinInv, JoinPending
<1>7. (~raced => ScanMatched)'
  <2>5. /\ ScanUnderWay <=> scan = "busy" \/ InQueue("scan") \/ loop \in ScanCallbacks
        /\ ScanUnderWay' <=> scan' = "busy" \/ InQueue("scan")' \/ loop' \in ScanCallbacks
    BY DEF ScanUnderWay, Waiting, InQueue
  <2> HIDE DEF InQueue
  <2> QED BY <1>2, <1>3, <1>4, <2>5 DEF StationInv, ScanMatched, ScanPending, One
<1>8. (~raced => JoinMatched)'
  <2>5. /\ JoinUnderWay <=> link = "joining" \/ InQueue("join") \/ loop \in JoinCallbacks
        /\ JoinUnderWay' <=> link' = "joining" \/ InQueue("join")' \/ loop' \in JoinCallbacks
    BY DEF JoinUnderWay, Waiting, InQueue
  <2> HIDE DEF InQueue
  <2> QED BY <1>1, <1>2, <1>3, <1>4, <2>5 DEF StationInv, JoinMatched, JoinPending, One
<1>9. (~raced => LinkMatched)'
  <2> HIDE DEF InQueue, HasJoined
  <2> QED BY <1>1, <1>2, <1>4 DEF StationInv, JoinInv, JoinPending, JoinMatched, LinkMatched
<1> QED BY <1>5, <1>6, <1>7, <1>8, <1>9 DEF StationInv

LEMMA StepLinkLost ==
    ASSUME Patient, StationInv, LinkLost
    PROVE  StationInv'
<1>1. QueueInv' /\ ListInv' /\ ScanInv' /\ (~raced => ScanMatched)'
  BY DEF StationInv, QueueInv, ListInv, Listed, ScanInv, ScanPending,
         InQueue, ScanMatched, ScanUnderWay, Waiting, LinkLost, scanVars,
         eloopVars, flags, results, processing
<1>2. WiFiType'
  BY DEF StationInv, WiFiType, QueueEvents, Tasks, ScanCallbacks,
         JoinCallbacks, LinkLost, scanVars, staVars, eloopVars, callVars,
         flags, results, processing
<1>3. JoinInv'
  BY DEF StationInv, WiFiType, JoinInv, JoinPending, QueueInv, InQueue, Kind,
         QueueEvents, ListInv, Tasks, LinkLost, scanVars, staVars, eloopVars,
         callVars, flags, results, processing
<1>4. (~raced => JoinMatched)'
  BY DEF StationInv, WiFiType, JoinInv, JoinMatched, JoinPending,
         JoinUnderWay, Waiting, InQueue, Kind, One, QueueInv, ScanCallbacks,
         JoinCallbacks, ListInv, Tasks, LinkLost, scanVars, staVars,
         eloopVars, callVars, flags, results, processing
<1>5. (~raced => LinkMatched)'
  BY DEF StationInv, WiFiType, JoinInv, JoinMatched, LinkMatched,
         JoinPending, JoinUnderWay, Waiting, InQueue, Kind, ScanCallbacks,
         JoinCallbacks, HasJoined, LinkLost, scanVars, staVars, eloopVars,
         callVars, flags, results, processing
<1> QED BY <1>1, <1>2, <1>3, <1>4, <1>5 DEF StationInv

LEMMA StepExpire ==
    ASSUME Patient, StationInv, Expire
    PROVE  StationInv'
<1>1. WiFiType' /\ QueueInv' /\ ListInv'
  BY DEF StationInv, WiFiType, QueueInv, ListInv, Listed, Expire, results,
         processing, staVars, eloopVars, radioVars, histVars
<1>2. /\ JoinInv' /\ (~raced => ScanMatched)'
      /\ (~raced => JoinMatched)' /\ (~raced => LinkMatched)'
  BY DEF StationInv, JoinInv, JoinPending, InQueue, ScanMatched, ScanPending,
         ScanUnderWay, Waiting, JoinMatched, JoinUnderWay, LinkMatched,
         HasJoined, Expire, staVars, eloopVars, radioVars, histVars
<1>3. ScanInv'
  <2>1. ~ScanPending
    BY DEF Expire, ScanUnderWay, Waiting, ScanPending, InQueue, ScanCallbacks
  <2>2. UNCHANGED <<pc, running, complete, queue, scan, loop>> /\ pc = "idle"
    BY DEF Expire, Idle, eloopVars, radioVars
  <2> QED BY <2>1, <2>2 DEF StationInv, ScanInv, ScanPending, InQueue
<1> QED BY <1>1, <1>2, <1>3 DEF StationInv

LEMMA InitStation == Init => StationInv
<1> SUFFICES ASSUME Init PROVE StationInv
  OBVIOUS
<1>1. queue = <<>> /\ Len(queue) = 0 /\ 1..Len(queue) = {}
  BY DEF Init
<1>2. ~InQueue("scan") /\ ~InQueue("join") /\ ~HasJoined /\ QueueInv
  BY <1>1 DEF InQueue, HasJoined, QueueInv
<1>3. WiFiType
  <2>1. /\ 0 \in 0..MaxAps /\ queue \in Seq(QueueEvents)
    BY <1>1
  <2>2. asked \in [scan : Nat, join : Nat] /\ told \in [scan : Nat, join : Nat]
    BY DEF Init
  <2>3. step \in [Tasks -> {"none", "clear", "count", "alloc", "fill", "finish"}]
    BY DEF Init
  <2>4. found \in [Tasks -> 0..MaxAps] /\ apNum \in 0..MaxAps
    BY <2>1 DEF Init
  <2>5. oom \in BOOLEAN /\ list \in Nat
    BY DEF Init, NoList
  <2> QED BY <1>1, <2>1, <2>2, <2>3, <2>4, <2>5 DEF Init, WiFiType
<1>4. ListInv
  BY DEF Init, ListInv, Tasks, NoList
<1> HIDE DEF InQueue
<1>5. ScanInv /\ JoinInv
  BY <1>2 DEF Init, ScanInv, ScanPending, JoinInv, JoinPending
<1>6. ~ScanUnderWay /\ ~JoinUnderWay
  BY <1>1 DEF Init, ScanUnderWay, JoinUnderWay, Waiting, ScanCallbacks, JoinCallbacks
<1>7. ScanMatched /\ JoinMatched
  BY <1>2, <1>6 DEF Init, ScanMatched, JoinMatched, One, ScanCallbacks
<1>8. LinkMatched
  BY <1>2 DEF Init, LinkMatched
<1> QED BY <1>2, <1>3, <1>4, <1>5, <1>7, <1>8 DEF StationInv

LEMMA StationIdle ==
    ASSUME StationInv, UNCHANGED vars
    PROVE  StationInv'
<1>1. WiFiType' /\ QueueInv' /\ ListInv'
  BY DEF StationInv, WiFiType, QueueInv, ListInv, Listed, vars, scanVars, flags, results,
         processing, staVars, eloopVars, radioVars, histVars
<1>2. ScanInv' /\ JoinInv'
  BY DEF StationInv, ScanInv, ScanPending, JoinInv, JoinPending, InQueue, vars, scanVars,
         flags, staVars, eloopVars, radioVars
<1>3. (~raced => ScanMatched)' /\ (~raced => JoinMatched)'
  BY DEF StationInv, ScanMatched, ScanPending, ScanUnderWay, JoinMatched, JoinPending,
         JoinUnderWay, Waiting, InQueue, vars, staVars, eloopVars, radioVars, histVars
<1>4. (~raced => LinkMatched)'
  BY DEF StationInv, LinkMatched, HasJoined, vars, staVars, eloopVars, radioVars, histVars
<1> QED BY <1>1, <1>2, <1>3, <1>4 DEF StationInv

LEMMA StationStep == Patient /\ StationInv /\ [Next]_vars => StationInv'
<1> SUFFICES ASSUME Patient, StationInv, [Next]_vars PROVE StationInv'
  OBVIOUS
<1>1. ASSUME NEW t \in Tasks, Process(t) PROVE StationInv'
  <2>1. ASSUME NEW n \in 0..MaxAps, ProcessClear(t, n) PROVE StationInv'
    BY <2>1, StepProcessClear
  <2> QED BY <1>1, <2>1, StepProcessCount, StepProcessAlloc, StepProcessNoMemory,
             StepProcessFill, StepProcessFinish DEF Process
<1>2. CASE CallStep
  BY <1>1, <1>2, StepScanFlags, StepScanRefused, StepScanStart, StepScanRegister,
     StepJoinRefused, StepJoinStart, StepJoinRegister, StepJoinOngoing
     DEF CallStep, Tasks
<1>3. CASE EloopStep
  BY <1>1, <1>3, StepDispatch, StepScanEnd, StepJoinResult, StepJoinEnd
     DEF EloopStep, Tasks
<1>4. ASSUME NEW mode \in BOOLEAN, ScanCall(mode) \/ JoinCall(mode) \/ End(mode)
      PROVE  StationInv'
  BY <1>4, StepScanCall, StepJoinCall, StepEnd
<1>5. CASE UNCHANGED vars
  BY <1>5, StationIdle
<1> QED BY <1>2, <1>3, <1>4, <1>5, StepScanDelete, StepStaBegin, StepJoinNoStation,
           StepDisconnect, StepScanOutcome, StepJoinOutcome, StepLinkLost, StepExpire
           DEF Next

\* How many events of a kind wait in the queue.
LEMMA QueueCount ==
    ASSUME WiFiType, QueueInv, NEW kind
    PROVE  Cardinality({i \in 1..Len(queue) : Kind(queue[i]) = kind}) = One(InQueue(kind))
<1> DEFINE S == {i \in 1..Len(queue) : Kind(queue[i]) = kind}
<1>1. CASE InQueue(kind)
  <2>1. PICK i \in 1..Len(queue) : Kind(queue[i]) = kind
    BY <1>1 DEF InQueue
  <2>2. S = {i}
    BY <2>1 DEF QueueInv
  <2> QED BY <1>1, <2>2, FS_Singleton DEF One
<1>2. CASE ~InQueue(kind)
  <2>1. S = {}
    BY <1>2 DEF InQueue
  <2> QED BY <1>2, <2>1, FS_EmptySet DEF One
<1> QED BY <1>1, <1>2

\* What the invariant says of the things a sketch can ask for.
LEMMA StationSays == StationInv => StationTrue
<1> SUFFICES ASSUME StationInv PROVE StationTrue
  OBVIOUS
<1>1. TypeOK
  <2>1. list \in {NoList} \cup DOMAIN heap
    BY DEF StationInv, ListInv
  <2> QED BY <2>1 DEF StationInv, WiFiType, ListInv, TypeOK
<1>2. ListFilled
  <2> SUFFICES ASSUME Answer > 0, ~oom PROVE list \in filled /\ heap[list] >= apNum
    BY DEF ListFilled
  <2>1. complete /\ apNum > 0
    BY DEF Answer, Running, Failed
  <2> QED BY <2>1 DEF StationInv, WiFiType, ListInv, Listed
<1>3. NoLeak
  BY DEF StationInv, ListInv, NoLeak
<1>4. HandlersMatch
  BY DEF StationInv, ScanMatched, JoinMatched, HandlersMatch
<1>5. OneEventEach
  <2> SUFFICES ASSUME ~raced PROVE OneEventEach
    BY DEF OneEventEach
  <2>1. /\ Untold("scan", scan = "busy", ScanCallbacks)
           = One(InQueue("scan")) + One(scan = "busy") + One(loop \in ScanCallbacks)
        /\ Untold("join", link = "joining", {"joined", "joinFailed"})
           = One(InQueue("join")) + One(link = "joining")
             + One(loop \in {"joined", "joinFailed"})
    BY QueueCount DEF StationInv, Untold, One
  <2> QED BY <2>1 DEF StationInv, ScanMatched, JoinMatched, OneEventEach
<1>6. StatusHonest
  BY DEF StationInv, JoinMatched, LinkMatched, StatusHonest, ConnectedMeansLink,
         JoinPending, JoinUnderWay, Waiting, InQueue, JoinCallbacks
<1> QED BY <1>1, <1>2, <1>3, <1>4, <1>5, <1>6 DEF StationTrue

-----------------------------------------------------------------------------
(* The theorem.                                                              *)

\* In a sketch that waits for each result, the list behind a count is written,
\* no list is lost, each request is announced once, and as long as no result
\* met its registration the callbacks and status() agree with the radio.
THEOREM StationAlwaysTrue ==
    ASSUME Patient
    PROVE  Spec => []StationTrue
<1>1. Init => StationInv
  BY InitStation
<1>2. StationInv /\ [Next]_vars => StationInv'
  BY StationStep
<1> QED BY <1>1, <1>2, StationSays, PTL DEF Spec
=============================================================================

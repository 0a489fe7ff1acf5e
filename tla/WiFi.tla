-------------------------------- MODULE WiFi --------------------------------
(* Scanning and joining: WiFiScan.cpp and WiFiSTA.cpp between the sketch and *)
(* the WiFi management task.  The sketch starts an operation and registers   *)
(* callbacks for its result; the management task (eloop) runs them.  Both    *)
(* tasks work on the same fields without a lock, so each step below touches  *)
(* them once.  The management library and the radio are external.            *)
EXTENDS Integers, Sequences, FiniteSets

CONSTANTS
    Patient,    \* the sketch waits for a result before it asks again
    MaxScans,   \* bound: scanNetworks() calls
    MaxJoins,   \* bound: begin() calls
    MaxAps      \* bound: access points found by a scan

ASSUME WiFiAssumption ==
    /\ Patient \in BOOLEAN
    /\ MaxScans \in Nat /\ MaxJoins \in Nat /\ MaxAps \in Nat \ {0}

NoList == 0
Running == -1       \* WIFI_SCAN_RUNNING
Failed == -2        \* WIFI_SCAN_FAILED

Tasks == {"sketch", "eloop"}

VARIABLES
    pc,         \* where the sketch stands inside a call
    blocked,    \* the blocking mode of that call
    running, complete,  \* _scanRunning, _scanComplete
    expired,    \* more than _scanTimeout since _scanStartTime
    apNum, list,        \* _scanResults
    heap,       \* list blocks in use: their length
    filled,     \* those whose entries have been written
    step,       \* where a task stands in _processScanResults
    found,      \* its result_cnt
    status,     \* STA.status
    ready,      \* _sta_initialized
    handlers,   \* the pairs of callbacks registered with the eloop
    queue,      \* events waiting for the eloop
    loop,       \* the callback the eloop is in
    scan,       \* radio: scanning for an asynchronous request
    link,       \* radio: state of the link
    asked,      \* history: asynchronous requests accepted, by kind
    told,       \* history: results posted to the sketch's listeners, by kind
    raced,      \* history: a result or a callback met a registration
    dropped,    \* history: the last link was lost
    oom,        \* history: the list could not be allocated
    scans, joins        \* history: calls made

flags == <<running, complete, expired>>
results == <<apNum, list, heap, filled>>
processing == <<step, found, oom>>
scanVars == <<flags, results, processing>>
staVars == <<status, ready>>
eloopVars == <<handlers, queue, loop>>
radioVars == <<scan, link>>
histVars == <<asked, told, raced, dropped>>
callVars == <<blocked, scans, joins>>
vars == <<pc, callVars, scanVars, staVars, eloopVars, radioVars, histVars>>

Init ==
    /\ pc = "idle" /\ blocked = FALSE
    /\ running = FALSE /\ complete = FALSE /\ expired = FALSE
    /\ apNum = 0 /\ list = NoList /\ heap = <<>> /\ filled = {}
    /\ step = [t \in Tasks |-> "none"] /\ found = [t \in Tasks |-> 0]
    /\ status = "STOPPED" /\ ready = FALSE
    /\ handlers = {} /\ queue = <<>> /\ loop = "idle"
    /\ scan = "idle" /\ link = "down"
    /\ asked = [scan |-> 0, join |-> 0] /\ told = [scan |-> 0, join |-> 0]
    /\ raced = FALSE /\ dropped = FALSE /\ oom = FALSE /\ scans = 0 /\ joins = 0

AnswerNoTimeout ==                  \* mutant
    IF complete THEN apNum ELSE IF running THEN Running ELSE Failed

\* scanComplete()
Answer ==
    IF complete THEN apNum
    ELSE IF running /\ ~expired THEN Running ELSE Failed

Idle == pc = "idle"

Post(kind) == told' = [told EXCEPT ![kind] = @ + 1]

-----------------------------------------------------------------------------
(* scanNetworks(), scanDelete()                                              *)

\* scanDelete
Delete ==
    IF list = NoList
    THEN UNCHANGED <<list, apNum, heap, filled>>
    ELSE /\ heap' = [b \in DOMAIN heap \ {list} |-> heap[b]]
         /\ filled' = filled \ {list}
         /\ list' = NoList /\ apNum' = 0

ScanDelete ==
    /\ Idle
    /\ Patient => Answer >= 0
    /\ list # NoList
    /\ Delete
    /\ UNCHANGED <<pc, callVars, flags, processing, staVars, eloopVars,
                   radioVars, histVars>>

ScanCall(mode) ==
    /\ Idle
    /\ Patient => Answer # Running
    /\ scans < MaxScans
    /\ scans' = scans + 1
    /\ expired' = FALSE
    /\ Delete
    /\ blocked' = mode
    /\ pc' = "scanFlags"
    /\ UNCHANGED <<joins, running, complete, processing, staVars, eloopVars,
                   radioVars, histVars>>

FlagsKeepComplete ==                \* mutant
    running' = TRUE /\ UNCHANGED complete

Flags == complete' = FALSE /\ running' = TRUE

ScanFlags ==
    /\ pc = "scanFlags"
    /\ Flags
    /\ pc' = "scanStart"
    /\ UNCHANGED <<callVars, expired, results, processing, staVars, eloopVars,
                   radioVars, histVars>>

\* The request is refused, or a blocking scan fails: -1, and _scanRunning
\* stays set.
ScanRefused ==
    /\ pc = "scanStart"
    /\ pc' = "idle"
    /\ UNCHANGED <<callVars, scanVars, staVars, eloopVars, radioVars, histVars>>

ScanStart ==
    /\ pc = "scanStart" /\ scan = "idle"
    /\ IF blocked
       THEN /\ step' = [step EXCEPT !["sketch"] = "clear"]
            /\ pc' = "scanResults"
            /\ UNCHANGED <<scan, asked>>
       ELSE /\ scan' = "busy"
            /\ asked' = [asked EXCEPT !.scan = @ + 1]
            /\ pc' = "scanRegister"
            /\ UNCHANGED step
    /\ UNCHANGED <<callVars, flags, results, found, oom, staVars, eloopVars,
                   link, told, raced, dropped>>

ScanCallbacks == {"scanDone", "scanFail", "scanEnd"}
JoinCallbacks == {"joined", "joinFailed", "joinEnd"}

ScanRegister ==
    /\ pc = "scanRegister"
    /\ handlers' = handlers \cup {"scan"}
    /\ raced' = (raced \/ loop \in ScanCallbacks)
    /\ pc' = "idle"
    /\ UNCHANGED <<callVars, scanVars, staVars, queue, loop, radioVars, asked,
                   told, dropped>>

-----------------------------------------------------------------------------
(* _processScanResults, in the sketch or in the eloop.                       *)

\* Task t goes on from one step of the function to the next.
Goes(t, from, to) ==
    /\ step[t] = from
    /\ step' = [step EXCEPT ![t] = to]
    /\ UNCHANGED <<callVars, expired, staVars, handlers, queue, radioVars,
                   histVars>>
    /\ from # "finish" => UNCHANGED <<pc, loop, running, complete>>

\* memset of _scanResults: a list it still held is not freed.  n results are
\* fetched, 0 if that fails.
ProcessClear(t, n) ==
    /\ Goes(t, "clear", IF n = 0 THEN "finish" ELSE "count")
    /\ apNum' = 0 /\ list' = NoList
    /\ found' = [found EXCEPT ![t] = n]
    /\ UNCHANGED <<heap, filled, oom>>

ProcessCount(t) ==
    /\ Goes(t, "count", "alloc")
    /\ apNum' = found[t]
    /\ UNCHANGED <<list, heap, filled, found, oom>>

ProcessAlloc(t) ==
    /\ Goes(t, "alloc", "fill")
    /\ \E b \in 1..Cardinality(DOMAIN heap) + 1 :
          /\ b \notin DOMAIN heap
          /\ list' = b
          /\ heap' = [c \in DOMAIN heap \cup {b} |->
                         IF c = b THEN found[t] ELSE heap[c]]
    /\ UNCHANGED <<apNum, filled, found, oom>>

\* Without memory ap_num is left at the count.
ProcessNoMemory(t) ==
    /\ Goes(t, "alloc", "finish")
    /\ list' = NoList
    /\ oom' = TRUE
    /\ UNCHANGED <<apNum, heap, filled, found>>

\* Sorted by signal strength, one entry per access point.
ProcessFill(t) ==
    /\ Goes(t, "fill", "finish")
    /\ filled' = filled \cup {list}
    /\ UNCHANGED <<apNum, list, heap, found, oom>>

ProcessFinish(t) ==
    /\ Goes(t, "finish", "none")
    /\ complete' = TRUE /\ running' = FALSE
    /\ found' = [found EXCEPT ![t] = 0]
    /\ IF t = "sketch" THEN pc' = "idle" /\ UNCHANGED loop
                       ELSE loop' = "scanEnd" /\ UNCHANGED pc
    /\ UNCHANGED <<results, oom>>

Process(t) ==
    \/ \E n \in 0..MaxAps : ProcessClear(t, n)
    \/ ProcessCount(t) \/ ProcessAlloc(t) \/ ProcessNoMemory(t)
    \/ ProcessFill(t) \/ ProcessFinish(t)

-----------------------------------------------------------------------------
(* begin(), disconnect(), STA.end()                                          *)

\* STA.begin() called by the sketch or by config(), once the radio is open.
StaBegin ==
    /\ Idle /\ (Patient => status # "ONGOING")
    /\ ready' = TRUE
    /\ status' = "IDLE"
    /\ UNCHANGED <<pc, callVars, scanVars, eloopVars, radioVars, histVars>>

JoinPossible == Idle /\ (Patient => status # "ONGOING") /\ joins < MaxJoins

\* The radio does not open, or station mode does not start.
JoinNoStation ==
    /\ JoinPossible /\ ~ready
    /\ joins' = joins + 1
    /\ status' = "FAILED"
    /\ UNCHANGED <<pc, blocked, scans, scanVars, ready, eloopVars, radioVars,
                   histVars>>

JoinCall(mode) ==
    /\ JoinPossible
    /\ joins' = joins + 1
    /\ ready' = TRUE
    /\ status' = "IDLE"
    /\ blocked' = mode
    /\ pc' = "joinStart"
    /\ UNCHANGED <<scans, scanVars, eloopVars, radioVars, histVars>>

\* Refused, or a blocking attempt fails, which may end the present link.
JoinRefused ==
    /\ pc = "joinStart"
    /\ status' = "FAILED"
    /\ link' \in {link} \cup (IF link = "up" THEN {"down"} ELSE {})
    /\ pc' = "idle"
    /\ UNCHANGED <<callVars, scanVars, ready, eloopVars, scan, histVars>>

JoinStart ==
    /\ pc = "joinStart" /\ link # "joining"
    /\ asked' = [asked EXCEPT !.join = @ + 1]
    /\ IF blocked
       THEN /\ link' = "up"
            /\ status' = "CONNECTED"
            /\ Post("join")
            /\ pc' = "idle"
       ELSE /\ link' = "joining"
            /\ pc' = "joinRegister"
            /\ UNCHANGED <<status, told>>
    /\ dropped' = FALSE
    /\ UNCHANGED <<callVars, scanVars, ready, eloopVars, scan, raced>>

JoinRegister ==
    /\ pc = "joinRegister"
    /\ handlers' = handlers \cup {"join"}
    /\ raced' = (raced \/ loop \in JoinCallbacks)
    /\ pc' = "joinStatus"
    /\ UNCHANGED <<callVars, scanVars, staVars, queue, loop, radioVars, asked,
                   told, dropped>>

JoinOngoing ==
    /\ pc = "joinStatus"
    /\ status' = "ONGOING"
    /\ pc' = "idle"
    /\ UNCHANGED <<callVars, scanVars, ready, eloopVars, radioVars, histVars>>

\* disconnect(); an attempt under way is given up without a result.
Disconnect ==
    /\ Idle /\ (Patient => status # "ONGOING")
    /\ ready
    /\ \/ status' = "DISCONNECTED" /\ link' = "down"
       \/ status' = "FAILED" /\ UNCHANGED link
    /\ UNCHANGED <<pc, callVars, scanVars, ready, eloopVars, scan, histVars>>

\* STA.end(wifi_off); the callbacks stay registered.
End(wifiOff) ==
    /\ Idle /\ (Patient => status # "ONGOING" /\ Answer # Running)
    /\ ready
    /\ IF wifiOff /\ status # "STOPPED"
       THEN link' = "down" /\ scan' = "idle"
       ELSE UNCHANGED radioVars
    /\ ready' = FALSE
    /\ status' = "STOPPED"
    /\ UNCHANGED <<pc, callVars, scanVars, eloopVars, histVars>>

-----------------------------------------------------------------------------
(* The eloop task and the callbacks.                                         *)

Kind(event) == IF event \in {"scanDone", "scanFail"} THEN "scan" ELSE "join"

\* External: an event without a registered callback is dropped.
Dispatch ==
    /\ loop = "idle" /\ queue # <<>>
    /\ queue' = Tail(queue)
    /\ IF Kind(Head(queue)) \in handlers
       THEN /\ loop' = Head(queue)
            /\ step' = IF Head(queue) = "scanDone"
                       THEN [step EXCEPT !["eloop"] = "clear"] ELSE step
       ELSE UNCHANGED <<loop, step>>
    /\ UNCHANGED <<pc, callVars, flags, results, found, oom, staVars, handlers,
                   radioVars, histVars>>

AfterScan == handlers \ {"scan"}

\* The end of scan_done_cb, or scan_fail_cb: unregister, tell the listeners.
\* scan_fail_cb leaves _scanRunning as it is.
ScanEnd ==
    /\ loop \in {"scanEnd", "scanFail"}
    /\ handlers' = AfterScan
    /\ Post("scan")
    /\ loop' = "idle"
    /\ UNCHANGED <<pc, callVars, scanVars, staVars, queue, radioVars, asked,
                   raced, dropped>>

FailKeepsStatus == IF loop = "joined" THEN "CONNECTED" ELSE status   \* mutant

JoinStatus == IF loop = "joined" THEN "CONNECTED" ELSE "FAILED"
JoinPost == Post("join")

\* cb_connect_success, cb_connect_fail up to _processConnectResults
JoinResult ==
    /\ loop \in {"joined", "joinFailed"}
    /\ status' = JoinStatus
    /\ JoinPost
    /\ loop' = "joinEnd"
    /\ UNCHANGED <<pc, callVars, scanVars, ready, handlers, queue, radioVars,
                   asked, raced, dropped>>

JoinEnd ==
    /\ loop = "joinEnd"
    /\ handlers' = handlers \ {"join"}
    /\ loop' = "idle"
    /\ UNCHANGED <<pc, callVars, scanVars, staVars, queue, radioVars, histVars>>

-----------------------------------------------------------------------------
(* The radio, external.                                                      *)

ScanOutcome ==
    /\ scan = "busy"
    /\ scan' = "idle"
    /\ \E event \in {"scanDone", "scanFail"} : queue' = Append(queue, event)
    /\ raced' = (raced \/ pc = "scanRegister")
    /\ UNCHANGED <<pc, callVars, scanVars, staVars, handlers, loop, link, asked,
                   told, dropped>>

JoinOutcome ==
    /\ link = "joining"
    /\ \/ link' = "up" /\ queue' = Append(queue, "joined")
       \/ link' = "down" /\ queue' = Append(queue, "joinFailed")
    /\ raced' = (raced \/ pc \in {"joinRegister", "joinStatus"})
    /\ UNCHANGED <<pc, callVars, scanVars, staVars, handlers, loop, scan, asked,
                   told, dropped>>

\* The access point goes away; nothing in the sources listens for that.
LinkLost ==
    /\ link = "up"
    /\ link' = "down"
    /\ dropped' = TRUE
    /\ UNCHANGED <<pc, callVars, scanVars, staVars, eloopVars, scan, asked,
                   told, raced>>

\* An event of this kind waits for the eloop, or its callback is running.
Waiting(kind, callbacks) ==
    loop \in callbacks \/ \E i \in 1..Len(queue) : Kind(queue[i]) = kind

ScanUnderWay == scan = "busy" \/ Waiting("scan", ScanCallbacks)
JoinUnderWay == link = "joining" \/ Waiting("join", JoinCallbacks)

\* _scanTimeout passes; a scan that has a result delivers it in time.
Expire ==
    /\ Idle /\ Answer = Running
    /\ ~ScanUnderWay
    /\ expired' = TRUE
    /\ UNCHANGED <<pc, callVars, running, complete, results, processing,
                   staVars, eloopVars, radioVars, histVars>>

-----------------------------------------------------------------------------
CallStep ==
    \/ ScanFlags \/ ScanRefused \/ ScanStart \/ ScanRegister
    \/ Process("sketch")
    \/ JoinRefused \/ JoinStart \/ JoinRegister \/ JoinOngoing

EloopStep ==
    \/ Dispatch \/ Process("eloop") \/ ScanEnd \/ JoinResult \/ JoinEnd

Next ==
    \/ \E mode \in BOOLEAN : ScanCall(mode) \/ JoinCall(mode) \/ End(mode)
    \/ ScanDelete \/ StaBegin \/ JoinNoStation \/ Disconnect
    \/ CallStep \/ EloopStep
    \/ ScanOutcome \/ JoinOutcome \/ LinkLost \/ Expire

\* A call goes on, the eloop runs, the radio ends what it began, time passes.
Fairness ==
    /\ WF_vars(CallStep) /\ WF_vars(EloopStep)
    /\ WF_vars(ScanOutcome) /\ WF_vars(JoinOutcome) /\ WF_vars(Expire)

Spec == Init /\ [][Next]_vars /\ Fairness

-----------------------------------------------------------------------------
(* Properties.                                                               *)

\* Every variable keeps its type; the list is no block or one in use.
TypeOK ==
    /\ apNum \in 0..MaxAps /\ list \in {NoList} \cup DOMAIN heap
    /\ filled \subseteq DOMAIN heap
    /\ handlers \subseteq {"scan", "join"}
    /\ status \in {"STOPPED", "IDLE", "ONGOING", "CONNECTED", "FAILED",
                   "DISCONNECTED"}
    /\ Len(queue) <= 2

\* Once scanComplete() gives a count, SSID(i) and the other accessors find
\* the entries below it written, whichever task processed the results.
ListFilled ==
    Answer > 0 /\ ~oom
        => list \in filled /\ heap[list] >= apNum

\* No list of an earlier scan is forgotten when the next one is processed.
NoLeak == DOMAIN heap \subseteq {list}

\* scanComplete() does not answer RUNNING for ever, even after a scan that
\* was refused, failed, or whose result was missed.
ScanSettles == Answer = Running ~> Answer # Running

\* status() leaves ONGOING, unless the result met the registration.
JoinSettles == status = "ONGOING" ~> status # "ONGOING" \/ raced

\* Callbacks stay registered exactly while the operation they were
\* registered for is under way: none is missed, none left for a later one.
HandlersMatch ==
    ~raced =>
        /\ pc # "scanRegister" => ("scan" \in handlers <=> ScanUnderWay)
        /\ pc # "joinRegister" => ("join" \in handlers <=> JoinUnderWay)

\* Requests of a kind whose result the listeners have still to be told.
Untold(kind, busy, callbacks) ==
    Cardinality({i \in 1..Len(queue) : Kind(queue[i]) = kind})
    + (IF busy THEN 1 ELSE 0) + (IF loop \in callbacks THEN 1 ELSE 0)

\* Each accepted request is announced to the listeners once.
OneEventEach ==
    ~raced =>
        /\ asked.scan - told.scan =
               Untold("scan", scan = "busy", ScanCallbacks)
        /\ asked.join - told.join =
               Untold("join", link = "joining", {"joined", "joinFailed"})

\* "WL_CONNECTED: Connected to AP" (WiFiSTAConnect.ino:19): status() reports
\* a connection only while there is one.
ConnectedMeansLink == status = "CONNECTED" => link = "up"

\* status() agrees with the link, whatever order calls and results came in,
\* until the link is lost.
StatusHonest ==
    ~raced =>
        /\ ConnectedMeansLink \/ dropped
        /\ status = "DISCONNECTED" => link = "down"
        /\ status = "ONGOING" => JoinUnderWay

\* What the sketch can ask for at any time is right: the list behind a count, the
\* callbacks, the events and the status (WiFiScan.cpp:58-299, WiFiSTA.cpp:46-191).
StationTrue ==
    TypeOK /\ ListFilled /\ NoLeak /\ HandlersMatch /\ OneEventEach /\ StatusHonest
=============================================================================

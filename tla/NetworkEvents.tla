---------------------------- MODULE NetworkEvents ---------------------------
(* The event service of the network library (NetworkEvents.cpp, started by   *)
(* NetworkManager::begin): any task posts events into a bounded queue, and   *)
(* arduino_event_task takes them out and calls the registered callbacks.     *)
(*                                                                           *)
(* An event object is heap memory made by postEvent and freed by the event   *)
(* task, or by postEvent itself when the queue is full.  The callback list   *)
(* is a std::vector that the event task walks with iterators taken at the    *)
(* start of the walk while the sketch may change it.                         *)
EXTENDS Naturals, Sequences, FiniteSets, SequencesExt

CONSTANTS
    Tasks,          \* the tasks that post events
    EventIds,       \* the event ids in use
    AnyEvent,       \* ARDUINO_WIFI_MGMT_EVENT_MAX: listen to every event
    Callbacks,      \* the callback functions of the sketch
    FuncCallbacks,  \* those registered as std::function
    QueueDepth,     \* 16 in initNetworkEvents
    ListChanges,    \* assumption: "quiet" or "anytime", see ChangeList
    MaxPosts,       \* bound: postEvent() calls
    MaxListeners    \* bound: onEvent() calls

ASSUME EventAssumption ==
    /\ QueueDepth \in Nat \ {0} /\ IsFiniteSet(Tasks)
    /\ FuncCallbacks \subseteq Callbacks
    /\ AnyEvent \notin EventIds
    /\ ListChanges \in {"quiet", "anytime"}
    /\ MaxPosts \in Nat /\ MaxListeners \in Nat

VARIABLES
    initialized,    \* NetworkManager::begin's static flag
    groupUp, queueUp, taskUp,   \* what initNetworkEvents has created
    queue,          \* _arduino_event_queue: event objects, oldest first
    heap,           \* the event objects that are allocated
    holding,        \* what a task inside postEvent has allocated
    list,           \* _cbEventList
    capacity,       \* the vector's capacity; it only grows, so it also says
                    \* which allocation holds the elements
    lastId,         \* _current_id
    walking,        \* the event the event task is handling, or None
    walk,           \* its iterators: position, end, and the capacity when taken
    accepted,       \* history: the objects postEvent queued, in order
    calls,          \* history: <<event number, callback id>> in call order
    posts           \* history: postEvent() calls

initVars == <<initialized, groupUp, queueUp, taskUp>>
listVars == <<list, capacity, lastId>>
postVars == <<holding, posts>>
vars == <<initVars, queue, heap, postVars, listVars, walking, walk, accepted,
          calls>>

None == [n |-> 0, id |-> AnyEvent]

NoWalk == [pos |-> 0, end |-> 0, capacity |-> 0]

Init ==
    /\ initialized = FALSE
    /\ groupUp = FALSE /\ queueUp = FALSE /\ taskUp = FALSE
    /\ queue = <<>> /\ heap = {}
    /\ holding = [t \in Tasks |-> None] /\ posts = 0
    /\ list = <<>> /\ capacity = 0 /\ lastId = 0
    /\ walking = None /\ walk = NoWalk
    /\ accepted = <<>> /\ calls = <<>>

-----------------------------------------------------------------------------
(* begin(): the flag is set first; each of the three objects may fail to be  *)
(* created, and the later ones are then not tried.                           *)

InitNetworkEvents(group, q, task) ==
    /\ groupUp' = (groupUp \/ group)
    /\ queueUp' = (queueUp \/ (groupUp' /\ q))
    /\ taskUp' = (taskUp \/ (queueUp' /\ task))

Begin ==
    /\ ~initialized
    /\ initialized' = TRUE
    /\ \E group, q, task \in BOOLEAN : InitNetworkEvents(group, q, task)
    /\ UNCHANGED <<queue, heap, postVars, listVars, walking, walk, accepted,
                   calls>>

-----------------------------------------------------------------------------
(* postEvent: allocate and copy, then a queue write that does not wait.      *)

PostAlloc(t, id) ==
    /\ holding[t] = None
    /\ queueUp
    /\ posts < MaxPosts
    /\ posts' = posts + 1
    /\ LET event == [n |-> posts + 1, id |-> id]
       IN  /\ heap' = heap \cup {event}
           /\ holding' = [holding EXCEPT ![t] = event]
    /\ UNCHANGED <<initVars, queue, listVars, walking, walk, accepted, calls>>

PostWrite(t) ==
    /\ holding[t] # None
    /\ IF Len(queue) < QueueDepth
       THEN /\ queue' = Append(queue, holding[t])
            /\ accepted' = Append(accepted, holding[t])
            /\ UNCHANGED heap
       ELSE /\ heap' = heap \ {holding[t]}
            /\ UNCHANGED <<queue, accepted>>
    /\ holding' = [holding EXCEPT ![t] = None]
    /\ UNCHANGED <<initVars, posts, listVars, walking, walk, calls>>

-----------------------------------------------------------------------------
(* onEvent and removeEvent, called by the sketch.                            *)

\* "quiet": the sketch changes the list only while no event is being handled.
ChangeList == ListChanges = "anytime" \/ walking = None

\* A push onto a full vector moves it to a new allocation twice as large.
Grown == IF Len(list) < capacity THEN capacity
         ELSE IF capacity = 0 THEN 1 ELSE 2 * capacity

OnEvent(cb, id) ==
    /\ ChangeList
    /\ lastId < MaxListeners
    /\ lastId' = lastId + 1
    /\ list' = Append(list, [id |-> lastId + 1, cb |-> cb, event |-> id])
    /\ capacity' = Grown
    /\ UNCHANGED <<initVars, queue, heap, postVars, walking, walk, accepted,
                   calls>>

\* std::remove_if keeps the other entries in their order.
Erase(doomed) ==
    /\ ChangeList
    /\ doomed # {}
    /\ LET stay == {i \in 1..Len(list) : list[i] \notin doomed}
       IN  \E from \in [1..Cardinality(stay) -> stay] :
              /\ \A i, j \in DOMAIN from : i < j => from[i] < from[j]
              /\ list' = [i \in DOMAIN from |-> list[from[i]]]
    /\ UNCHANGED <<initVars, queue, heap, postVars, capacity, lastId, walking,
                   walk, accepted, calls>>

RemoveById(id) == Erase({l \in ToSet(list) : l.id = id})

\* By function and event id; a std::function cannot be named this way.
RemoveByCallback(cb, id) ==
    /\ cb \notin FuncCallbacks
    /\ Erase({l \in ToSet(list) : l.cb = cb /\ l.event = id})

-----------------------------------------------------------------------------
(* _checkForEvent, the event task.                                           *)

TakeNewest ==                       \* mutant
    /\ taskUp
    /\ walking = None
    /\ queue # <<>>
    /\ walking' = Last(queue)
    /\ queue' = Front(queue)
    /\ walk' = [pos |-> 1, end |-> Len(list), capacity |-> capacity]
    /\ UNCHANGED <<initVars, heap, postVars, listVars, accepted, calls>>

TakeEvent ==
    /\ taskUp
    /\ walking = None
    /\ queue # <<>>
    /\ walking' = Head(queue)
    /\ queue' = Tail(queue)
    /\ walk' = [pos |-> 1, end |-> Len(list), capacity |-> capacity]
    /\ UNCHANGED <<initVars, heap, postVars, listVars, accepted, calls>>

ListensExactly(l, event) == l.event = event.id      \* mutant

Listens(l, event) == l.event = event.id \/ l.event = AnyEvent

\* The iterators are good while the vector still holds every element between
\* them, in the allocation they point into.
WalkValid == walk.capacity = capacity /\ walk.end <= Len(list)

CallNextStays ==                    \* mutant: no step over an entry that differs
    /\ walking # None
    /\ walk.pos <= walk.end
    /\ WalkValid
    /\ Listens(list[walk.pos], walking)
    /\ walk' = [walk EXCEPT !.pos = @ + 1]
    /\ calls' = Append(calls, <<walking.n, list[walk.pos].id>>)
    /\ UNCHANGED <<initVars, queue, heap, postVars, listVars, walking, accepted>>

\* The next entry of the list: its callback is called if it matches.
CallNext ==
    /\ walking # None
    /\ walk.pos <= walk.end
    /\ WalkValid
    /\ walk' = [walk EXCEPT !.pos = @ + 1]
    /\ calls' = IF Listens(list[walk.pos], walking)
                THEN Append(calls, <<walking.n, list[walk.pos].id>>)
                ELSE calls
    /\ UNCHANGED <<initVars, queue, heap, postVars, listVars, walking, accepted>>

FreeEvent ==
    /\ walking # None
    /\ walk.pos > walk.end
    /\ heap' = heap \ {walking}
    /\ walking' = None
    /\ walk' = NoWalk
    /\ UNCHANGED <<initVars, queue, postVars, listVars, accepted, calls>>

EventTask == TakeEvent \/ CallNext \/ FreeEvent

-----------------------------------------------------------------------------
Next ==
    \/ Begin
    \/ \E t \in Tasks, id \in EventIds : PostAlloc(t, id)
    \/ \E t \in Tasks : PostWrite(t)
    \/ \E cb \in Callbacks, id \in EventIds \cup {AnyEvent} :
          OnEvent(cb, id) \/ RemoveByCallback(cb, id)
    \/ \E id \in 1..MaxListeners : RemoveById(id)
    \/ EventTask

\* A task inside postEvent runs on, and the event task runs when it can.
Fairness ==
    /\ \A t \in Tasks : WF_vars(PostWrite(t))
    /\ WF_vars(EventTask)

Spec == Init /\ [][Next]_vars /\ Fairness

-----------------------------------------------------------------------------
(* Properties.                                                               *)

Events == [n : 1..MaxPosts, id : EventIds]

\* Types, and never more events queued than the queue holds.
TypeOK ==
    /\ {initialized, groupUp, queueUp, taskUp} \subseteq BOOLEAN
    /\ queue \in Seq(Events) /\ Len(queue) <= QueueDepth
    /\ heap \subseteq Events
    /\ holding \in [Tasks -> Events \cup {None}]
    /\ \A i \in 1..Len(list) : list[i] \in
          [id : 1..MaxListeners, cb : Callbacks, event : EventIds \cup {AnyEvent}]
    /\ walking \in Events \cup {None}
    /\ lastId \in 0..MaxListeners /\ posts \in 0..MaxPosts

\* Every event object has one owner, and an allocated object has one: nothing
\* leaks, nothing is used after it was freed, nothing is freed twice.
HeapOwned ==
    LET held == {holding[t] : t \in Tasks} \cup ToSet(queue) \cup {walking}
        owners == Len(queue) + Cardinality({t \in Tasks : holding[t] # None})
                  + (IF walking = None THEN 0 ELSE 1)
    IN  heap = held \ {None} /\ Cardinality(heap) = owners

\* Callbacks see the events in the order postEvent queued them, and no
\* callback sees the same event twice.
CallsInOrder ==
    LET place(n) == CHOOSE i \in 1..Len(accepted) : accepted[i].n = n
    IN  \A i, j \in 1..Len(calls) : i < j =>
           \/ place(calls[i][1]) < place(calls[j][1])
           \/ calls[i][1] = calls[j][1] /\ calls[i][2] < calls[j][2]

\* When the event task is done with an event, every listener of that event
\* has been called.
AllListenersCalled ==
    [][walking # None /\ walking' # walking =>
         \A i \in 1..Len(list) :
            list[i].event \in {walking.id, AnyEvent} =>
               \E j \in 1..Len(calls) : calls[j] = <<walking.n, list[i].id>>]_vars

\* An event that was queued is handled, if the event task could be created.
QueuedIsHandled ==
    \A n \in 1..MaxPosts :
        (taskUp /\ \E i \in 1..Len(queue) : queue[i].n = n)
            ~> (\A e \in heap : e.n # n)

\* "Iterate through all registered callback functions" (NetworkEvents.cpp:221):
\* the walk stays on entries of the callback list.
WalkStaysInList == walking # None /\ walk.pos <= walk.end => WalkValid

\* Events reach the listeners in order, and every event object is freed once,
\* when they have all heard of it (NetworkEvents.cpp:182-244).
EventsAccounted == TypeOK /\ HeapOwned /\ CallsInOrder
=============================================================================

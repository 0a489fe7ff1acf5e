------------------------- MODULE NetworkEventsProofs ------------------------
(* Theorems about NetworkEvents for every number of tasks, events, callbacks  *)
(* and posts and every queue depth, while the sketch changes the callback     *)
(* list only between two events.                                              *)
EXTENDS NetworkEvents, SequenceTheorems, FiniteSetTheorems, TLAPS

-----------------------------------------------------------------------------
(* The inductive invariant.                                                  *)

Entries == [id : 1..MaxListeners, cb : Callbacks, event : EventIds \cup {AnyEvent}]
Walks   == [pos : Nat, end : Nat, capacity : Nat]
Places  == 1..Len(accepted)
Holders == {t \in Tasks : holding[t] # None}

\* How many of the accepted events the event task has taken so far.
Done == Len(accepted) - Len(queue)

EventsType ==
    /\ TypeOK /\ list \in Seq(Entries) /\ capacity \in Nat /\ walk \in Walks
    /\ accepted \in Seq(Events) /\ calls \in Seq(Nat \X Nat)

\* The queue is what is left of the accepted events, in their order, and the
\* event being handled is the one taken last.
QueueInv ==
    /\ Len(queue) <= Len(accepted)
    /\ \A i \in 1..Len(queue) : queue[i] = accepted[Done + i]
    /\ walking # None => Done >= 1 /\ walking = accepted[Done]

\* No two events have the same number, wherever they are.
NumberInv ==
    /\ \A i, j \in Places : accepted[i].n = accepted[j].n => i = j
    /\ \A i \in Places : accepted[i].n <= posts
    /\ \A t \in Holders : /\ holding[t].n <= posts
                          /\ \A i \in Places : accepted[i].n # holding[t].n
    /\ \A t, u \in Holders : holding[t].n = holding[u].n => t = u

HeapInv ==
    heap = {holding[t] : t \in Holders} \cup {queue[i] : i \in 1..Len(queue)}
           \cup ({walking} \ {None})

CountInv ==
    /\ IsFiniteSet(heap)
    /\ Cardinality(heap) = Len(queue) + Cardinality(Holders) + (IF walking = None THEN 0 ELSE 1)

\* Calls were made for events taken from the queue, in order.
CallInv ==
    /\ \A j \in 1..Len(calls) : \E i \in 1..Done : accepted[i].n = calls[j][1]
    /\ \A j, k \in 1..Len(calls) : j < k =>
          \A a, b \in Places :
             accepted[a].n = calls[j][1] /\ accepted[b].n = calls[k][1] =>
                a < b \/ (a = b /\ calls[j][2] < calls[k][2])

\* Ids grow along the list.
ListInv ==
    /\ \A j, k \in 1..Len(list) : j < k => list[j].id < list[k].id
    /\ \A k \in 1..Len(list) : list[k].id <= lastId

\* The walk is over the list as it is, and the calls for the event at hand are
\* those of the listeners it has passed.
WalkInv ==
    walking # None =>
        /\ walk.end = Len(list) /\ walk.pos \in 1..Len(list) + 1
        /\ \A j \in 1..Len(calls) : calls[j][1] = walking.n =>
              \E k \in 1..walk.pos - 1 : calls[j][2] = list[k].id
        /\ \A k \in 1..walk.pos - 1 : Listens(list[k], walking) =>
              \E j \in 1..Len(calls) : calls[j] = <<walking.n, list[k].id>>

ServiceInv ==
    /\ EventsType /\ QueueInv /\ NumberInv /\ HeapInv /\ CountInv /\ CallInv
    /\ ListInv /\ WalkInv

Quiet == ListChanges = "quiet"

-----------------------------------------------------------------------------
(* Sequences, and numbers.                                                   *)

LEMMA EventAppended ==
    ASSUME NEW s \in Seq(Events), NEW e \in Events
    PROVE  /\ Append(s, e) \in Seq(Events) /\ Len(Append(s, e)) = Len(s) + 1
           /\ Append(s, e)[Len(s) + 1] = e
           /\ \A i \in 1..Len(s) : Append(s, e)[i] = s[i]
  BY AppendProperties

LEMMA CallAppended ==
    ASSUME NEW s \in Seq(Nat \X Nat), NEW c \in Nat \X Nat
    PROVE  /\ Append(s, c) \in Seq(Nat \X Nat) /\ Len(Append(s, c)) = Len(s) + 1
           /\ Append(s, c)[Len(s) + 1] = c
           /\ \A i \in 1..Len(s) : Append(s, c)[i] = s[i]
  BY AppendProperties

LEMMA EntryAppended ==
    ASSUME NEW s \in Seq(Entries), NEW e \in Entries
    PROVE  /\ Append(s, e) \in Seq(Entries) /\ Len(Append(s, e)) = Len(s) + 1
           /\ Append(s, e)[Len(s) + 1] = e
           /\ \A i \in 1..Len(s) : Append(s, e)[i] = s[i]
  BY AppendProperties

LEMMA NotNone == \A e \in Events : e # None /\ e.n \in Nat /\ e.n >= 1
  BY EventAssumption DEF Events, None

\* The facts about types that the proofs below use.
LEMMA Typed ==
    ASSUME EventsType
    PROVE  /\ queue \in Seq(Events) /\ Len(queue) \in Nat /\ Len(queue) <= QueueDepth
           /\ accepted \in Seq(Events) /\ Len(accepted) \in Nat
           /\ \A i \in 1..Len(queue) : queue[i] \in Events
           /\ \A i \in Places : accepted[i] \in Events
           /\ calls \in Seq(Nat \X Nat) /\ Len(calls) \in Nat
           /\ list \in Seq(Entries) /\ Len(list) \in Nat
           /\ \A i \in 1..Len(list) : list[i] \in Entries
           /\ \A t \in Holders : holding[t] \in Events
           /\ holding \in [Tasks -> Events \cup {None}]
           /\ walking \in Events \cup {None} /\ heap \subseteq Events
           /\ posts \in Nat /\ lastId \in Nat /\ capacity \in Nat /\ walk \in Walks
           /\ Done \in Int
  BY EventAssumption DEF EventsType, TypeOK, Holders, Places, Done

-----------------------------------------------------------------------------
(* Posting.                                                                  *)

LEMMA PostAllocKeeps ==
    ASSUME ServiceInv, NEW t \in Tasks, NEW id \in EventIds, PostAlloc(t, id)
    PROVE  ServiceInv'
  <1> DEFINE event == [n |-> posts + 1, id |-> id]
  <1>2. /\ EventsType /\ QueueInv /\ NumberInv /\ HeapInv /\ CountInv /\ CallInv /\ ListInv /\ WalkInv
    BY DEF ServiceInv
  <1>3. /\ posts' = posts + 1 /\ posts < MaxPosts /\ holding[t] = None
        /\ heap' = heap \cup {event} /\ holding' = [holding EXCEPT ![t] = event]
        /\ UNCHANGED <<initVars, queue, listVars, walking, walk, accepted, calls>>
    BY DEF PostAlloc
  <1>4. event \in Events /\ event.n = posts + 1 /\ posts + 1 \in 0..MaxPosts
    BY <1>2, <1>3, Typed, EventAssumption DEF Events
  <1> HIDE DEF event
  <1>5. event # None  BY <1>4, NotNone
  <1>6. Holders' = Holders \cup {t} /\ t \notin Holders
        /\ \A u \in Tasks : holding'[u] = IF u = t THEN event ELSE holding[u]
    BY <1>2, <1>3, <1>5, Typed DEF Holders
  <1>7. EventsType'
    BY <1>2, <1>3, <1>4, Typed DEF EventsType, TypeOK, initVars, listVars
  <1>8. QueueInv'  BY <1>2, <1>3 DEF QueueInv, Done
  <1>9. NumberInv'
    <2>1. \A i \in Places : accepted[i].n <= posts /\ accepted[i].n \in Nat
      BY <1>2, Typed, NotNone DEF NumberInv
    <2>2. \A u \in Holders : holding[u].n <= posts /\ holding[u].n \in Nat /\ u # t /\ u \in Tasks
      BY <1>2, <1>6, Typed, NotNone DEF NumberInv, Holders
    <2>3. Places' = Places /\ accepted' = accepted /\ posts \in Nat
      BY <1>2, <1>3, Typed DEF Places
    <2>4. \A i, j \in Places : accepted[i].n = accepted[j].n => i = j  BY <1>2 DEF NumberInv
    <2>5. \A i \in Places : accepted[i].n <= posts'  BY <1>3, <2>1, <2>3
    <2>6. \A u \in Holders' : holding'[u].n <= posts' /\ \A i \in Places : accepted[i].n # holding'[u].n
      <3>1. SUFFICES ASSUME NEW u \in Holders'
                     PROVE  holding'[u].n <= posts' /\ \A i \in Places : accepted[i].n # holding'[u].n
        OBVIOUS
      <3>2. CASE u = t  BY <1>3, <1>4, <1>6, <2>1, <2>3, <3>2
      <3>3. CASE u # t
        <4>1. u \in Holders /\ holding'[u] = holding[u]  BY <1>6, <3>1, <3>3, <2>2
        <4> QED  BY <1>2, <1>3, <2>2, <2>3, <4>1 DEF NumberInv
      <3> QED  BY <3>2, <3>3
    <2>7. \A u, v \in Holders' : holding'[u].n = holding'[v].n => u = v
      <3>1. \A u \in Holders : holding'[u] = holding[u]  BY <1>6, <2>2
      <3>2. holding'[t] = event  BY <1>6
      <3>3. \A u \in Holders : holding'[u].n # holding'[t].n  BY <1>4, <2>2, <2>3, <3>1, <3>2
      <3> QED  BY <1>2, <1>6, <3>1, <3>3 DEF NumberInv
    <2> QED  BY <2>3, <2>4, <2>5, <2>6, <2>7 DEF NumberInv
  <1>10. HeapInv'
    <2>1. {holding'[u] : u \in Holders'} = {holding[u] : u \in Holders} \cup {event}
      BY <1>6 DEF Holders
    <2> QED  BY <1>2, <1>3, <2>1 DEF HeapInv
  <1>11. CountInv'
    <2>1. event \notin heap
      <3>1. \A e \in heap : e.n <= posts
        <4>1. SUFFICES ASSUME NEW e \in heap PROVE e.n <= posts  OBVIOUS
        <4>2. CASE \E u \in Holders : e = holding[u]  BY <1>2, <4>2 DEF NumberInv
        <4>3. CASE \E i \in 1..Len(queue) : e = queue[i]
          <5>1. PICK i \in 1..Len(queue) : e = queue[i]  BY <4>3
          <5>2. Done + i \in Places /\ e = accepted[Done + i]
            BY <1>2, <5>1, Typed DEF QueueInv, Done, Places
          <5> QED  BY <1>2, <5>2 DEF NumberInv
        <4>4. CASE walking # None /\ e = walking
          <5>1. Done \in Places /\ e = accepted[Done]
            BY <1>2, <4>4, Typed DEF QueueInv, Done, Places
          <5> QED  BY <1>2, <5>1 DEF NumberInv
        <4> QED  BY <1>2, <4>1, <4>2, <4>3, <4>4 DEF HeapInv
      <3>2. posts \in Nat  BY <1>2, Typed
      <3> QED  BY <1>4, <3>1, <3>2
    <2>2. IsFiniteSet(heap') /\ Cardinality(heap') = Cardinality(heap) + 1
      BY <1>2, <1>3, <2>1, FS_AddElement DEF CountInv
    <2>3. IsFiniteSet(Holders)  BY EventAssumption, FS_Subset DEF Holders
    <2>4. Cardinality(Holders') = Cardinality(Holders) + 1  BY <1>6, <2>3, FS_AddElement
    <2>5. Cardinality(Holders) \in Nat /\ Len(queue) \in Nat  BY <1>2, <2>3, FS_CardinalityType, Typed
    <2> QED  BY <1>2, <1>3, <2>2, <2>4, <2>5 DEF CountInv
  <1>12. CallInv'
    <2>1. Places' = Places /\ Done' = Done /\ accepted' = accepted /\ calls' = calls
      BY <1>3 DEF Places, Done
    <2> QED  BY <1>2, <2>1 DEF CallInv
  <1>13. ListInv' /\ WalkInv'  BY <1>2, <1>3 DEF ListInv, WalkInv, listVars, Listens
  <1> QED  BY <1>7, <1>8, <1>9, <1>10, <1>11, <1>12, <1>13 DEF ServiceInv

\* An allocated event is held by one task, queued once, or being handled.
LEMMA OneOwner ==
    ASSUME ServiceInv
    PROVE  /\ \A t, u \in Holders : holding[t] = holding[u] => t = u
           /\ \A t \in Holders, i \in 1..Len(queue) : holding[t] # queue[i]
           /\ \A t \in Holders : holding[t] # walking
           /\ \A i, j \in 1..Len(queue) : queue[i] = queue[j] => i = j
           /\ \A i \in 1..Len(queue) : queue[i] # walking
  <1>1. EventsType /\ QueueInv /\ NumberInv  BY DEF ServiceInv
  <1>2. Len(queue) \in Nat /\ Len(accepted) \in Nat /\ Done \in Nat  BY <1>1, Typed DEF QueueInv, Done
  <1>3. \A i \in 1..Len(queue) : Done + i \in Places /\ queue[i] = accepted[Done + i]
    BY <1>1, <1>2 DEF QueueInv, Done, Places
  <1>4. walking # None => Done \in Places /\ walking = accepted[Done]
    BY <1>1, <1>2 DEF QueueInv, Done, Places
  <1>5. \A t, u \in Holders : holding[t] = holding[u] => t = u  BY <1>1 DEF NumberInv
  <1>6. \A t \in Holders, i \in 1..Len(queue) : holding[t] # queue[i]  BY <1>1, <1>3 DEF NumberInv
  <1>7. \A t \in Holders : holding[t] # walking  BY <1>1, <1>4 DEF NumberInv, Holders
  <1>8. \A i, j \in 1..Len(queue) : queue[i] = queue[j] => i = j
    <2>1. \A i, j \in 1..Len(queue) : queue[i] = queue[j] => Done + i = Done + j  BY <1>1, <1>3 DEF NumberInv
    <2> QED  BY <1>2, <2>1
  <1>9. \A i \in 1..Len(queue) : queue[i] # walking
    <2>1. SUFFICES ASSUME NEW i \in 1..Len(queue), queue[i] = walking PROVE FALSE  OBVIOUS
    <2>2. walking # None  BY <1>1, <2>1, Typed, NotNone
    <2>3. Done + i = Done  BY <1>1, <1>3, <1>4, <2>1, <2>2 DEF NumberInv
    <2> QED  BY <1>2, <2>3
  <1> QED  BY <1>5, <1>6, <1>7, <1>8, <1>9

LEMMA PostWriteKeeps ==
    ASSUME ServiceInv, NEW t \in Tasks, PostWrite(t)
    PROVE  ServiceInv'
  <1> DEFINE event == holding[t]
  <1>1. /\ EventsType /\ QueueInv /\ NumberInv /\ HeapInv /\ CountInv /\ CallInv /\ ListInv /\ WalkInv
    BY DEF ServiceInv
  <1>2. /\ event # None /\ holding' = [holding EXCEPT ![t] = None]
        /\ UNCHANGED <<initVars, posts, listVars, walking, walk, calls>>
    BY DEF PostWrite
  <1>3. event \in Events /\ t \in Holders  BY <1>1, <1>2, Typed DEF Holders
  <1>4. Holders' = Holders \ {t} /\ \A u \in Holders' : holding'[u] = holding[u] /\ u \in Holders
    BY <1>1, <1>2, Typed DEF Holders
  <1>5. IsFiniteSet(Holders)  BY EventAssumption, FS_Subset DEF Holders
  <1>6. Cardinality(Holders') = Cardinality(Holders) - 1 /\ Cardinality(Holders) \in Nat
    BY <1>3, <1>4, <1>5, FS_RemoveElement, FS_CardinalityType
  <1>7. ListInv'  BY <1>1, <1>2 DEF ListInv, listVars
  <1>8. WalkInv'  BY <1>1, <1>2 DEF WalkInv, listVars, Listens
  <1>9. holding' \in [Tasks -> Events \cup {None}]  BY <1>1, <1>2, Typed
  <1>10. CASE Len(queue) < QueueDepth
    <2>1. queue' = Append(queue, event) /\ accepted' = Append(accepted, event) /\ heap' = heap
      BY <1>10 DEF PostWrite
    <2>2. Len(queue) \in Nat /\ Len(accepted) \in Nat /\ Done \in Nat  BY <1>1, Typed DEF QueueInv, Done
    <2>3. /\ queue' \in Seq(Events) /\ Len(queue') = Len(queue) + 1 /\ queue'[Len(queue) + 1] = event
          /\ \A i \in 1..Len(queue) : queue'[i] = queue[i]
      BY <1>1, <1>3, <2>1, Typed, EventAppended
    <2>4. /\ accepted' \in Seq(Events) /\ Len(accepted') = Len(accepted) + 1
          /\ accepted'[Len(accepted) + 1] = event
          /\ \A i \in Places : accepted'[i] = accepted[i]
      BY <1>1, <1>3, <2>1, Typed, EventAppended DEF Places
    <2> HIDE DEF event
    <2>5. Done' = Done /\ Places' = Places \cup {Len(accepted) + 1}
      BY <2>2, <2>3, <2>4 DEF Done, Places
    <2>6. EventsType'
      BY <1>1, <1>2, <1>9, <1>10, <2>1, <2>2, <2>3, <2>4, EventAssumption
      DEF EventsType, TypeOK, initVars, listVars
    <2>7. QueueInv'
      <3>1. Len(queue') <= Len(accepted')  BY <1>1, <2>2, <2>3, <2>4 DEF QueueInv
      <3>2. \A i \in 1..Len(queue') : queue'[i] = accepted'[Done + i]
        <4>1. SUFFICES ASSUME NEW i \in 1..Len(queue') PROVE queue'[i] = accepted'[Done + i]  OBVIOUS
        <4>2. CASE i = Len(queue) + 1
          <5>1. Done + i = Len(accepted) + 1  BY <2>2, <4>2 DEF Done
          <5> QED  BY <2>3, <2>4, <4>2, <5>1
        <4>3. CASE i # Len(queue) + 1
          <5>1. i \in 1..Len(queue) /\ Done + i \in Places  BY <2>2, <2>3, <4>3 DEF Done, Places
          <5> QED  BY <1>1, <2>3, <2>4, <5>1 DEF QueueInv
        <4> QED  BY <4>2, <4>3
      <3>3. walking # None => Done >= 1 /\ walking = accepted'[Done]
        <4>1. walking # None => Done \in Places  BY <1>1, <2>2 DEF QueueInv, Done, Places
        <4> QED  BY <1>1, <2>4, <4>1 DEF QueueInv
      <3> QED  BY <1>2, <2>5, <3>1, <3>2, <3>3 DEF QueueInv
    <2>8. NumberInv'
      <3>1. /\ \A i \in Places : accepted[i].n # event.n /\ accepted'[i].n = accepted[i].n /\ i # Len(accepted) + 1
            /\ event.n <= posts /\ accepted'[Len(accepted) + 1].n = event.n
        BY <1>1, <1>3, <2>2, <2>4 DEF NumberInv, event, Places
      <3>2. \A i, j \in Places' : accepted'[i].n = accepted'[j].n => i = j
        BY <1>1, <2>5, <3>1 DEF NumberInv
      <3>3. \A i \in Places' : accepted'[i].n <= posts  BY <1>1, <2>5, <3>1 DEF NumberInv
      <3>4. \A u \in Holders' : holding[u].n # event.n  BY <1>1, <1>3, <1>4 DEF NumberInv, event
      <3>5. \A u \in Holders' : holding'[u].n <= posts /\ \A i \in Places' : accepted'[i].n # holding'[u].n
        BY <1>1, <1>4, <2>5, <3>1, <3>4 DEF NumberInv
      <3>6. \A u, v \in Holders' : holding'[u].n = holding'[v].n => u = v  BY <1>1, <1>4 DEF NumberInv
      <3> QED  BY <1>2, <3>2, <3>3, <3>5, <3>6 DEF NumberInv
    <2>9. HeapInv'
      <3>1. {holding'[u] : u \in Holders'} \cup {event} = {holding[u] : u \in Holders}
        BY <1>3, <1>4 DEF event
      <3>2. {queue'[i] : i \in 1..Len(queue')} = {queue[i] : i \in 1..Len(queue)} \cup {event}
        <4>1. \A i \in 1..Len(queue') : i \in 1..Len(queue) \/ i = Len(queue) + 1  BY <2>2, <2>3
        <4>2. Len(queue) + 1 \in 1..Len(queue') /\ \A i \in 1..Len(queue) : i \in 1..Len(queue')
          BY <2>2, <2>3
        <4> QED  BY <2>3, <4>1, <4>2
      <3> QED  BY <1>1, <1>2, <2>1, <3>1, <3>2 DEF HeapInv
    <2>10. CountInv'  BY <1>1, <1>2, <1>6, <2>1, <2>2, <2>3 DEF CountInv
    <2>11. CallInv'
      <3>1. \A i \in 1..Done : i \in Places  BY <2>2 DEF Done, Places
      <3>2. \A j \in 1..Len(calls) : \E i \in 1..Done : accepted'[i].n = calls[j][1]
        BY <1>1, <2>4, <3>1 DEF CallInv
      <3>3. \A j \in 1..Len(calls) : \E i \in Places : accepted[i].n = calls[j][1]
        BY <1>1, <3>1 DEF CallInv
      <3>4. \A j \in 1..Len(calls), a \in Places' : accepted'[a].n = calls[j][1] =>
               a \in Places /\ accepted[a].n = calls[j][1]
        BY <1>1, <1>3, <2>4, <2>5, <3>3 DEF NumberInv, event
      <3> QED  BY <1>1, <1>2, <2>5, <3>2, <3>4 DEF CallInv
    <2> QED  BY <1>7, <1>8, <2>6, <2>7, <2>8, <2>9, <2>10, <2>11 DEF ServiceInv
  <1>11. CASE ~(Len(queue) < QueueDepth)
    <2>1. heap' = heap \ {event} /\ UNCHANGED <<queue, accepted>>  BY <1>11 DEF PostWrite
    <2>2. EventsType'
      BY <1>1, <1>2, <1>9, <2>1 DEF EventsType, TypeOK, initVars, listVars
    <2>3. QueueInv'  BY <1>1, <1>2, <2>1 DEF QueueInv, Done
    <2>4. NumberInv'
      <3>1. Places' = Places  BY <2>1 DEF Places
      <3> QED  BY <1>1, <1>2, <1>4, <2>1, <3>1 DEF NumberInv
    <2>5. HeapInv'
      <3>1. event \notin {queue[i] : i \in 1..Len(queue)} /\ event # walking  BY <1>3, OneOwner
      <3>2. {holding'[u] : u \in Holders'} = {holding[u] : u \in Holders} \ {event}
        BY <1>3, <1>4, OneOwner
      <3> QED  BY <1>1, <1>2, <2>1, <3>1, <3>2 DEF HeapInv
    <2>6. event \in heap  BY <1>1, <1>3 DEF HeapInv
    <2>7. IsFiniteSet(heap') /\ Cardinality(heap') = Cardinality(heap) - 1
      BY <1>1, <2>1, <2>6, FS_RemoveElement DEF CountInv
    <2>8. CountInv'
      <3>1. Len(queue) \in Nat  BY <1>1, Typed
      <3> QED  BY <1>1, <1>2, <1>6, <2>1, <2>7, <3>1 DEF CountInv
    <2>9. CallInv'  BY <1>1, <1>2, <2>1 DEF CallInv, Done, Places
    <2> QED  BY <1>7, <1>8, <2>2, <2>3, <2>4, <2>5, <2>8, <2>9 DEF ServiceInv
  <1> QED  BY <1>10, <1>11

-----------------------------------------------------------------------------
(* The callback list.                                                        *)

\* A change of the list alone, while no event is being handled.
LEMMA ListChanged ==
    ASSUME ServiceInv, walking = None, EventsType', ListInv',
           UNCHANGED <<queue, heap, postVars, walking, walk, accepted, calls>>
    PROVE  ServiceInv'
  <1>1. /\ QueueInv /\ NumberInv /\ HeapInv /\ CountInv /\ CallInv
    BY DEF ServiceInv
  <1>2. /\ queue' = queue /\ heap' = heap /\ holding' = holding /\ posts' = posts
        /\ walking' = walking /\ accepted' = accepted /\ calls' = calls
    BY DEF postVars
  <1>3. Places' = Places /\ Done' = Done /\ Holders' = Holders  BY <1>2 DEF Places, Done, Holders
  <1>4. QueueInv'  BY <1>1, <1>2, <1>3 DEF QueueInv
  <1>5. NumberInv'  BY <1>1, <1>2, <1>3 DEF NumberInv
  <1>6. HeapInv'  BY <1>1, <1>2, <1>3 DEF HeapInv
  <1>7. CountInv'  BY <1>1, <1>2, <1>3 DEF CountInv
  <1>8. CallInv'  BY <1>1, <1>2, <1>3 DEF CallInv
  <1>9. WalkInv'  BY <1>2 DEF WalkInv
  <1> QED  BY <1>4, <1>5, <1>6, <1>7, <1>8, <1>9 DEF ServiceInv

LEMMA OnEventKeeps ==
    ASSUME Quiet, ServiceInv, NEW cb \in Callbacks, NEW id \in EventIds \cup {AnyEvent},
           OnEvent(cb, id)
    PROVE  ServiceInv'
  <1> DEFINE entry == [id |-> lastId + 1, cb |-> cb, event |-> id]
  <1>1. EventsType /\ ListInv  BY DEF ServiceInv
  <1>2. /\ walking = None /\ lastId < MaxListeners /\ lastId' = lastId + 1
        /\ list' = Append(list, entry) /\ capacity' = Grown
        /\ UNCHANGED <<initVars, queue, heap, postVars, walking, walk, accepted, calls>>
    BY DEF Quiet, OnEvent, ChangeList
  <1>3. lastId \in 0..MaxListeners /\ lastId + 1 \in 1..MaxListeners
    BY <1>1, <1>2, EventAssumption DEF EventsType, TypeOK
  <1>4. entry \in Entries /\ entry.id = lastId + 1  BY <1>3 DEF Entries
  <1> HIDE DEF entry
  <1>5. /\ list' \in Seq(Entries) /\ Len(list') = Len(list) + 1 /\ list'[Len(list) + 1] = entry
        /\ \A i \in 1..Len(list) : list'[i] = list[i]
    BY <1>1, <1>2, <1>4, EntryAppended, Typed
  <1>6. capacity' \in Nat  BY <1>1, <1>2, Typed DEF Grown
  <1>7. lastId' \in 0..MaxListeners  BY <1>2, <1>3
  <1>8. \A i \in 1..Len(list') : list'[i] \in Entries  BY <1>5
  <1>9. EventsType'
    BY <1>1, <1>2, <1>5, <1>6, <1>7, <1>8 DEF EventsType, TypeOK, Entries, initVars, postVars
  <1>10. ListInv'
    <2>1. Len(list) \in Nat /\ lastId \in Nat /\ \A k \in 1..Len(list) : list[k].id \in Nat
      BY <1>1, Typed DEF Entries
    <2>2. \A k \in 1..Len(list') : k \in 1..Len(list) \/ k = Len(list) + 1  BY <1>5, <2>1
    <2>3. \A k \in 1..Len(list') : list'[k].id <= lastId'
      BY <1>1, <1>2, <1>4, <1>5, <2>1, <2>2 DEF ListInv
    <2>4. \A j, k \in 1..Len(list') : j < k => list'[j].id < list'[k].id
      <3>1. SUFFICES ASSUME NEW j \in 1..Len(list'), NEW k \in 1..Len(list'), j < k
                     PROVE  list'[j].id < list'[k].id
        OBVIOUS
      <3>2. j \in 1..Len(list)  BY <1>5, <2>1, <3>1
      <3>3. CASE k \in 1..Len(list)  BY <1>1, <1>5, <3>1, <3>2, <3>3 DEF ListInv
      <3>4. CASE k = Len(list) + 1  BY <1>1, <1>4, <1>5, <2>1, <3>2, <3>4 DEF ListInv
      <3> QED  BY <2>2, <3>1, <3>3, <3>4
    <2> QED  BY <2>3, <2>4 DEF ListInv
  <1> QED  BY <1>2, <1>9, <1>10, ListChanged

LEMMA EraseKeeps ==
    ASSUME Quiet, ServiceInv, NEW doomed, Erase(doomed)
    PROVE  ServiceInv'
  <1> DEFINE stay == {i \in 1..Len(list) : list[i] \notin doomed}
  <1>1. EventsType /\ ListInv  BY DEF ServiceInv
  <1>2. /\ walking = None
        /\ UNCHANGED <<initVars, queue, heap, postVars, capacity, lastId, walking, walk, accepted, calls>>
    BY DEF Quiet, Erase, ChangeList
  <1>3. PICK from \in [1..Cardinality(stay) -> stay] :
           /\ \A i, j \in DOMAIN from : i < j => from[i] < from[j]
           /\ list' = [i \in DOMAIN from |-> list[from[i]]]
    BY DEF Erase
  <1>4. Cardinality(stay) \in Nat
    <2>1. Len(list) \in Nat  BY <1>1, Typed
    <2>2. IsFiniteSet(1..Len(list))  BY <2>1, FS_Interval
    <2>3. IsFiniteSet(stay)  BY <2>2, FS_Subset
    <2> QED  BY <2>3, FS_CardinalityType
  <1>5. \A i \in stay : i \in 1..Len(list)  OBVIOUS
  <1> HIDE DEF stay
  <1> DEFINE size == Cardinality(stay)
  <1>6. DOMAIN from = 1..size /\ \A i \in 1..size : from[i] \in stay  BY <1>3
  <1>7. size \in Nat  BY <1>4
  <1> HIDE DEF size
  <1>8. \A i \in 1..size : from[i] \in 1..Len(list) /\ list[from[i]] \in Entries
    BY <1>1, <1>5, <1>6, Typed
  <1>9. list' = [i \in 1..size |-> list[from[i]]]  BY <1>3, <1>6
  <1>10. list' \in Seq(Entries) /\ Len(list') = size
    BY <1>7, <1>8, <1>9
  <1>11. \A i \in 1..Len(list') : list'[i] = list[from[i]] /\ list'[i] \in Entries
    BY <1>8, <1>9, <1>10
  <1>12. EventsType'
    BY <1>1, <1>2, <1>10, <1>11 DEF EventsType, TypeOK, Entries, initVars, postVars
  <1>13. ListInv'
    <2>1. \A k \in 1..Len(list') : list'[k].id <= lastId'
      BY <1>1, <1>2, <1>8, <1>10, <1>11 DEF ListInv
    <2>2. \A j, k \in 1..Len(list') : j < k => list'[j].id < list'[k].id
      BY <1>1, <1>3, <1>6, <1>8, <1>10, <1>11 DEF ListInv
    <2> QED  BY <2>1, <2>2 DEF ListInv
  <1> QED  BY <1>2, <1>12, <1>13, ListChanged

-----------------------------------------------------------------------------
(* Starting, and the event task.                                             *)

LEMMA BeginKeeps ==
    ASSUME ServiceInv, Begin
    PROVE  ServiceInv'
  <1>1. /\ EventsType /\ QueueInv /\ NumberInv /\ HeapInv /\ CountInv /\ CallInv /\ ListInv /\ WalkInv
    BY DEF ServiceInv
  <1>2. /\ queue' = queue /\ heap' = heap /\ holding' = holding /\ posts' = posts
        /\ list' = list /\ capacity' = capacity /\ lastId' = lastId /\ walk' = walk
        /\ walking' = walking /\ accepted' = accepted /\ calls' = calls
    BY DEF Begin, postVars, listVars
  <1>3. {initialized', groupUp', queueUp', taskUp'} \subseteq BOOLEAN
    <2>1. initialized' = TRUE  BY DEF Begin
    <2>2. PICK group, q, task \in BOOLEAN : InitNetworkEvents(group, q, task)  BY DEF Begin
    <2>3. groupUp' \in BOOLEAN /\ queueUp' \in BOOLEAN /\ taskUp' \in BOOLEAN
      BY <2>2 DEF InitNetworkEvents
    <2> QED  BY <2>1, <2>3
  <1>4. Places' = Places /\ Done' = Done /\ Holders' = Holders  BY <1>2 DEF Places, Done, Holders
  <1>5. EventsType'  BY <1>1, <1>2, <1>3 DEF EventsType, TypeOK
  <1>6. QueueInv'  BY <1>1, <1>2, <1>4 DEF QueueInv
  <1>7. NumberInv'  BY <1>1, <1>2, <1>4 DEF NumberInv
  <1>8. HeapInv'  BY <1>1, <1>2, <1>4 DEF HeapInv
  <1>9. CountInv'  BY <1>1, <1>2, <1>4 DEF CountInv
  <1>10. CallInv'  BY <1>1, <1>2, <1>4 DEF CallInv
  <1>11. ListInv' /\ WalkInv'  BY <1>1, <1>2 DEF ListInv, WalkInv, Listens
  <1> QED  BY <1>5, <1>6, <1>7, <1>8, <1>9, <1>10, <1>11 DEF ServiceInv

LEMMA TakeEventKeeps ==
    ASSUME ServiceInv, TakeEvent
    PROVE  ServiceInv'
  <1>1. /\ EventsType /\ QueueInv /\ NumberInv /\ HeapInv /\ CountInv /\ CallInv /\ ListInv /\ WalkInv
    BY DEF ServiceInv
  <1>2. /\ walking = None /\ queue # <<>> /\ walking' = Head(queue) /\ queue' = Tail(queue)
        /\ walk' = [pos |-> 1, end |-> Len(list), capacity |-> capacity]
        /\ heap' = heap /\ holding' = holding /\ posts' = posts /\ list' = list
        /\ capacity' = capacity /\ lastId' = lastId /\ accepted' = accepted /\ calls' = calls
        /\ UNCHANGED initVars
    BY DEF TakeEvent, postVars, listVars
  <1>3. /\ queue' \in Seq(Events) /\ Len(queue') = Len(queue) - 1 /\ Len(queue) >= 1
        /\ walking' = queue[1] /\ queue[1] \in Events
        /\ \A i \in 1..Len(queue') : queue'[i] = queue[i + 1]
    BY <1>1, <1>2, Typed, HeadTailProperties
  <1>4. walking' # None  BY <1>3, NotNone
  <1>5. /\ Len(queue) \in Nat /\ Len(queue') \in Nat /\ Len(accepted) \in Nat
        /\ Done \in Nat /\ Done' = Done + 1 /\ Places' = Places /\ Holders' = Holders
    BY <1>1, <1>2, <1>3, Typed DEF QueueInv, Done, Places, Holders
  <1>6. Done + 1 \in Places /\ walking' = accepted[Done + 1]
    BY <1>1, <1>3, <1>5 DEF QueueInv, Done, Places
  <1>7. EventsType'
    <2>1. walk' \in Walks  BY <1>1, <1>2, Typed DEF Walks
    <2>2. Len(queue') <= QueueDepth  BY <1>1, <1>3, <1>5, Typed, EventAssumption
    <2>3. walking' \in Events \cup {None}  BY <1>3
    <2> QED  BY <1>1, <1>2, <1>3, <2>1, <2>2, <2>3 DEF EventsType, TypeOK, initVars
  <1>8. QueueInv'
    <2>1. Len(queue') <= Len(accepted)  BY <1>1, <1>3, <1>5 DEF QueueInv
    <2>2. \A i \in 1..Len(queue') : queue'[i] = accepted[(Done + 1) + i]
      <3>1. SUFFICES ASSUME NEW i \in 1..Len(queue') PROVE queue'[i] = accepted[(Done + 1) + i]
        OBVIOUS
      <3>2. i + 1 \in 1..Len(queue) /\ (Done + 1) + i = Done + (i + 1)  BY <1>3, <1>5
      <3> QED  BY <1>1, <1>3, <3>2 DEF QueueInv
    <2> QED  BY <1>2, <1>5, <1>6, <2>1, <2>2 DEF QueueInv
  <1>9. NumberInv'  BY <1>1, <1>2, <1>5 DEF NumberInv
  <1>10. HeapInv'
    <2>1. {queue[i] : i \in 1..Len(queue)} = {queue'[i] : i \in 1..Len(queue')} \cup {walking'}
      <3>1. \A i \in 1..Len(queue) : i = 1 \/ (i - 1 \in 1..Len(queue') /\ (i - 1) + 1 = i)
        BY <1>3, <1>5
      <3>2. \A i \in 1..Len(queue) : i = 1 \/ queue'[i - 1] = queue[i]
        <4> HIDE <1>2
        <4> QED  BY <1>3, <3>1
      <3>3. \A i \in 1..Len(queue') : i + 1 \in 1..Len(queue)  BY <1>3, <1>5
      <3>4. 1 \in 1..Len(queue)  BY <1>3, <1>5
      <3> QED  BY <1>3, <3>1, <3>2, <3>3, <3>4
    <2> QED  BY SMTT(30), <1>1, <1>2, <1>4, <1>5, <2>1 DEF HeapInv
  <1>11. CountInv'
    <2>1. Cardinality(Holders) \in Nat
      BY EventAssumption, FS_Subset, FS_CardinalityType DEF Holders
    <2> QED  BY <1>1, <1>2, <1>3, <1>4, <1>5, <2>1 DEF CountInv
  <1>12. CallInv'
    <2>1. \A i \in 1..Done : i \in 1..Done + 1  BY <1>5
    <2> QED  BY <1>1, <1>2, <1>5, <2>1 DEF CallInv
  <1>13. ListInv'  BY <1>1, <1>2 DEF ListInv
  <1>14. WalkInv'
    <2>1. \A j \in 1..Len(calls) : calls[j][1] # walking'.n
      <3>1. SUFFICES ASSUME NEW j \in 1..Len(calls), calls[j][1] = walking'.n PROVE FALSE
        OBVIOUS
      <3>2. PICK i \in 1..Done : accepted[i].n = calls[j][1]  BY <1>1 DEF CallInv
      <3>3. i \in Places /\ i # Done + 1  BY <1>5, <1>6 DEF Places
      <3> QED  BY <1>1, <1>6, <3>1, <3>2, <3>3 DEF NumberInv
    <2>2. walk'.pos = 1 /\ walk'.end = Len(list) /\ Len(list) \in Nat  BY <1>1, <1>2, Typed
    <2> QED  BY <1>2, <2>1, <2>2 DEF WalkInv
  <1> QED  BY <1>7, <1>8, <1>9, <1>10, <1>11, <1>12, <1>13, <1>14 DEF ServiceInv

LEMMA CallNextKeeps ==
    ASSUME ServiceInv, CallNext
    PROVE  ServiceInv'
  <1> DEFINE entry == list[walk.pos]
  <1> DEFINE call == <<walking.n, entry.id>>
  <1>1. /\ EventsType /\ QueueInv /\ NumberInv /\ HeapInv /\ CountInv /\ CallInv /\ ListInv /\ WalkInv
    BY DEF ServiceInv
  <1>2. /\ walking # None /\ walk.pos <= walk.end /\ walk' = [walk EXCEPT !.pos = @ + 1]
        /\ queue' = queue /\ heap' = heap /\ holding' = holding /\ posts' = posts /\ list' = list
        /\ capacity' = capacity /\ lastId' = lastId /\ accepted' = accepted /\ walking' = walking
        /\ UNCHANGED initVars
    BY DEF CallNext, postVars, listVars
  <1>3. calls' = IF Listens(entry, walking) THEN Append(calls, call) ELSE calls
    BY DEF CallNext
  <1>4. walk \in Walks /\ Len(list) \in Nat /\ Len(calls) \in Nat /\ Len(accepted) \in Nat /\ Done \in Nat
    BY <1>1, Typed DEF QueueInv, Done
  <1>5. /\ walk.pos \in 1..Len(list) /\ walk.end = Len(list) /\ walk'.pos = walk.pos + 1
        /\ walk'.end = Len(list) /\ walk' \in Walks
    BY <1>1, <1>2, <1>4 DEF WalkInv, Walks
  <1>6. Done \in 1..Done /\ Done \in Places /\ walking = accepted[Done] /\ walking.n \in Nat
    BY <1>1, <1>2, <1>4, Typed, NotNone DEF QueueInv, Done, Places
  <1>7. \A k \in 1..Len(list) : list[k].id \in Nat
    BY <1>1, Typed DEF Entries
  <1>8. call \in Nat \X Nat /\ call[1] = walking.n /\ call[2] = entry.id  BY <1>5, <1>6, <1>7
  <1> HIDE DEF entry, call
  <1>9. /\ calls' \in Seq(Nat \X Nat)
        /\ \A j \in 1..Len(calls) : j \in 1..Len(calls') /\ calls'[j] = calls[j]
        /\ Listens(entry, walking) => Len(calls') = Len(calls) + 1 /\ calls'[Len(calls) + 1] = call
        /\ ~Listens(entry, walking) => calls' = calls
    <2>1. CASE Listens(entry, walking)
      <3>1. calls' = Append(calls, call)  BY <1>3, <2>1
      <3> QED  BY <1>1, <1>4, <1>8, <2>1, <3>1, CallAppended, Typed
    <2>2. CASE ~Listens(entry, walking)  BY <1>1, <1>3, <2>2, Typed
    <2> QED  BY <2>1, <2>2
  <1>10. Places' = Places /\ Done' = Done /\ Holders' = Holders  BY <1>2 DEF Places, Done, Holders
  <1>11. EventsType'
    BY <1>1, <1>2, <1>5, <1>9 DEF EventsType, TypeOK, initVars
  <1>12. QueueInv'  BY <1>1, <1>2, <1>10 DEF QueueInv
  <1>13. NumberInv'  BY <1>1, <1>2, <1>10 DEF NumberInv
  <1>14. HeapInv'  BY <1>1, <1>2, <1>10 DEF HeapInv
  <1>15. CountInv'  BY <1>1, <1>2, <1>10 DEF CountInv
  <1>16. ListInv'  BY <1>1, <1>2 DEF ListInv
  <1>17. CASE ~Listens(entry, walking)
    <2>1. calls' = calls  BY <1>9, <1>17
    <2>2. CallInv'  BY <1>1, <1>2, <1>10, <2>1 DEF CallInv
    <2>3. WalkInv'
      <3>1. walk'.pos \in 1..Len(list) + 1  BY <1>4, <1>5
      <3>2. \A j \in 1..Len(calls) : calls[j][1] = walking.n => \E k \in 1..walk'.pos - 1 : calls[j][2] = list[k].id
        <4>1. \A k \in 1..walk.pos - 1 : k \in 1..walk'.pos - 1  BY <1>4, <1>5
        <4> QED  BY <1>1, <1>2, <4>1 DEF WalkInv
      <3>3. \A k \in 1..walk'.pos - 1 : Listens(list[k], walking) =>
               \E j \in 1..Len(calls) : calls[j] = <<walking.n, list[k].id>>
        <4>1. \A k \in 1..walk'.pos - 1 : k = walk.pos \/ k \in 1..walk.pos - 1  BY <1>4, <1>5
        <4> QED  BY <1>1, <1>2, <1>17, <4>1 DEF WalkInv, entry
      <3> QED  BY <1>2, <1>5, <2>1, <3>1, <3>2, <3>3 DEF WalkInv, Listens
    <2> QED  BY <1>11, <1>12, <1>13, <1>14, <1>15, <1>16, <2>2, <2>3 DEF ServiceInv
  <1>18. CASE Listens(entry, walking)
    <2>1. Len(calls') = Len(calls) + 1 /\ calls'[Len(calls) + 1] = call  BY <1>9, <1>18
    <2>2. \A j \in 1..Len(calls') : j = Len(calls) + 1 \/ j \in 1..Len(calls)  BY <1>4, <2>1
    <2>3. Len(calls) + 1 \in 1..Len(calls')  BY <1>4, <2>1
    <2>4. CallInv'
      <3>1. \A j \in 1..Len(calls') : \E i \in 1..Done : accepted[i].n = calls'[j][1]
        BY <1>1, <1>6, <1>8, <1>9, <2>1, <2>2 DEF CallInv
      <3>2. ASSUME NEW j \in 1..Len(calls'), NEW k \in 1..Len(calls'), j < k,
                   NEW a \in Places, NEW b \in Places,
                   accepted[a].n = calls'[j][1], accepted[b].n = calls'[k][1]
            PROVE  a < b \/ (a = b /\ calls'[j][2] < calls'[k][2])
        <4>1. j \in 1..Len(calls) /\ calls'[j] = calls[j]
          <5>1. j \in 1..Len(calls)  BY <1>4, <2>1, <3>2
          <5> QED  BY <1>9, <5>1
        <4>2. CASE k \in 1..Len(calls)
          <5>1. calls'[k] = calls[k]  BY <1>9, <4>2
          <5> QED  BY <1>1, <3>2, <4>1, <4>2, <5>1 DEF CallInv
        <4>3. CASE k = Len(calls) + 1
          <5>1. calls'[k] = call  BY <2>1, <4>3
          <5>2. b = Done  BY <1>1, <1>6, <1>8, <3>2, <5>1 DEF NumberInv
          <5>3. PICK i \in 1..Done : accepted[i].n = calls[j][1]  BY <1>1, <4>1 DEF CallInv
          <5>4. i \in Places  BY <1>4, <1>6 DEF Places
          <5>5. a = i
            <6>1. accepted[a].n = accepted[i].n  BY <3>2, <4>1, <5>3
            <6> QED  BY <1>1, <3>2, <5>4, <6>1 DEF NumberInv
          <5>6. CASE a = b
            <6>1. calls[j][1] = walking.n  BY <1>6, <3>2, <4>1, <5>2, <5>6
            <6>2. PICK m \in 1..walk.pos - 1 : calls[j][2] = list[m].id
              BY <1>1, <1>2, <4>1, <6>1 DEF WalkInv
            <6>3. m \in 1..Len(list) /\ m < walk.pos  BY <1>4, <1>5
            <6>4. list[m].id < entry.id  BY <1>1, <1>5, <6>3 DEF ListInv, entry
            <6> QED  BY <1>8, <4>1, <5>1, <5>6, <6>2, <6>4
          <5>7. CASE a # b  BY <1>4, <5>2, <5>3, <5>5, <5>7
          <5> QED  BY <5>6, <5>7
        <4> QED  BY <2>2, <4>2, <4>3
      <3> QED  BY <1>2, <1>10, <3>1, <3>2 DEF CallInv
    <2>5. WalkInv'
      <3>1. walk'.pos \in 1..Len(list) + 1  BY <1>4, <1>5
      <3>2. \A j \in 1..Len(calls') : calls'[j][1] = walking.n =>
               \E k \in 1..walk'.pos - 1 : calls'[j][2] = list[k].id
        <4>1. \A k \in 1..walk.pos - 1 : k \in 1..walk'.pos - 1  BY <1>4, <1>5
        <4>2. walk.pos \in 1..walk'.pos - 1  BY <1>4, <1>5
        <4>3. calls'[Len(calls) + 1][2] = list[walk.pos].id  BY <1>8, <2>1 DEF entry
        <4>4. \A j \in 1..Len(calls) : calls'[j][1] = walking.n =>
                 \E k \in 1..walk'.pos - 1 : calls'[j][2] = list[k].id
          BY ZenonT(40), <1>1, <1>2, <1>9, <4>1 DEF WalkInv
        <4> QED  BY <2>2, <4>2, <4>3, <4>4
      <3>3. \A k \in 1..walk'.pos - 1 : Listens(list[k], walking) =>
               \E j \in 1..Len(calls') : calls'[j] = <<walking.n, list[k].id>>
        <4>1. \A k \in 1..walk'.pos - 1 : k = walk.pos \/ k \in 1..walk.pos - 1  BY <1>4, <1>5
        <4>2. calls'[Len(calls) + 1] = <<walking.n, list[walk.pos].id>>  BY <2>1 DEF call, entry
        <4>3. \A k \in 1..walk.pos - 1 : Listens(list[k], walking) =>
                 \E j \in 1..Len(calls') : calls'[j] = <<walking.n, list[k].id>>
          BY <1>1, <1>2, <1>9 DEF WalkInv
        <4> QED  BY <2>3, <4>1, <4>2, <4>3
      <3> QED  BY <1>2, <1>5, <3>1, <3>2, <3>3 DEF WalkInv, Listens
    <2> QED  BY <1>11, <1>12, <1>13, <1>14, <1>15, <1>16, <2>4, <2>5 DEF ServiceInv
  <1> QED  BY <1>17, <1>18

LEMMA FreeEventKeeps ==
    ASSUME ServiceInv, FreeEvent
    PROVE  ServiceInv'
  <1>1. /\ EventsType /\ QueueInv /\ NumberInv /\ HeapInv /\ CountInv /\ CallInv /\ ListInv
    BY DEF ServiceInv
  <1>2. /\ walking # None /\ heap' = heap \ {walking} /\ walking' = None /\ walk' = NoWalk
        /\ queue' = queue /\ holding' = holding /\ posts' = posts /\ list' = list
        /\ capacity' = capacity /\ lastId' = lastId /\ accepted' = accepted /\ calls' = calls
        /\ UNCHANGED initVars
    BY DEF FreeEvent, postVars, listVars
  <1>3. Places' = Places /\ Done' = Done /\ Holders' = Holders  BY <1>2 DEF Places, Done, Holders
  <1>4. EventsType'
    <2>1. walk' \in Walks  BY <1>2 DEF NoWalk, Walks
    <2> QED  BY <1>1, <1>2, <2>1 DEF EventsType, TypeOK, initVars
  <1>5. QueueInv'  BY <1>1, <1>2, <1>3 DEF QueueInv
  <1>6. NumberInv'  BY <1>1, <1>2, <1>3 DEF NumberInv
  <1>7. HeapInv'
    <2>1. walking \notin {holding[t] : t \in Holders} /\ walking \notin {queue[i] : i \in 1..Len(queue)}
      BY OneOwner
    <2>2. {walking'} \ {None} = {}  BY <1>2
    <2> QED  BY <1>1, <1>2, <1>3, <2>1, <2>2 DEF HeapInv
  <1>8. CountInv'
    <2>1. walking \in heap  BY <1>1, <1>2 DEF HeapInv
    <2>2. IsFiniteSet(heap') /\ Cardinality(heap') = Cardinality(heap) - 1
      BY <1>1, <1>2, <2>1, FS_RemoveElement DEF CountInv
    <2>3. Cardinality(Holders) \in Nat
      BY EventAssumption, FS_Subset, FS_CardinalityType DEF Holders
    <2>4. Len(queue) \in Nat  BY <1>1, Typed
    <2> QED  BY <1>1, <1>2, <1>3, <2>2, <2>3, <2>4 DEF CountInv
  <1>9. CallInv'  BY <1>1, <1>2, <1>3 DEF CallInv
  <1>10. ListInv' /\ WalkInv'  BY <1>1, <1>2 DEF ListInv, WalkInv
  <1> QED  BY <1>4, <1>5, <1>6, <1>7, <1>8, <1>9, <1>10 DEF ServiceInv

-----------------------------------------------------------------------------
(* The theorems.                                                             *)

LEMMA ServiceStart == Init => ServiceInv
  <1>1. SUFFICES ASSUME Init PROVE ServiceInv  OBVIOUS
  <1>2. /\ queue = <<>> /\ heap = {} /\ holding = [t \in Tasks |-> None] /\ posts = 0 /\ list = <<>>
        /\ capacity = 0 /\ lastId = 0 /\ walking = None /\ walk = NoWalk /\ accepted = <<>> /\ calls = <<>>
    BY <1>1 DEF Init
  <1>3. Len(queue) = 0 /\ Len(list) = 0 /\ Len(accepted) = 0 /\ Len(calls) = 0 /\ Done = 0 /\ Holders = {}
    BY <1>2 DEF Done, Holders
  <1>4. \A i : i \notin 1..0  OBVIOUS
  <1>5. EventsType
    <2>1. {initialized, groupUp, queueUp, taskUp} \subseteq BOOLEAN  BY <1>1 DEF Init
    <2>2. holding \in [Tasks -> Events \cup {None}]  BY <1>2
    <2>3. walk \in Walks  BY <1>2 DEF NoWalk, Walks
    <2> QED  BY <1>2, <1>3, <1>4, <2>1, <2>2, <2>3, EventAssumption DEF EventsType, TypeOK
  <1>6. QueueInv /\ NumberInv /\ CallInv /\ ListInv /\ WalkInv
    BY <1>2, <1>3, <1>4 DEF QueueInv, NumberInv, CallInv, ListInv, WalkInv, Places
  <1>7. HeapInv  BY <1>2, <1>3, <1>4 DEF HeapInv
  <1>8. CountInv  BY <1>2, <1>3, FS_EmptySet DEF CountInv
  <1> QED  BY <1>5, <1>6, <1>7, <1>8 DEF ServiceInv

LEMMA Untouched ==
    ASSUME ServiceInv, UNCHANGED vars
    PROVE  ServiceInv'
  <1>1. /\ EventsType /\ QueueInv /\ NumberInv /\ HeapInv /\ CountInv /\ CallInv /\ ListInv /\ WalkInv
    BY DEF ServiceInv
  <1>2. /\ queue' = queue /\ heap' = heap /\ holding' = holding /\ posts' = posts /\ list' = list
        /\ capacity' = capacity /\ lastId' = lastId /\ accepted' = accepted /\ calls' = calls
        /\ walking' = walking /\ walk' = walk /\ UNCHANGED initVars
    BY DEF vars, postVars, listVars
  <1>3. Places' = Places /\ Done' = Done /\ Holders' = Holders  BY <1>2 DEF Places, Done, Holders
  <1>4. EventsType'  BY <1>1, <1>2 DEF EventsType, TypeOK, initVars
  <1>5. QueueInv'  BY <1>1, <1>2, <1>3 DEF QueueInv
  <1>6. NumberInv'  BY <1>1, <1>2, <1>3 DEF NumberInv
  <1>7. HeapInv'  BY <1>1, <1>2, <1>3 DEF HeapInv
  <1>8. CountInv'  BY <1>1, <1>2, <1>3 DEF CountInv
  <1>9. CallInv'  BY <1>1, <1>2, <1>3 DEF CallInv
  <1>10. ListInv' /\ WalkInv'  BY <1>1, <1>2 DEF ListInv, WalkInv, Listens
  <1> QED  BY <1>4, <1>5, <1>6, <1>7, <1>8, <1>9, <1>10 DEF ServiceInv

LEMMA ServiceNext ==
    ASSUME Quiet, ServiceInv, [Next]_vars
    PROVE  ServiceInv'
  <1>1. CASE Begin  BY <1>1, BeginKeeps
  <1>2. CASE \E t \in Tasks, id \in EventIds : PostAlloc(t, id)  BY <1>2, PostAllocKeeps
  <1>3. CASE \E t \in Tasks : PostWrite(t)  BY <1>3, PostWriteKeeps
  <1>4. CASE \E cb \in Callbacks, id \in EventIds \cup {AnyEvent} : OnEvent(cb, id) \/ RemoveByCallback(cb, id)
    BY <1>4, OnEventKeeps, EraseKeeps DEF RemoveByCallback
  <1>5. CASE \E id \in 1..MaxListeners : RemoveById(id)  BY <1>5, EraseKeeps DEF RemoveById
  <1>6. CASE EventTask  BY <1>6, TakeEventKeeps, CallNextKeeps, FreeEventKeeps DEF EventTask
  <1>7. CASE UNCHANGED vars  BY <1>7, Untouched
  <1> QED  BY <1>1, <1>2, <1>3, <1>4, <1>5, <1>6, <1>7 DEF Next

LEMMA ServiceAlways == ASSUME Quiet PROVE Spec => []ServiceInv
  <1>1. Quiet  OBVIOUS
  <1>2. ServiceInv /\ [Next]_vars => ServiceInv'  BY <1>1, ServiceNext
  <1> QED  BY <1>2, ServiceStart, PTL DEF Spec

LEMMA AccountFollows ==
    ASSUME ServiceInv
    PROVE  EventsAccounted
  <1>1. /\ EventsType /\ QueueInv /\ NumberInv /\ HeapInv /\ CountInv /\ CallInv
    BY DEF ServiceInv
  <1>2. TypeOK  BY <1>1 DEF EventsType
  <1>3. HeapOwned
    <2>1. ToSet(queue) = {queue[i] : i \in 1..Len(queue)}  BY <1>1, Typed DEF ToSet
    <2>2. heap = ({holding[t] : t \in Tasks} \cup ToSet(queue) \cup {walking}) \ {None}
      <3>1. {holding[t] : t \in Holders} = {holding[t] : t \in Tasks} \ {None}  BY DEF Holders
      <3>2. None \notin ToSet(queue)  BY <1>1, <2>1, Typed, NotNone
      <3> QED  BY <1>1, <2>1, <3>1, <3>2 DEF HeapInv
    <2> QED  BY <1>1, <2>2 DEF HeapOwned, CountInv, Holders
  <1>4. CallsInOrder
    <2> DEFINE place(n) == CHOOSE i \in 1..Len(accepted) : accepted[i].n = n
    <2>1. \A j \in 1..Len(calls) : place(calls[j][1]) \in Places /\ accepted[place(calls[j][1])].n = calls[j][1]
      <3>1. SUFFICES ASSUME NEW j \in 1..Len(calls)
                     PROVE  place(calls[j][1]) \in Places /\ accepted[place(calls[j][1])].n = calls[j][1]
        OBVIOUS
      <3>2. PICK i \in 1..Done : accepted[i].n = calls[j][1]  BY <1>1 DEF CallInv
      <3>3. i \in 1..Len(accepted)  BY <1>1, Typed DEF Done
      <3> QED  BY <3>2, <3>3 DEF Places
    <2>2. \A i, j \in 1..Len(calls) : i < j =>
             \/ place(calls[i][1]) < place(calls[j][1])
             \/ place(calls[i][1]) = place(calls[j][1]) /\ calls[i][2] < calls[j][2]
      <3> HIDE DEF place
      <3> QED  BY <1>1, <2>1 DEF CallInv
    <2>3. \A i, j \in 1..Len(calls) : i < j =>
             \/ place(calls[i][1]) < place(calls[j][1])
             \/ calls[i][1] = calls[j][1] /\ calls[i][2] < calls[j][2]
      <3> HIDE DEF place
      <3> QED  BY <2>1, <2>2
    <2> QED  BY <2>3 DEF CallsInOrder
  <1> QED  BY <1>2, <1>3, <1>4 DEF EventsAccounted

\* Whatever the number of posting tasks, events and callbacks and the depth of
\* the queue, every event object has one owner until it is freed and is freed
\* once, and the callbacks see the events in the order they were queued, each
\* at most once, as long as the list changes only between two events
\* (NetworkEvents.cpp:182-244).
THEOREM EventsAlwaysAccounted == ASSUME Quiet PROVE Spec => []EventsAccounted
  <1>1. ServiceInv => EventsAccounted  BY AccountFollows
  <1> QED  BY <1>1, ServiceAlways, PTL

\* The event task lets go of an event only when the walk has called every
\* listener of that event in the list (NetworkEvents.cpp:221-244).
THEOREM ListenersAllCalled == ASSUME Quiet PROVE Spec => AllListenersCalled
  <1> DEFINE Heard == \A i \in 1..Len(list) :
                         list[i].event \in {walking.id, AnyEvent} =>
                            \E j \in 1..Len(calls) : calls[j] = <<walking.n, list[i].id>>
  <1>1. ASSUME ServiceInv, Next, walking # None, walking' # walking
        PROVE  FreeEvent
    <2>1. CASE EventTask  BY <1>1, <2>1 DEF EventTask, TakeEvent, CallNext
    <2>2. CASE ~EventTask
      BY <1>1, <2>2 DEF Next, Begin, PostAlloc, PostWrite, OnEvent, RemoveById, RemoveByCallback, Erase
    <2> QED  BY <2>1, <2>2
  <1>2. ASSUME ServiceInv, FreeEvent PROVE Heard
    <2>1. WalkInv /\ EventsType /\ walking # None /\ walk.pos > walk.end
      BY <1>2 DEF ServiceInv, FreeEvent
    <2>2. walk.end = Len(list) /\ walk.pos \in 1..Len(list) + 1  BY <2>1 DEF WalkInv
    <2>3. Len(list) \in Nat  BY <2>1, Typed
    <2>4. \A i \in 1..Len(list) : i \in 1..walk.pos - 1  BY <2>1, <2>2, <2>3
    <2> QED  BY <2>1, <2>4 DEF WalkInv, Listens
  <1>3. ServiceInv /\ [Next]_vars => [walking # None /\ walking' # walking => Heard]_vars
    BY <1>1, <1>2
  <1> QED  BY <1>3, ServiceAlways, PTL DEF Spec, AllListenersCalled
=============================================================================

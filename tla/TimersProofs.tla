---------------------------- MODULE TimersProofs ----------------------------
(* Theorems about Timers for every set of timers, every clock, period, cycle, *)
(* frequency and duration, and every interleaving of the assignments of a     *)
(* call with the interrupts.  The last one, PinsAlwaysAsAsked, is about a     *)
(* sketch that gives one timer one user; the others do not need that and hold *)
(* for Shared = TRUE as well.                                                 *)
EXTENDS Timers, SequenceTheorems, TLAPS

-----------------------------------------------------------------------------
(* Types.                                                                    *)

Words     == {n \in Nat : n < 65536}
Whose     == Callbacks \cup {None, "tone"}
Units     == {"tick", "us", "ms", "s", "hz"}
BaseRegs  == [psc : Words, car : Words, rep : Nat]
RegType   == [on : BOOLEAN, psc : Words, car : Words, rep : Nat, ie : SUBSET Events,
              flags : SUBSET Events, due : SUBSET Channels]
HwType    == [made : BOOLEAN, cb : [Events -> Whose]]
PwmType   == [made : BOOLEAN, alive : BOOLEAN, cb : Whose, active : BOOLEAN,
              period : Nat, cycle : Nat, format : Units]
ToneType  == [pin : {None, "speaker", "buzzer"}, count : Int, level : Int, asked : Int,
              toggles : Int, over : BOOLEAN]
UserType  == [by : {"nobody", "timer", "pwm"}, time : Int, format : Units]
Lines     == Timers \X {"up", "channel", "all"}
Modes     == {"off", "pwm", "capture"}
OpNames   == {"deinit", "base", "on", "off", "refresh", "prescaler", "reload", "clear",
              "enable", "disable", "mode", "pulse", "out", "line", "construct",
              "callback", "pwm", "timing", "tone"}
Values    == Whose \cup Modes \cup Int \cup BOOLEAN \cup BaseRegs \cup PwmType \cup ToneType
             \cup UserType \cup Lines
Ops       == [op : OpNames, t : Timers, e : Events, v : Values]

TimersType ==
    /\ reg \in [Timers -> RegType] /\ hwObj \in [Timers -> HwType]
    /\ pwmObj \in [Timers -> [Channels -> PwmType]]
    /\ fresh \in [Timers -> SUBSET Events]
    /\ tone \in ToneType /\ irqs \subseteq Lines /\ todo \in Seq(Ops)

-----------------------------------------------------------------------------
(* What the rest of a call looks like, whatever call it is of.               *)

\* A tone counts down the half periods it was asked for.
Counting(q) ==
    /\ q.asked >= 0 => q.count >= 0 /\ q.toggles + q.count = q.asked
    /\ q.asked < 0 => q.count < 0
    /\ q.over => q.level = 0 /\ q.count = 0

\* A PWM object with a callback still exists.
Exists(o) == o.cb # None => o.alive

LineOf(t, e) == IF e = Up THEN UpIrq(t) ELSE CcIrq(t)

\* An operation on arguments it can have; an object is only made, and an event
\* only enabled, where the interrupt lines are those in the set given.
OpFits(o, lines) ==
    /\ o.op = "base" => o.v \in BaseRegs
    /\ o.op \in {"prescaler", "reload"} => o.v \in Int
    /\ o.op = "callback" => o.v \in Whose
    /\ o.op = "line" => o.v \in Lines
    /\ o.op = "tone" => o.v \in ToneType /\ Counting(o.v) /\ ~o.v.over
    /\ o.op = "construct" => {UpIrq(o.t), CcIrq(o.t)} \subseteq lines
    /\ o.op = "pwm" => o.e \in Channels /\ o.v \in PwmType /\ Exists(o.v) /\ CcIrq(o.t) \in lines
    /\ o.op = "enable" => LineOf(o.t, o.e) \in lines

\* An event is enabled right after its flag was cleared.
Cleared(a, b) == b.op = "enable" => a = [b EXCEPT !.op = "clear"]

\* The lines that are enabled, or will be before the call returns.
LinesIn(ops) == {ops[i].v : i \in {j \in 1..Len(ops) : ops[j].op = "line"}}
Coming == irqs \cup LinesIn(todo)

TodoInv ==
    /\ \A i \in 1..Len(todo) : OpFits(todo[i], Coming)
    /\ \A i \in 1..Len(todo) : todo[i].op = "enable" => LineOf(todo[i].t, todo[i].e) \in irqs
    /\ \A i \in 2..Len(todo) : Cleared(todo[i - 1], todo[i])

-----------------------------------------------------------------------------
(* The inductive invariant.                                                  *)

\* An object that was made has its lines enabled when its call has returned.
LinesInv ==
    \A t \in Timers :
        /\ hwObj[t].made => {UpIrq(t), CcIrq(t)} \subseteq Coming
        /\ \A c \in Channels : pwmObj[t][c].alive => CcIrq(t) \in Coming

PwmInv == \A t \in Timers, c \in Channels : Exists(pwmObj[t][c])

\* An enabled event always has its line, so that the sketch never gets past it.
EnabledInv == \A t \in Timers : \A e \in reg[t].ie : LineOf(t, e) \in irqs

\* Every event that could interrupt now came after its callback was assigned.
FreshInv == \A t \in Timers : reg[t].flags \cap reg[t].ie \subseteq fresh[t]

\* The flag of an event about to be enabled was set after it was cleared.
EnableInv ==
    (todo # <<>> /\ Head(todo).op = "enable") =>
        (Head(todo).e \in reg[Head(todo).t].flags => Head(todo).e \in fresh[Head(todo).t])

\* tone() counts right, and its timer was set up before the sketch runs.
ToneInv == Counting(tone) /\ UpIrq(ToneTimer) \in irqs

TimersInv ==
    /\ TimersType /\ TodoInv /\ LinesInv /\ PwmInv /\ EnabledInv
    /\ FreshInv /\ EnableInv /\ ToneInv

-----------------------------------------------------------------------------
(* Operations.                                                               *)

LEMMA UpIsEvent == Up \in Events /\ Channels \subseteq Events
  BY DEF Events

LEMMA WordIsWord == \A n \in Int : Word(n) \in Words
  BY DEF Word, Words

LEMMA NoFlags == Reset \in RegType /\ Reset.flags = {} /\ Reset.ie = {}
  BY DEF Reset, RegType, Words

LEMMA NewObject == [NoObject EXCEPT !.made = TRUE] \in HwType
  <1> DEFINE f == [e \in Events |-> None]
  <1>1. None \in Whose  BY DEF None, Whose
  <1>2. \A x \in Whose : [e \in Events |-> x] \in [Events -> Whose]  OBVIOUS
  <1>3. f \in [Events -> Whose]  BY <1>1, <1>2, Zenon
  <1> HIDE DEF f
  <1>4. [[made |-> FALSE, cb |-> f] EXCEPT !.made = TRUE] \in HwType  BY <1>3 DEF HwType
  <1> QED  BY <1>4 DEF NoObject, f

LEMMA LinesGrow ==
    ASSUME NEW o, NEW L, NEW M, OpFits(o, L), L \subseteq M
    PROVE  OpFits(o, M)
  BY DEF OpFits

\* What is left of a call after its first operation.
LEMMA Rest ==
    ASSUME TimersType, todo # <<>>, todo' = Tail(todo)
    PROVE  /\ Head(todo) = todo[1] /\ 1 \in 1..Len(todo) /\ todo[1] \in Ops
           /\ todo' \in Seq(Ops) /\ Len(todo') = Len(todo) - 1
           /\ \A i \in 1..Len(todo') : todo'[i] = todo[i + 1] /\ i + 1 \in 1..Len(todo)
           /\ todo' # <<>> => Head(todo') = todo[2] /\ 2 \in 2..Len(todo)
  <1>1. todo \in Seq(Ops)  BY DEF TimersType
  <1>2. /\ Tail(todo) \in Seq(Ops) /\ Len(Tail(todo)) = Len(todo) - 1
        /\ \A i \in 1..Len(Tail(todo)) : Tail(todo)[i] = todo[i + 1]
    BY <1>1, HeadTailProperties
  <1>3. Len(todo) \in Nat \ {0} /\ Head(todo) = todo[1] /\ todo[1] \in Ops  BY <1>1
  <1>4. Len(todo') \in Nat  BY <1>2
  <1>5. todo' # <<>> => Head(todo') = todo[2] /\ 2 \in 2..Len(todo)
    <2>1. SUFFICES ASSUME todo' # <<>> PROVE Head(todo') = todo[2] /\ 2 \in 2..Len(todo)  OBVIOUS
    <2>2. Head(todo') = todo'[1] /\ Len(todo') # 0  BY <1>2, <2>1
    <2> QED  BY <1>2, <1>3, <1>4, <2>2
  <1> QED  BY <1>2, <1>3, <1>4, <1>5

\* No line that is enabled or will be is lost.
LEMMA ComingKept ==
    ASSUME TimersType, todo # <<>>, todo' = Tail(todo), irqs \subseteq irqs',
           todo[1].op = "line" => todo[1].v \in irqs'
    PROVE  Coming \subseteq Coming'
  <1>1. SUFFICES ASSUME NEW l \in LinesIn(todo) PROVE l \in irqs' \cup LinesIn(todo')
    BY DEF Coming
  <1>2. PICK i \in 1..Len(todo) : todo[i].op = "line" /\ l = todo[i].v  BY DEF LinesIn
  <1>3. CASE i = 1  BY <1>2, <1>3
  <1>4. CASE i # 1
    <2>1. i - 1 \in 1..Len(todo') /\ todo'[i - 1] = todo[i]  BY Rest, <1>4
    <2> QED  BY <1>2, <2>1 DEF LinesIn
  <1> QED  BY <1>3, <1>4

LEMMA TodoStep ==
    ASSUME TimersType, TodoInv, todo # <<>>, todo' = Tail(todo), irqs \subseteq irqs',
           Coming \subseteq Coming'
    PROVE  TodoInv'
  <1>1. \A i \in 1..Len(todo') : todo'[i] = todo[i + 1] /\ i + 1 \in 1..Len(todo)  BY Rest
  <1>2. \A i \in 1..Len(todo') : OpFits(todo'[i], Coming')
    BY <1>1, LinesGrow DEF TodoInv
  <1>3. \A i \in 1..Len(todo') : todo'[i].op = "enable" => LineOf(todo'[i].t, todo'[i].e) \in irqs'
    BY <1>1 DEF TodoInv
  <1>4. \A i \in 2..Len(todo') : Cleared(todo'[i - 1], todo'[i])
    <2>1. SUFFICES ASSUME NEW i \in 2..Len(todo') PROVE Cleared(todo'[i - 1], todo'[i])  OBVIOUS
    <2>2. i \in 1..Len(todo') /\ i - 1 \in 1..Len(todo') /\ (i - 1) + 1 = i
          /\ i + 1 \in 2..Len(todo) /\ (i + 1) - 1 = i
      BY Rest
    <2>3. todo'[i] = todo[i + 1] /\ todo'[i - 1] = todo[i]  BY <1>1, <2>2
    <2>4. Cleared(todo[(i + 1) - 1], todo[i + 1])  BY <2>2 DEF TodoInv
    <2> QED  BY <2>2, <2>3, <2>4
  <1> QED  BY <1>2, <1>3, <1>4 DEF TodoInv, LineOf, UpIrq, CcIrq

\* When the sketch gets to run, no enabled event waits.
LEMMA NothingWaits ==
    ASSUME TimersType, EnabledInv, ~Preempted
    PROVE  \A t \in Timers : reg[t].flags \cap reg[t].ie = {}
  BY DEF EnabledInv, Preempted, Pending, LineOf

LEMMA DeinitKeeps ==
    ASSUME TimersInv, ~Preempted, todo # <<>>, todo' = Tail(todo), Deinit(todo[1])
    PROVE  /\ TimersType' /\ LinesInv' /\ PwmInv' /\ EnabledInv'
           /\ FreshInv' /\ ToneInv' /\ Coming \subseteq Coming' /\ irqs \subseteq irqs'
  <1> DEFINE o == todo[1]
  <1>1. /\ TimersType /\ TodoInv /\ LinesInv /\ PwmInv /\ EnabledInv
        /\ FreshInv /\ EnableInv /\ ToneInv
    BY DEF TimersInv
  <1>2. o \in Ops /\ todo' \in Seq(Ops) /\ OpFits(o, Coming) /\ o.t \in Timers /\ o.e \in Events
    BY <1>1, Rest DEF TodoInv, Ops
  <1>3. irqs \subseteq irqs' /\ (o.op = "line" => o.v \in irqs')  BY DEF Deinit
  <1>4. Coming \subseteq Coming'  BY <1>1, <1>3, ComingKept
  <1>5. \A t \in Timers : reg[t].flags \cap reg[t].ie = {}  BY <1>1, NothingWaits
  <1> DEFINE N(r) == Reset
  <1>6. \A t \in Timers : reg'[t] = IF t = o.t THEN N(reg[t]) ELSE reg[t]
    BY <1>1, <1>2 DEF Deinit, TimersType, RegType
  <1>7. reg' = [t \in Timers |-> reg'[t]]  BY <1>1 DEF Deinit, TimersType
  <1>8. \A r \in RegType : N(r) \in RegType
    BY <1>2, NoFlags DEF Deinit, RegType, OpFits
  <1>f. \A r \in RegType : N(r).flags = {} /\ N(r).ie = {}
    BY <1>2, NoFlags DEF Deinit, RegType, OpFits
  <1> HIDE DEF N
  <1>r. \A t \in Timers : reg[t] \in RegType  BY <1>1 DEF TimersType
  <1>9. reg' \in [Timers -> RegType]  BY <1>6, <1>7, <1>8, <1>r
  <1>t0. UNCHANGED hwObj  BY DEF Deinit
  <1>t1. UNCHANGED pwmObj  BY DEF Deinit
  <1>t2. UNCHANGED fresh  BY DEF Deinit
  <1>t3. UNCHANGED tone  BY DEF Deinit
  <1>10. TimersType'
    BY <1>1, <1>2, <1>9, <1>t0, <1>t1, <1>t2, <1>t3 DEF Deinit, TimersType, OpFits
  <1>11. LinesInv'  BY <1>1, <1>4, <1>t0, <1>t1 DEF LinesInv, UpIrq, CcIrq
  <1>12. PwmInv'  BY <1>1, <1>t1 DEF PwmInv
  <1>13. EnabledInv'
    <2>1. \A t \in Timers : reg'[t].ie \subseteq reg[t].ie
      BY <1>6, <1>f, <1>r
    <2> QED  BY <1>1, <1>3, <2>1 DEF EnabledInv, LineOf, UpIrq, CcIrq
  <1>14. FreshInv'
    <2>1. \A t \in Timers : reg'[t].flags \cap reg'[t].ie = {}
      BY <1>5, <1>6, <1>f, <1>r
    <2> QED  BY <2>1 DEF FreshInv
  <1>15. ToneInv'  BY <1>1, <1>3, <1>t3 DEF ToneInv, Counting, UpIrq
  <1> QED  BY <1>3, <1>4, <1>10, <1>11, <1>12, <1>13, <1>14, <1>15

LEMMA BaseKeeps ==
    ASSUME TimersInv, ~Preempted, todo # <<>>, todo' = Tail(todo), Base(todo[1])
    PROVE  /\ TimersType' /\ LinesInv' /\ PwmInv' /\ EnabledInv'
           /\ FreshInv' /\ ToneInv' /\ Coming \subseteq Coming' /\ irqs \subseteq irqs'
  <1> DEFINE o == todo[1]
  <1>1. /\ TimersType /\ TodoInv /\ LinesInv /\ PwmInv /\ EnabledInv
        /\ FreshInv /\ EnableInv /\ ToneInv
    BY DEF TimersInv
  <1>2. o \in Ops /\ todo' \in Seq(Ops) /\ OpFits(o, Coming) /\ o.t \in Timers /\ o.e \in Events
    BY <1>1, Rest DEF TodoInv, Ops
  <1>3. irqs \subseteq irqs' /\ (o.op = "line" => o.v \in irqs')  BY DEF Base
  <1>4. Coming \subseteq Coming'  BY <1>1, <1>3, ComingKept
  <1>5. \A t \in Timers : reg[t].flags \cap reg[t].ie = {}  BY <1>1, NothingWaits
  <1> DEFINE N(r) == [r EXCEPT !.psc = o.v.psc, !.car = o.v.car, !.rep = o.v.rep, !.flags = @ \cup {Up}]
  <1>6. \A t \in Timers : reg'[t] = IF t = o.t THEN N(reg[t]) ELSE reg[t]
    BY <1>1, <1>2 DEF Base, TimersType, RegType
  <1>7. reg' = [t \in Timers |-> reg'[t]]  BY <1>1 DEF Base, TimersType
  <1>8. \A r \in RegType : N(r) \in RegType
    BY <1>2, UpIsEvent DEF Base, RegType, OpFits, BaseRegs
  <1>f. \A r \in RegType : N(r).flags = r.flags \cup {Up} /\ N(r).ie = r.ie
    BY <1>2, UpIsEvent DEF Base, RegType, OpFits
  <1> HIDE DEF N
  <1>r. \A t \in Timers : reg[t] \in RegType  BY <1>1 DEF TimersType
  <1>9. reg' \in [Timers -> RegType]  BY <1>6, <1>7, <1>8, <1>r
  <1>t0. UNCHANGED hwObj  BY DEF Base
  <1>t1. UNCHANGED pwmObj  BY DEF Base
  <1>t2. fresh' \in [Timers -> SUBSET Events]  BY <1>1, <1>2, UpIsEvent DEF Base, TimersType, OpFits, HwType, NoObject, None
  <1>t3. UNCHANGED tone  BY DEF Base
  <1>10. TimersType'
    BY <1>1, <1>2, <1>9, <1>t0, <1>t1, <1>t2, <1>t3 DEF Base, TimersType, OpFits
  <1>11. LinesInv'  BY <1>1, <1>4, <1>t0, <1>t1 DEF LinesInv, UpIrq, CcIrq
  <1>12. PwmInv'  BY <1>1, <1>t1 DEF PwmInv
  <1>13. EnabledInv'
    <2>1. \A t \in Timers : reg'[t].ie \subseteq reg[t].ie
      BY <1>6, <1>f, <1>r
    <2> QED  BY <1>1, <1>3, <2>1 DEF EnabledInv, LineOf, UpIrq, CcIrq
  <1>14. FreshInv'
    <2>1. SUFFICES ASSUME NEW t \in Timers, NEW e \in reg'[t].flags \cap reg'[t].ie
                   PROVE  e \in fresh'[t]
      BY DEF FreshInv
    <2>2. t = o.t /\ e = Up  BY <1>5, <1>6, <1>f, <1>r, <2>1
    <2> QED  BY <1>1, <2>2 DEF Base, TimersType
  <1>15. ToneInv'  BY <1>1, <1>3, <1>t3 DEF ToneInv, Counting, UpIrq
  <1> QED  BY <1>3, <1>4, <1>10, <1>11, <1>12, <1>13, <1>14, <1>15

LEMMA SwitchKeeps ==
    ASSUME TimersInv, ~Preempted, todo # <<>>, todo' = Tail(todo), Switch(todo[1])
    PROVE  /\ TimersType' /\ LinesInv' /\ PwmInv' /\ EnabledInv'
           /\ FreshInv' /\ ToneInv' /\ Coming \subseteq Coming' /\ irqs \subseteq irqs'
  <1> DEFINE o == todo[1]
  <1>1. /\ TimersType /\ TodoInv /\ LinesInv /\ PwmInv /\ EnabledInv
        /\ FreshInv /\ EnableInv /\ ToneInv
    BY DEF TimersInv
  <1>2. o \in Ops /\ todo' \in Seq(Ops) /\ OpFits(o, Coming) /\ o.t \in Timers /\ o.e \in Events
    BY <1>1, Rest DEF TodoInv, Ops
  <1>3. irqs \subseteq irqs' /\ (o.op = "line" => o.v \in irqs')  BY DEF Switch
  <1>4. Coming \subseteq Coming'  BY <1>1, <1>3, ComingKept
  <1>5. \A t \in Timers : reg[t].flags \cap reg[t].ie = {}  BY <1>1, NothingWaits
  <1> DEFINE N(r) == [r EXCEPT !.on = (o.op = "on")]
  <1>6. \A t \in Timers : reg'[t] = IF t = o.t THEN N(reg[t]) ELSE reg[t]
    BY <1>1, <1>2 DEF Switch, TimersType, RegType
  <1>7. reg' = [t \in Timers |-> reg'[t]]  BY <1>1 DEF Switch, TimersType
  <1>8. \A r \in RegType : N(r) \in RegType
    BY <1>2 DEF Switch, RegType, OpFits
  <1>f. \A r \in RegType : N(r).flags = r.flags /\ N(r).ie = r.ie
    BY <1>2 DEF Switch, RegType, OpFits
  <1> HIDE DEF N
  <1>r. \A t \in Timers : reg[t] \in RegType  BY <1>1 DEF TimersType
  <1>9. reg' \in [Timers -> RegType]  BY <1>6, <1>7, <1>8, <1>r
  <1>t0. UNCHANGED hwObj  BY DEF Switch
  <1>t1. UNCHANGED pwmObj  BY DEF Switch
  <1>t2. UNCHANGED fresh  BY DEF Switch
  <1>t3. UNCHANGED tone  BY DEF Switch
  <1>10. TimersType'
    BY <1>1, <1>2, <1>9, <1>t0, <1>t1, <1>t2, <1>t3 DEF Switch, TimersType, OpFits
  <1>11. LinesInv'  BY <1>1, <1>4, <1>t0, <1>t1 DEF LinesInv, UpIrq, CcIrq
  <1>12. PwmInv'  BY <1>1, <1>t1 DEF PwmInv
  <1>13. EnabledInv'
    <2>1. \A t \in Timers : reg'[t].ie \subseteq reg[t].ie
      BY <1>6, <1>f, <1>r
    <2> QED  BY <1>1, <1>3, <2>1 DEF EnabledInv, LineOf, UpIrq, CcIrq
  <1>14. FreshInv'
    <2>1. \A t \in Timers : reg'[t].flags \cap reg'[t].ie = {}
      BY <1>5, <1>6, <1>f, <1>r
    <2> QED  BY <2>1 DEF FreshInv
  <1>15. ToneInv'  BY <1>1, <1>3, <1>t3 DEF ToneInv, Counting, UpIrq
  <1> QED  BY <1>3, <1>4, <1>10, <1>11, <1>12, <1>13, <1>14, <1>15

LEMMA UpdateKeeps ==
    ASSUME TimersInv, ~Preempted, todo # <<>>, todo' = Tail(todo), Update(todo[1])
    PROVE  /\ TimersType' /\ LinesInv' /\ PwmInv' /\ EnabledInv'
           /\ FreshInv' /\ ToneInv' /\ Coming \subseteq Coming' /\ irqs \subseteq irqs'
  <1> DEFINE o == todo[1]
  <1>1. /\ TimersType /\ TodoInv /\ LinesInv /\ PwmInv /\ EnabledInv
        /\ FreshInv /\ EnableInv /\ ToneInv
    BY DEF TimersInv
  <1>2. o \in Ops /\ todo' \in Seq(Ops) /\ OpFits(o, Coming) /\ o.t \in Timers /\ o.e \in Events
    BY <1>1, Rest DEF TodoInv, Ops
  <1>3. irqs \subseteq irqs' /\ (o.op = "line" => o.v \in irqs')  BY DEF Update
  <1>4. Coming \subseteq Coming'  BY <1>1, <1>3, ComingKept
  <1>5. \A t \in Timers : reg[t].flags \cap reg[t].ie = {}  BY <1>1, NothingWaits
  <1>w. o.op = "prescaler" => Word(o.v - 1) \in Words  BY <1>2, WordIsWord DEF OpFits
  <1> DEFINE N(r) == [r EXCEPT !.flags = @ \cup {Up},
                                   !.psc = IF o.op = "prescaler" THEN Word(o.v - 1) ELSE @]
  <1>6. \A t \in Timers : reg'[t] = IF t = o.t THEN N(reg[t]) ELSE reg[t]
    BY <1>1, <1>2 DEF Update, TimersType, RegType
  <1>7. reg' = [t \in Timers |-> reg'[t]]  BY <1>1 DEF Update, TimersType
  <1>8. \A r \in RegType : N(r) \in RegType
    BY <1>2, UpIsEvent, <1>w DEF Update, RegType, OpFits
  <1>f. \A r \in RegType : N(r).flags = r.flags \cup {Up} /\ N(r).ie = r.ie
    BY <1>2, UpIsEvent, <1>w DEF Update, RegType, OpFits
  <1> HIDE DEF N
  <1>r. \A t \in Timers : reg[t] \in RegType  BY <1>1 DEF TimersType
  <1>9. reg' \in [Timers -> RegType]  BY <1>6, <1>7, <1>8, <1>r
  <1>t0. UNCHANGED hwObj  BY DEF Update
  <1>t1. UNCHANGED pwmObj  BY DEF Update
  <1>t2. fresh' \in [Timers -> SUBSET Events]  BY <1>1, <1>2, UpIsEvent DEF Update, TimersType, OpFits, HwType, NoObject, None
  <1>t3. UNCHANGED tone  BY DEF Update
  <1>10. TimersType'
    BY <1>1, <1>2, <1>9, <1>t0, <1>t1, <1>t2, <1>t3 DEF Update, TimersType, OpFits
  <1>11. LinesInv'  BY <1>1, <1>4, <1>t0, <1>t1 DEF LinesInv, UpIrq, CcIrq
  <1>12. PwmInv'  BY <1>1, <1>t1 DEF PwmInv
  <1>13. EnabledInv'
    <2>1. \A t \in Timers : reg'[t].ie \subseteq reg[t].ie
      BY <1>6, <1>f, <1>r
    <2> QED  BY <1>1, <1>3, <2>1 DEF EnabledInv, LineOf, UpIrq, CcIrq
  <1>14. FreshInv'
    <2>1. SUFFICES ASSUME NEW t \in Timers, NEW e \in reg'[t].flags \cap reg'[t].ie
                   PROVE  e \in fresh'[t]
      BY DEF FreshInv
    <2>2. t = o.t /\ e = Up  BY <1>5, <1>6, <1>f, <1>r, <2>1
    <2> QED  BY <1>1, <2>2 DEF Update, TimersType
  <1>15. ToneInv'  BY <1>1, <1>3, <1>t3 DEF ToneInv, Counting, UpIrq
  <1> QED  BY <1>3, <1>4, <1>10, <1>11, <1>12, <1>13, <1>14, <1>15

LEMMA ReloadKeeps ==
    ASSUME TimersInv, ~Preempted, todo # <<>>, todo' = Tail(todo), Reload(todo[1])
    PROVE  /\ TimersType' /\ LinesInv' /\ PwmInv' /\ EnabledInv'
           /\ FreshInv' /\ ToneInv' /\ Coming \subseteq Coming' /\ irqs \subseteq irqs'
  <1> DEFINE o == todo[1]
  <1>1. /\ TimersType /\ TodoInv /\ LinesInv /\ PwmInv /\ EnabledInv
        /\ FreshInv /\ EnableInv /\ ToneInv
    BY DEF TimersInv
  <1>2. o \in Ops /\ todo' \in Seq(Ops) /\ OpFits(o, Coming) /\ o.t \in Timers /\ o.e \in Events
    BY <1>1, Rest DEF TodoInv, Ops
  <1>3. irqs \subseteq irqs' /\ (o.op = "line" => o.v \in irqs')  BY DEF Reload
  <1>4. Coming \subseteq Coming'  BY <1>1, <1>3, ComingKept
  <1>5. \A t \in Timers : reg[t].flags \cap reg[t].ie = {}  BY <1>1, NothingWaits
  <1>w. Word(o.v - 1) \in Words  BY <1>2, WordIsWord DEF OpFits, Reload
  <1> DEFINE N(r) == [r EXCEPT !.car = Word(o.v - 1)]
  <1>6. \A t \in Timers : reg'[t] = IF t = o.t THEN N(reg[t]) ELSE reg[t]
    BY <1>1, <1>2 DEF Reload, TimersType, RegType
  <1>7. reg' = [t \in Timers |-> reg'[t]]  BY <1>1 DEF Reload, TimersType
  <1>8. \A r \in RegType : N(r) \in RegType
    BY <1>2, <1>w DEF Reload, RegType, OpFits
  <1>f. \A r \in RegType : N(r).flags = r.flags /\ N(r).ie = r.ie
    BY <1>2, <1>w DEF Reload, RegType, OpFits
  <1> HIDE DEF N
  <1>r. \A t \in Timers : reg[t] \in RegType  BY <1>1 DEF TimersType
  <1>9. reg' \in [Timers -> RegType]  BY <1>6, <1>7, <1>8, <1>r
  <1>t0. UNCHANGED hwObj  BY DEF Reload
  <1>t1. UNCHANGED pwmObj  BY DEF Reload
  <1>t2. UNCHANGED fresh  BY DEF Reload
  <1>t3. UNCHANGED tone  BY DEF Reload
  <1>10. TimersType'
    BY <1>1, <1>2, <1>9, <1>t0, <1>t1, <1>t2, <1>t3 DEF Reload, TimersType, OpFits
  <1>11. LinesInv'  BY <1>1, <1>4, <1>t0, <1>t1 DEF LinesInv, UpIrq, CcIrq
  <1>12. PwmInv'  BY <1>1, <1>t1 DEF PwmInv
  <1>13. EnabledInv'
    <2>1. \A t \in Timers : reg'[t].ie \subseteq reg[t].ie
      BY <1>6, <1>f, <1>r
    <2> QED  BY <1>1, <1>3, <2>1 DEF EnabledInv, LineOf, UpIrq, CcIrq
  <1>14. FreshInv'
    <2>1. \A t \in Timers : reg'[t].flags \cap reg'[t].ie = {}
      BY <1>5, <1>6, <1>f, <1>r
    <2> QED  BY <2>1 DEF FreshInv
  <1>15. ToneInv'  BY <1>1, <1>3, <1>t3 DEF ToneInv, Counting, UpIrq
  <1> QED  BY <1>3, <1>4, <1>10, <1>11, <1>12, <1>13, <1>14, <1>15

LEMMA FlagKeeps ==
    ASSUME TimersInv, ~Preempted, todo # <<>>, todo' = Tail(todo), Flag(todo[1])
    PROVE  /\ TimersType' /\ LinesInv' /\ PwmInv' /\ EnabledInv'
           /\ FreshInv' /\ ToneInv' /\ Coming \subseteq Coming' /\ irqs \subseteq irqs'
  <1> DEFINE o == todo[1]
  <1>1. /\ TimersType /\ TodoInv /\ LinesInv /\ PwmInv /\ EnabledInv
        /\ FreshInv /\ EnableInv /\ ToneInv
    BY DEF TimersInv
  <1>2. o \in Ops /\ todo' \in Seq(Ops) /\ OpFits(o, Coming) /\ o.t \in Timers /\ o.e \in Events
    BY <1>1, Rest DEF TodoInv, Ops
  <1>3. irqs \subseteq irqs' /\ (o.op = "line" => o.v \in irqs')  BY DEF Flag
  <1>4. Coming \subseteq Coming'  BY <1>1, <1>3, ComingKept
  <1>5. \A t \in Timers : reg[t].flags \cap reg[t].ie = {}  BY <1>1, NothingWaits
  <1> DEFINE N(r) == [r EXCEPT !.flags = IF o.op = "clear" THEN @ \ {o.e} ELSE @,
                                   !.ie = IF o.op = "enable" THEN @ \cup {o.e}
                                          ELSE IF o.op = "disable" THEN @ \ {o.e} ELSE @]
  <1>6. \A t \in Timers : reg'[t] = IF t = o.t THEN N(reg[t]) ELSE reg[t]
    BY <1>1, <1>2 DEF Flag, TimersType, RegType
  <1>7. reg' = [t \in Timers |-> reg'[t]]  BY <1>1 DEF Flag, TimersType
  <1>8. \A r \in RegType : N(r) \in RegType
    BY <1>2 DEF Flag, RegType, OpFits
  <1>f. \A r \in RegType : 
           /\ N(r).flags \subseteq r.flags /\ N(r).ie \subseteq r.ie \cup {o.e}
           /\ (N(r).ie \subseteq r.ie) \/ o.op = "enable"
    BY <1>2 DEF Flag, RegType, OpFits
  <1> HIDE DEF N
  <1>r. \A t \in Timers : reg[t] \in RegType  BY <1>1 DEF TimersType
  <1>9. reg' \in [Timers -> RegType]  BY <1>6, <1>7, <1>8, <1>r
  <1>t0. UNCHANGED hwObj  BY DEF Flag
  <1>t1. UNCHANGED pwmObj  BY DEF Flag
  <1>t2. UNCHANGED fresh  BY DEF Flag
  <1>t3. UNCHANGED tone  BY DEF Flag
  <1>10. TimersType'
    BY <1>1, <1>2, <1>9, <1>t0, <1>t1, <1>t2, <1>t3 DEF Flag, TimersType, OpFits
  <1>11. LinesInv'  BY <1>1, <1>4, <1>t0, <1>t1 DEF LinesInv, UpIrq, CcIrq
  <1>12. PwmInv'  BY <1>1, <1>t1 DEF PwmInv
  <1>13. EnabledInv'
    <2>1. SUFFICES ASSUME NEW t \in Timers, NEW e \in reg'[t].ie PROVE LineOf(t, e) \in irqs
      BY DEF Flag, EnabledInv, LineOf, UpIrq, CcIrq
    <2>2. e \in reg[t].ie \/ (o.op = "enable" /\ t = o.t /\ e = o.e)
      BY <1>6, <1>f, <1>r, <2>1
    <2>3. o.op = "enable" => LineOf(o.t, o.e) \in irqs
      BY <1>1, Rest DEF TodoInv
    <2> QED  BY <1>1, <2>2, <2>3 DEF EnabledInv
  <1>14. FreshInv'
    <2>1. SUFFICES ASSUME NEW t \in Timers, NEW e \in reg'[t].flags \cap reg'[t].ie
                   PROVE  e \in fresh[t]
      BY <1>t2 DEF FreshInv
    <2>2. e \in reg[t].flags /\ o.op = "enable" /\ t = o.t /\ e = o.e
      BY <1>5, <1>6, <1>f, <1>r, <2>1
    <2>3. Head(todo) = o  BY <1>1, Rest
    <2> QED  BY <1>1, <2>2, <2>3 DEF EnableInv
  <1>15. ToneInv'  BY <1>1, <1>3, <1>t3 DEF ToneInv, Counting, UpIrq
  <1> QED  BY <1>3, <1>4, <1>10, <1>11, <1>12, <1>13, <1>14, <1>15

LEMMA ChannelKeeps ==
    ASSUME TimersInv, ~Preempted, todo # <<>>, todo' = Tail(todo), Channel(todo[1])
    PROVE  /\ TimersType' /\ LinesInv' /\ PwmInv' /\ EnabledInv'
           /\ FreshInv' /\ ToneInv' /\ Coming \subseteq Coming' /\ irqs \subseteq irqs'
  <1> DEFINE o == todo[1]
  <1>1. /\ TimersType /\ TodoInv /\ LinesInv /\ PwmInv /\ EnabledInv
        /\ FreshInv /\ EnableInv /\ ToneInv
    BY DEF TimersInv
  <1>2. o \in Ops /\ todo' \in Seq(Ops) /\ OpFits(o, Coming) /\ o.t \in Timers /\ o.e \in Events
    BY <1>1, Rest DEF TodoInv, Ops
  <1>3. irqs \subseteq irqs' /\ (o.op = "line" => o.v \in irqs')  BY DEF Channel
  <1>4. Coming \subseteq Coming'  BY <1>1, <1>3, ComingKept
  <1>5. \A t \in Timers : reg[t].flags \cap reg[t].ie = {}  BY <1>1, NothingWaits
  <1>6. UNCHANGED reg  BY DEF Channel
  <1>9. reg' \in [Timers -> RegType]  BY <1>1, <1>6 DEF TimersType
  <1>t0. UNCHANGED hwObj  BY DEF Channel
  <1>t1. UNCHANGED pwmObj  BY DEF Channel
  <1>t2. UNCHANGED fresh  BY DEF Channel
  <1>t3. UNCHANGED tone  BY DEF Channel
  <1>10. TimersType'
    BY <1>1, <1>2, <1>9, <1>t0, <1>t1, <1>t2, <1>t3 DEF Channel, TimersType, OpFits
  <1>11. LinesInv'  BY <1>1, <1>4, <1>t0, <1>t1 DEF LinesInv, UpIrq, CcIrq
  <1>12. PwmInv'  BY <1>1, <1>t1 DEF PwmInv
  <1>13. EnabledInv'  BY <1>1, <1>3, <1>6 DEF EnabledInv, LineOf, UpIrq, CcIrq
  <1>14. FreshInv'  BY <1>5, <1>6 DEF FreshInv
  <1>15. ToneInv'  BY <1>1, <1>3, <1>t3 DEF ToneInv, Counting, UpIrq
  <1> QED  BY <1>3, <1>4, <1>10, <1>11, <1>12, <1>13, <1>14, <1>15

LEMMA LineKeeps ==
    ASSUME TimersInv, ~Preempted, todo # <<>>, todo' = Tail(todo), Line(todo[1])
    PROVE  /\ TimersType' /\ LinesInv' /\ PwmInv' /\ EnabledInv'
           /\ FreshInv' /\ ToneInv' /\ Coming \subseteq Coming' /\ irqs \subseteq irqs'
  <1> DEFINE o == todo[1]
  <1>1. /\ TimersType /\ TodoInv /\ LinesInv /\ PwmInv /\ EnabledInv
        /\ FreshInv /\ EnableInv /\ ToneInv
    BY DEF TimersInv
  <1>2. o \in Ops /\ todo' \in Seq(Ops) /\ OpFits(o, Coming) /\ o.t \in Timers /\ o.e \in Events
    BY <1>1, Rest DEF TodoInv, Ops
  <1>3. irqs \subseteq irqs' /\ (o.op = "line" => o.v \in irqs')  BY DEF Line
  <1>4. Coming \subseteq Coming'  BY <1>1, <1>3, ComingKept
  <1>5. \A t \in Timers : reg[t].flags \cap reg[t].ie = {}  BY <1>1, NothingWaits
  <1>6. UNCHANGED reg  BY DEF Line
  <1>9. reg' \in [Timers -> RegType]  BY <1>1, <1>6 DEF TimersType
  <1>t0. UNCHANGED hwObj  BY DEF Line
  <1>t1. UNCHANGED pwmObj  BY DEF Line
  <1>t2. UNCHANGED fresh  BY DEF Line
  <1>t3. UNCHANGED tone  BY DEF Line
  <1>10. TimersType'
    BY <1>1, <1>2, <1>9, <1>t0, <1>t1, <1>t2, <1>t3 DEF Line, TimersType, OpFits
  <1>11. LinesInv'  BY <1>1, <1>4, <1>t0, <1>t1 DEF LinesInv, UpIrq, CcIrq
  <1>12. PwmInv'  BY <1>1, <1>t1 DEF PwmInv
  <1>13. EnabledInv'  BY <1>1, <1>3, <1>6 DEF EnabledInv, LineOf, UpIrq, CcIrq
  <1>14. FreshInv'  BY <1>5, <1>6 DEF FreshInv
  <1>15. ToneInv'  BY <1>1, <1>3, <1>t3 DEF ToneInv, Counting, UpIrq
  <1> QED  BY <1>3, <1>4, <1>10, <1>11, <1>12, <1>13, <1>14, <1>15

LEMMA ConstructKeeps ==
    ASSUME TimersInv, ~Preempted, todo # <<>>, todo' = Tail(todo), Construct(todo[1])
    PROVE  /\ TimersType' /\ LinesInv' /\ PwmInv' /\ EnabledInv'
           /\ FreshInv' /\ ToneInv' /\ Coming \subseteq Coming' /\ irqs \subseteq irqs'
  <1> DEFINE o == todo[1]
  <1>1. /\ TimersType /\ TodoInv /\ LinesInv /\ PwmInv /\ EnabledInv
        /\ FreshInv /\ EnableInv /\ ToneInv
    BY DEF TimersInv
  <1>2. o \in Ops /\ todo' \in Seq(Ops) /\ OpFits(o, Coming) /\ o.t \in Timers /\ o.e \in Events
    BY <1>1, Rest DEF TodoInv, Ops
  <1>3. irqs \subseteq irqs' /\ (o.op = "line" => o.v \in irqs')  BY DEF Construct
  <1>4. Coming \subseteq Coming'  BY <1>1, <1>3, ComingKept
  <1>5. \A t \in Timers : reg[t].flags \cap reg[t].ie = {}  BY <1>1, NothingWaits
  <1>6. UNCHANGED reg  BY DEF Construct
  <1>9. reg' \in [Timers -> RegType]  BY <1>1, <1>6 DEF TimersType
  <1>t0. hwObj' \in [Timers -> HwType]
    BY <1>1, <1>2, NewObject DEF Construct, TimersType
  <1>t1. UNCHANGED pwmObj  BY DEF Construct
  <1>t2. UNCHANGED fresh  BY DEF Construct
  <1>t3. UNCHANGED tone  BY DEF Construct
  <1>10. TimersType'
    BY <1>1, <1>2, <1>9, <1>t0, <1>t1, <1>t2, <1>t3 DEF Construct, TimersType, OpFits
  <1>11. LinesInv'
    <2>1. \A t \in Timers : hwObj'[t].made => hwObj[t].made \/ t = o.t
      BY <1>1, <1>2 DEF Construct, TimersType, HwType, NoObject
    <2>2. o.op = "construct"  BY DEF Construct
    <2>3. {UpIrq(o.t), CcIrq(o.t)} \subseteq Coming  BY <1>2, <2>2 DEF OpFits
    <2>4. \A t \in Timers : hwObj'[t].made => {UpIrq(t), CcIrq(t)} \subseteq Coming'
      BY <1>1, <1>4, <2>1, <2>3 DEF LinesInv
    <2>5. \A t \in Timers, c \in Channels : pwmObj'[t][c].alive => CcIrq(t) \in Coming'
      BY <1>1, <1>4, <1>t1 DEF LinesInv
    <2> QED  BY <2>4, <2>5 DEF LinesInv, UpIrq, CcIrq
  <1>12. PwmInv'  BY <1>1, <1>t1 DEF PwmInv
  <1>13. EnabledInv'  BY <1>1, <1>3, <1>6 DEF EnabledInv, LineOf, UpIrq, CcIrq
  <1>14. FreshInv'  BY <1>5, <1>6 DEF FreshInv
  <1>15. ToneInv'  BY <1>1, <1>3, <1>t3 DEF ToneInv, Counting, UpIrq
  <1> QED  BY <1>3, <1>4, <1>10, <1>11, <1>12, <1>13, <1>14, <1>15

LEMMA CallbackKeeps ==
    ASSUME TimersInv, ~Preempted, todo # <<>>, todo' = Tail(todo), Callback(todo[1])
    PROVE  /\ TimersType' /\ LinesInv' /\ PwmInv' /\ EnabledInv'
           /\ FreshInv' /\ ToneInv' /\ Coming \subseteq Coming' /\ irqs \subseteq irqs'
  <1> DEFINE o == todo[1]
  <1>1. /\ TimersType /\ TodoInv /\ LinesInv /\ PwmInv /\ EnabledInv
        /\ FreshInv /\ EnableInv /\ ToneInv
    BY DEF TimersInv
  <1>2. o \in Ops /\ todo' \in Seq(Ops) /\ OpFits(o, Coming) /\ o.t \in Timers /\ o.e \in Events
    BY <1>1, Rest DEF TodoInv, Ops
  <1>3. irqs \subseteq irqs' /\ (o.op = "line" => o.v \in irqs')  BY DEF Callback
  <1>4. Coming \subseteq Coming'  BY <1>1, <1>3, ComingKept
  <1>5. \A t \in Timers : reg[t].flags \cap reg[t].ie = {}  BY <1>1, NothingWaits
  <1>6. UNCHANGED reg  BY DEF Callback
  <1>9. reg' \in [Timers -> RegType]  BY <1>1, <1>6 DEF TimersType
  <1>t0. hwObj' \in [Timers -> HwType]  BY <1>1, <1>2, UpIsEvent DEF Callback, TimersType, OpFits, HwType, NoObject, None
  <1>t1. UNCHANGED pwmObj  BY DEF Callback
  <1>t2. fresh' \in [Timers -> SUBSET Events]  BY <1>1, <1>2, UpIsEvent DEF Callback, TimersType, OpFits, HwType, NoObject, None
  <1>t3. UNCHANGED tone  BY DEF Callback
  <1>10. TimersType'
    BY <1>1, <1>2, <1>9, <1>t0, <1>t1, <1>t2, <1>t3 DEF Callback, TimersType, OpFits
  <1>11. LinesInv'
    <2>1. \A t \in Timers : hwObj'[t].made = hwObj[t].made
      BY <1>1, <1>2 DEF Callback, TimersType, HwType
    <2> QED  BY <1>1, <1>4, <1>t1, <2>1 DEF LinesInv, UpIrq, CcIrq
  <1>12. PwmInv'  BY <1>1, <1>t1 DEF PwmInv
  <1>13. EnabledInv'  BY <1>1, <1>3, <1>6 DEF EnabledInv, LineOf, UpIrq, CcIrq
  <1>14. FreshInv'  BY <1>5, <1>6 DEF FreshInv
  <1>15. ToneInv'  BY <1>1, <1>3, <1>t3 DEF ToneInv, Counting, UpIrq
  <1> QED  BY <1>3, <1>4, <1>10, <1>11, <1>12, <1>13, <1>14, <1>15

LEMMA PwmFieldKeeps ==
    ASSUME TimersInv, ~Preempted, todo # <<>>, todo' = Tail(todo), PwmField(todo[1])
    PROVE  /\ TimersType' /\ LinesInv' /\ PwmInv' /\ EnabledInv'
           /\ FreshInv' /\ ToneInv' /\ Coming \subseteq Coming' /\ irqs \subseteq irqs'
  <1> DEFINE o == todo[1]
  <1>1. /\ TimersType /\ TodoInv /\ LinesInv /\ PwmInv /\ EnabledInv
        /\ FreshInv /\ EnableInv /\ ToneInv
    BY DEF TimersInv
  <1>2. o \in Ops /\ todo' \in Seq(Ops) /\ OpFits(o, Coming) /\ o.t \in Timers /\ o.e \in Events
    BY <1>1, Rest DEF TodoInv, Ops
  <1>3. irqs \subseteq irqs' /\ (o.op = "line" => o.v \in irqs')  BY DEF PwmField
  <1>4. Coming \subseteq Coming'  BY <1>1, <1>3, ComingKept
  <1>5. \A t \in Timers : reg[t].flags \cap reg[t].ie = {}  BY <1>1, NothingWaits
  <1>6. UNCHANGED reg  BY DEF PwmField
  <1>9. reg' \in [Timers -> RegType]  BY <1>1, <1>6 DEF TimersType
  <1>t0. UNCHANGED hwObj  BY DEF PwmField
  <1>t1. pwmObj' \in [Timers -> [Channels -> PwmType]]  BY <1>1, <1>2, UpIsEvent DEF PwmField, TimersType, OpFits, HwType, NoObject, None
  <1>t2. fresh' \in [Timers -> SUBSET Events]  BY <1>1, <1>2, UpIsEvent DEF PwmField, TimersType, OpFits, HwType, NoObject, None
  <1>t3. UNCHANGED tone  BY DEF PwmField
  <1>10. TimersType'
    BY <1>1, <1>2, <1>9, <1>t0, <1>t1, <1>t2, <1>t3 DEF PwmField, TimersType, OpFits
  <1>11. LinesInv'
    <2>1. \A t \in Timers, c \in Channels :
             pwmObj'[t][c] = IF t = o.t /\ c = o.e THEN o.v ELSE pwmObj[t][c]
      BY <1>1, <1>2 DEF PwmField, TimersType, OpFits
    <2>2. o.op = "pwm"  BY DEF PwmField
    <2>3. CcIrq(o.t) \in Coming  BY <1>2, <2>2 DEF OpFits
    <2>4. \A t \in Timers : hwObj'[t].made => {UpIrq(t), CcIrq(t)} \subseteq Coming'
      BY <1>1, <1>4, <1>t0 DEF LinesInv
    <2>5. \A t \in Timers, c \in Channels : pwmObj'[t][c].alive => CcIrq(t) \in Coming'
      BY <1>1, <1>4, <2>1, <2>3 DEF LinesInv
    <2> QED  BY <2>4, <2>5 DEF LinesInv, UpIrq, CcIrq
  <1>12. PwmInv'  BY <1>1, <1>2 DEF PwmField, TimersType, PwmInv, OpFits, Exists
  <1>13. EnabledInv'  BY <1>1, <1>3, <1>6 DEF EnabledInv, LineOf, UpIrq, CcIrq
  <1>14. FreshInv'  BY <1>5, <1>6 DEF FreshInv
  <1>15. ToneInv'  BY <1>1, <1>3, <1>t3 DEF ToneInv, Counting, UpIrq
  <1> QED  BY <1>3, <1>4, <1>10, <1>11, <1>12, <1>13, <1>14, <1>15

LEMMA TimedKeeps ==
    ASSUME TimersInv, ~Preempted, todo # <<>>, todo' = Tail(todo), Timed(todo[1])
    PROVE  /\ TimersType' /\ LinesInv' /\ PwmInv' /\ EnabledInv'
           /\ FreshInv' /\ ToneInv' /\ Coming \subseteq Coming' /\ irqs \subseteq irqs'
  <1> DEFINE o == todo[1]
  <1>1. /\ TimersType /\ TodoInv /\ LinesInv /\ PwmInv /\ EnabledInv
        /\ FreshInv /\ EnableInv /\ ToneInv
    BY DEF TimersInv
  <1>2. o \in Ops /\ todo' \in Seq(Ops) /\ OpFits(o, Coming) /\ o.t \in Timers /\ o.e \in Events
    BY <1>1, Rest DEF TodoInv, Ops
  <1>3. irqs \subseteq irqs' /\ (o.op = "line" => o.v \in irqs')  BY DEF Timed
  <1>4. Coming \subseteq Coming'  BY <1>1, <1>3, ComingKept
  <1>5. \A t \in Timers : reg[t].flags \cap reg[t].ie = {}  BY <1>1, NothingWaits
  <1>6. UNCHANGED reg  BY DEF Timed
  <1>9. reg' \in [Timers -> RegType]  BY <1>1, <1>6 DEF TimersType
  <1>t0. UNCHANGED hwObj  BY DEF Timed
  <1>t1. UNCHANGED pwmObj  BY DEF Timed
  <1>t2. UNCHANGED fresh  BY DEF Timed
  <1>t3. UNCHANGED tone  BY DEF Timed
  <1>10. TimersType'
    BY <1>1, <1>2, <1>9, <1>t0, <1>t1, <1>t2, <1>t3 DEF Timed, TimersType, OpFits
  <1>11. LinesInv'  BY <1>1, <1>4, <1>t0, <1>t1 DEF LinesInv, UpIrq, CcIrq
  <1>12. PwmInv'  BY <1>1, <1>t1 DEF PwmInv
  <1>13. EnabledInv'  BY <1>1, <1>3, <1>6 DEF EnabledInv, LineOf, UpIrq, CcIrq
  <1>14. FreshInv'  BY <1>5, <1>6 DEF FreshInv
  <1>15. ToneInv'  BY <1>1, <1>3, <1>t3 DEF ToneInv, Counting, UpIrq
  <1> QED  BY <1>3, <1>4, <1>10, <1>11, <1>12, <1>13, <1>14, <1>15

LEMMA ToneFieldKeeps ==
    ASSUME TimersInv, ~Preempted, todo # <<>>, todo' = Tail(todo), ToneField(todo[1])
    PROVE  /\ TimersType' /\ LinesInv' /\ PwmInv' /\ EnabledInv'
           /\ FreshInv' /\ ToneInv' /\ Coming \subseteq Coming' /\ irqs \subseteq irqs'
  <1> DEFINE o == todo[1]
  <1>1. /\ TimersType /\ TodoInv /\ LinesInv /\ PwmInv /\ EnabledInv
        /\ FreshInv /\ EnableInv /\ ToneInv
    BY DEF TimersInv
  <1>2. o \in Ops /\ todo' \in Seq(Ops) /\ OpFits(o, Coming) /\ o.t \in Timers /\ o.e \in Events
    BY <1>1, Rest DEF TodoInv, Ops
  <1>3. irqs \subseteq irqs' /\ (o.op = "line" => o.v \in irqs')  BY DEF ToneField
  <1>4. Coming \subseteq Coming'  BY <1>1, <1>3, ComingKept
  <1>5. \A t \in Timers : reg[t].flags \cap reg[t].ie = {}  BY <1>1, NothingWaits
  <1>6. UNCHANGED reg  BY DEF ToneField
  <1>9. reg' \in [Timers -> RegType]  BY <1>1, <1>6 DEF TimersType
  <1>t0. UNCHANGED hwObj  BY DEF ToneField
  <1>t1. UNCHANGED pwmObj  BY DEF ToneField
  <1>t2. UNCHANGED fresh  BY DEF ToneField
  <1>t3. tone' \in ToneType  BY <1>1, <1>2, UpIsEvent DEF ToneField, TimersType, OpFits, HwType, NoObject, None
  <1>10. TimersType'
    BY <1>1, <1>2, <1>9, <1>t0, <1>t1, <1>t2, <1>t3 DEF ToneField, TimersType, OpFits
  <1>11. LinesInv'  BY <1>1, <1>4, <1>t0, <1>t1 DEF LinesInv, UpIrq, CcIrq
  <1>12. PwmInv'  BY <1>1, <1>t1 DEF PwmInv
  <1>13. EnabledInv'  BY <1>1, <1>3, <1>6 DEF EnabledInv, LineOf, UpIrq, CcIrq
  <1>14. FreshInv'  BY <1>5, <1>6 DEF FreshInv
  <1>15. ToneInv'  BY <1>1, <1>2, <1>3 DEF ToneField, OpFits, ToneInv, Counting, UpIrq
  <1> QED  BY <1>3, <1>4, <1>10, <1>11, <1>12, <1>13, <1>14, <1>15

\* After an operation of a call: the event enabled next was just cleared.
LEMMA EnableAfterClear ==
    ASSUME TimersType, TodoInv, Step
    PROVE  EnableInv'
  <1>1. SUFFICES ASSUME todo' # <<>>, Head(todo').op = "enable"
                 PROVE  Head(todo').e \notin reg'[Head(todo').t].flags
    BY DEF EnableInv
  <1>2. todo # <<>> /\ todo' = Tail(todo)  BY DEF Step
  <1>3. /\ Head(todo) = todo[1] /\ Head(todo') = todo[2] /\ 2 \in 2..Len(todo)
        /\ todo[1] \in Ops /\ todo[2] \in Ops
    <2>1. 1 \in 1..Len(todo') /\ todo'[1] = todo[2]
      BY <1>1, <1>2, Rest
    <2> QED  BY <1>1, <1>2, <2>1, Rest DEF TimersType
  <1>4. Cleared(todo[2 - 1], todo[2]) /\ 2 - 1 = 1  BY <1>3 DEF TodoInv
  <1>5. todo[1].op = "clear" /\ todo[1].t = todo[2].t /\ todo[1].e = todo[2].e /\ todo[1].t \in Timers
    BY <1>1, <1>3, <1>4 DEF Cleared, Ops
  <1>6. Flag(todo[1])
    BY <1>3, <1>5 DEF Step, Deinit, Base, Switch, Update, Reload, Channel, Line, Construct, Callback,
                      PwmField, Timed, ToneField
  <1>7. reg'[todo[1].t].flags = reg[todo[1].t].flags \ {todo[1].e}
    BY <1>5, <1>6 DEF Flag, TimersType, RegType
  <1> QED  BY <1>3, <1>5, <1>7

LEMMA StepKeeps ==
    ASSUME TimersInv, Step
    PROVE  TimersInv'
  <1>1. TimersType /\ TodoInv  BY DEF TimersInv
  <1>2. ~Preempted /\ todo # <<>> /\ todo' = Tail(todo) /\ Head(todo) = todo[1]  BY <1>1, Rest DEF Step
  <1>3. /\ TimersType' /\ LinesInv' /\ PwmInv' /\ EnabledInv'
        /\ FreshInv' /\ ToneInv' /\ Coming \subseteq Coming' /\ irqs \subseteq irqs'
    BY <1>2, DeinitKeeps, BaseKeeps, SwitchKeeps, UpdateKeeps, ReloadKeeps, FlagKeeps, ChannelKeeps, LineKeeps, ConstructKeeps, CallbackKeeps, PwmFieldKeeps, TimedKeeps, ToneFieldKeeps DEF Step
  <1>4. TodoInv'  BY <1>1, <1>2, <1>3, TodoStep
  <1>5. EnableInv'  BY <1>1, EnableAfterClear
  <1> QED  BY <1>3, <1>4, <1>5 DEF TimersInv

-----------------------------------------------------------------------------
(* Calls.                                                                    *)

\* The operations of a call, or a part of them, where the lines are these.
Fit(ops, lines) ==
    /\ ops \in Seq(Ops)
    /\ \A i \in 1..Len(ops) : OpFits(ops[i], lines)
    /\ \A i \in 1..Len(ops) : ops[i].op = "enable" =>
          /\ LineOf(ops[i].t, ops[i].e) \in irqs
          /\ i > 1 /\ Cleared(ops[i - 1], ops[i])

LEMMA FitConcat ==
    ASSUME NEW a, NEW b, NEW lines, Fit(a, lines), Fit(b, lines)
    PROVE  Fit(a \o b, lines)
  <1> DEFINE s == a \o b
  <1>1. a \in Seq(Ops) /\ b \in Seq(Ops)  BY DEF Fit
  <1>2. /\ s \in Seq(Ops) /\ Len(s) = Len(a) + Len(b)
        /\ \A i \in 1..Len(a) + Len(b) : s[i] = IF i <= Len(a) THEN a[i] ELSE b[i - Len(a)]
    BY <1>1, ConcatProperties
  <1>3. Len(a) \in Nat /\ Len(b) \in Nat  BY <1>1
  <1> HIDE DEF s
  <1>4. \A i \in 1..Len(s) : \/ i \in 1..Len(a) /\ s[i] = a[i]
                             \/ i - Len(a) \in 1..Len(b) /\ s[i] = b[i - Len(a)]
    BY <1>2, <1>3
  <1>5. \A i \in 1..Len(s) : OpFits(s[i], lines)  BY <1>4 DEF Fit
  <1>6. ASSUME NEW i \in 1..Len(s), s[i].op = "enable"
        PROVE  LineOf(s[i].t, s[i].e) \in irqs /\ i > 1 /\ Cleared(s[i - 1], s[i])
    <2>1. CASE i \in 1..Len(a) /\ s[i] = a[i]
      <3>1. LineOf(a[i].t, a[i].e) \in irqs /\ i > 1 /\ Cleared(a[i - 1], a[i])  BY <1>6, <2>1 DEF Fit
      <3>2. i - 1 \in 1..Len(a) + Len(b) /\ i - 1 <= Len(a)  BY <1>3, <2>1, <3>1
      <3>3. s[i - 1] = a[i - 1]  BY <1>2, <3>2
      <3> QED  BY <2>1, <3>1, <3>3
    <2>2. CASE i - Len(a) \in 1..Len(b) /\ s[i] = b[i - Len(a)]
      <3> DEFINE j == i - Len(a)
      <3>1. LineOf(b[j].t, b[j].e) \in irqs /\ j > 1 /\ Cleared(b[j - 1], b[j])  BY <1>6, <2>2 DEF Fit
      <3>2. i - 1 \in 1..Len(a) + Len(b) /\ ~(i - 1 <= Len(a)) /\ (i - 1) - Len(a) = j - 1 /\ i > 1
        BY <1>3, <2>2, <3>1
      <3>3. s[i - 1] = b[j - 1]  BY <1>2, <3>2
      <3> QED  BY <2>2, <3>1, <3>2, <3>3
    <2> QED  BY <1>4, <2>1, <2>2
  <1>7. Fit(s, lines)  BY <1>2, <1>5, <1>6 DEF Fit
  <1> QED  BY <1>7 DEF s

\* A call whose operations fit keeps the invariant.
LEMMA CallKeeps ==
    ASSUME TimersInv, NEW ops, NEW lines, Call(ops), Fit(ops, lines),
           lines \subseteq irqs \cup LinesIn(ops)
    PROVE  TimersInv'
  <1>1. /\ TimersType /\ TodoInv /\ LinesInv /\ PwmInv /\ EnabledInv
        /\ FreshInv /\ EnableInv /\ ToneInv
    BY DEF TimersInv
  <1>2. /\ todo = <<>> /\ todo' = ops
        /\ UNCHANGED <<reg, chan, irqs, hwObj, pwmObj, tone, timing, fresh, called>>
    BY DEF Call
  <1>3. ops \in Seq(Ops) /\ \A i \in 1..Len(ops) : OpFits(ops[i], lines)  BY DEF Fit
  <1>4. LinesIn(todo) = {}  BY <1>2 DEF LinesIn
  <1>5. Coming = irqs /\ Coming' = irqs \cup LinesIn(ops)  BY <1>2, <1>4 DEF Coming
  <1>6. TimersType'  BY <1>1, <1>2, <1>3 DEF TimersType
  <1>7. TodoInv'
    <2>1. \A i \in 1..Len(todo') : OpFits(todo'[i], Coming')  BY <1>2, <1>3, <1>5, LinesGrow
    <2>2. \A i \in 1..Len(todo') : todo'[i].op = "enable" => LineOf(todo'[i].t, todo'[i].e) \in irqs'
      BY <1>2 DEF Fit
    <2>3. \A i \in 2..Len(todo') : Cleared(todo'[i - 1], todo'[i])
      <3>1. \A i \in 2..Len(ops) : i \in 1..Len(ops)  BY <1>3
      <3>2. \A i \in 1..Len(ops) : ops[i].op # "enable" => Cleared(ops[i - 1], ops[i])
        BY DEF Cleared
      <3> QED  BY <1>2, <3>1, <3>2 DEF Fit
    <2> QED  BY <2>1, <2>2, <2>3 DEF TodoInv, LineOf, UpIrq, CcIrq
  <1>8. LinesInv'  BY <1>1, <1>2, <1>5 DEF LinesInv, UpIrq, CcIrq
  <1>9. PwmInv' /\ EnabledInv' /\ FreshInv' /\ ToneInv'
    BY <1>1, <1>2 DEF PwmInv, EnabledInv, FreshInv, ToneInv, Counting, LineOf, UpIrq, CcIrq
  <1>10. EnableInv'
    <2>1. SUFFICES ASSUME ops # <<>> PROVE Head(ops).op # "enable"  BY <1>2 DEF EnableInv
    <2>2. 1 \in 1..Len(ops) /\ Head(ops) = ops[1]  BY <1>3, <2>1
    <2> QED  BY <2>2 DEF Fit
  <1> QED  BY <1>6, <1>7, <1>8, <1>9, <1>10 DEF TimersInv

\* When nothing is left to do, the lines of an object that was made are enabled.
LEMMA LinesReady ==
    ASSUME TimersInv, todo = <<>>
    PROVE  /\ \A t \in Timers : hwObj[t].made => {UpIrq(t), CcIrq(t)} \subseteq irqs
           /\ \A t \in Timers, c \in Channels : pwmObj[t][c].alive => CcIrq(t) \in irqs
  <1>1. LinesIn(todo) = {}  BY DEF LinesIn
  <1>2. Coming = irqs  BY <1>1 DEF Coming
  <1> QED  BY <1>2 DEF TimersInv, LinesInv

-----------------------------------------------------------------------------
(* The pieces calls are made of.                                             *)

\* An operation that can stand anywhere in a call.
Plain(o, lines) == o \in Ops /\ OpFits(o, lines) /\ o.op # "enable"

LEMMA FitOne ==
    ASSUME NEW a, NEW lines, Plain(a, lines)
    PROVE  Fit(<<a>>, lines)
  <1>1. a \in Ops  BY DEF Plain
  <1>2. <<a>> \in Seq(Ops) /\ Len(<<a>>) = 1 /\ <<a>>[1] = a  BY <1>1
  <1> QED  BY <1>2 DEF Fit, Plain

LEMMA FitTwo ==
    ASSUME NEW a, NEW b, NEW lines, Plain(a, lines), Plain(b, lines)
    PROVE  Fit(<<a, b>>, lines)
  <1>1. a \in Ops /\ b \in Ops  BY DEF Plain
  <1>2. <<a, b>> \in Seq(Ops) /\ Len(<<a, b>>) = 2 /\ <<a, b>>[1] = a /\ <<a, b>>[2] = b  BY <1>1
  <1> QED  BY <1>2 DEF Fit, Plain

LEMMA FitThree ==
    ASSUME NEW a, NEW b, NEW c, NEW lines, Plain(a, lines), Plain(b, lines), Plain(c, lines)
    PROVE  Fit(<<a, b, c>>, lines)
  <1> DEFINE s == <<a, b, c>>
  <1>1. a \in Ops /\ b \in Ops /\ c \in Ops  BY DEF Plain
  <1>2. s \in Seq(Ops) /\ Len(s) = 3 /\ s[1] = a /\ s[2] = b /\ s[3] = c  BY <1>1
  <1> HIDE DEF s
  <1>3. Fit(s, lines)  BY <1>2 DEF Fit, Plain
  <1> QED  BY <1>3 DEF s

LEMMA FitFour ==
    ASSUME NEW a, NEW b, NEW c, NEW d, NEW lines,
           Plain(a, lines), Plain(b, lines), Plain(c, lines), Plain(d, lines)
    PROVE  Fit(<<a, b, c, d>>, lines)
  <1> DEFINE s == <<a, b, c, d>>
  <1>1. a \in Ops /\ b \in Ops /\ c \in Ops /\ d \in Ops  BY DEF Plain
  <1>2. s \in Seq(Ops) /\ Len(s) = 4 /\ s[1] = a /\ s[2] = b /\ s[3] = c /\ s[4] = d  BY <1>1
  <1> HIDE DEF s
  <1>3. Fit(s, lines)  BY <1>2 DEF Fit, Plain
  <1> QED  BY <1>3 DEF s

LEMMA FitEight ==
    ASSUME NEW a, NEW b, NEW c, NEW d, NEW e, NEW f, NEW g, NEW h, NEW lines,
           Plain(a, lines), Plain(b, lines), Plain(c, lines), Plain(d, lines),
           Plain(e, lines), Plain(f, lines), Plain(g, lines), Plain(h, lines)
    PROVE  Fit(<<a, b, c, d, e, f, g, h>>, lines)
  <1> DEFINE s == <<a, b, c, d, e, f, g, h>>
  <1>1. /\ a \in Ops /\ b \in Ops /\ c \in Ops /\ d \in Ops
        /\ e \in Ops /\ f \in Ops /\ g \in Ops /\ h \in Ops
    BY DEF Plain
  <1>2. s \in Seq(Ops) /\ Len(s) = 8  BY <1>1
  <1>3. s[1] = a /\ s[2] = b /\ s[3] = c /\ s[4] = d /\ s[5] = e /\ s[6] = f /\ s[7] = g /\ s[8] = h
    OBVIOUS
  <1> HIDE DEF s
  <1>4. \A i \in 1..8 : Plain(s[i], lines)  BY <1>3
  <1>5. Fit(s, lines)  BY <1>2, <1>4 DEF Fit, Plain
  <1> QED  BY <1>5 DEF s

\* A flag is cleared and its event enabled.
LEMMA FitEnable ==
    ASSUME NEW t \in Timers, NEW e \in Events, NEW lines,
           LineOf(t, e) \in irqs, irqs \subseteq lines
    PROVE  Fit(EnableIT(t, e), lines)
  <1> DEFINE a == EventOp("clear", t, e)  b == EventOp("enable", t, e)  s == <<a, b>>
  <1>1. a \in Ops /\ b \in Ops  BY DEF EventOp, Ops, OpNames, Values, Whose
  <1>2. s \in Seq(Ops) /\ Len(s) = 2 /\ s[1] = a /\ s[2] = b  BY <1>1
  <1>3. OpFits(a, lines) /\ OpFits(b, lines) /\ a.op # "enable"  BY DEF OpFits, EventOp
  <1>4. Cleared(a, b) /\ b.t = t /\ b.e = e  BY DEF Cleared, EventOp
  <1> HIDE DEF a, b, s
  <1>5. \A i \in 1..2 : i = 1 \/ i = 2  OBVIOUS
  <1>6. 2 - 1 = 1 /\ 2 > 1  OBVIOUS
  <1>7. Fit(s, lines)  BY <1>2, <1>3, <1>4, <1>5, <1>6 DEF Fit
  <1> QED  BY <1>7 DEF EnableIT, s, a, b

LEMMA LinesConcat ==
    ASSUME NEW a \in Seq(Ops), NEW b \in Seq(Ops)
    PROVE  LinesIn(a) \cup LinesIn(b) \subseteq LinesIn(a \o b)
  <1> DEFINE s == a \o b
  <1>1. /\ s \in Seq(Ops) /\ Len(s) = Len(a) + Len(b)
        /\ \A i \in 1..Len(a) + Len(b) : s[i] = IF i <= Len(a) THEN a[i] ELSE b[i - Len(a)]
    BY ConcatProperties
  <1>2. Len(a) \in Nat /\ Len(b) \in Nat  OBVIOUS
  <1> HIDE DEF s
  <1>3. ASSUME NEW i \in 1..Len(a), a[i].op = "line" PROVE a[i].v \in LinesIn(s)
    <2>1. i \in 1..Len(s) /\ s[i] = a[i]  BY <1>1, <1>2
    <2> QED  BY <1>3, <2>1 DEF LinesIn
  <1>4. ASSUME NEW i \in 1..Len(b), b[i].op = "line" PROVE b[i].v \in LinesIn(s)
    <2>1. i + Len(a) \in 1..Len(s) /\ ~(i + Len(a) <= Len(a)) /\ (i + Len(a)) - Len(a) = i  BY <1>1, <1>2
    <2>2. s[i + Len(a)] = b[i]  BY <1>1, <2>1
    <2> QED  BY <1>4, <2>1, <2>2 DEF LinesIn
  <1>5. LinesIn(a) \subseteq LinesIn(s)  BY <1>3 DEF LinesIn
  <1>6. LinesIn(b) \subseteq LinesIn(s)  BY <1>4 DEF LinesIn
  <1> QED  BY <1>5, <1>6 DEF s

-----------------------------------------------------------------------------
(* What the calls compute.                                                   *)

LEMMA RegistersFit ==
    \A psc, car \in Int, rep \in Nat : Registers(psc, car, rep) \in BaseRegs
  BY WordIsWord DEF Registers, BaseRegs

LEMMA Quotient == \A a \in Int, b \in Nat \ {0} : a \div b \in Int
  OBVIOUS

LEMMA QuotientNat == \A a \in Nat, b \in Nat \ {0} : a \div b \in Nat
  OBVIOUS

LEMMA PeriodFits ==
    ASSUME NEW time \in Nat \ {0}, NEW format \in Units
    PROVE  PeriodRegisters(time, format) \in BaseRegs /\ PwmRegisters(time, format) \in BaseRegs
  <1>1. Clock \in Nat  BY TimersAssumption
  <1> DEFINE c == Clock \div time  f == c \div 65536 + 1  q == c \div f
  <1>2. c \in Nat  BY <1>1, QuotientNat
  <1>3. c \div 65536 \in Nat  BY <1>2, QuotientNat
  <1>4. f \in Nat \ {0}  BY <1>3
  <1>5. q \in Int /\ f - 1 \in Int  BY <1>2, <1>4, Quotient
  <1>6. HzRegisters(time) \in BaseRegs
    <2>1. HzRegisters(time) = Registers(f - 1, q, 0)  BY DEF HzRegisters
    <2> QED  BY <1>5, <2>1, RegistersFit
  <1>7. Clock \div 1000000 - 1 \in Int /\ Clock \div 10000 - 1 \in Int  BY <1>1, Quotient
  <1>8. time - 1 \in Int /\ time * 10 - 1 \in Int /\ time * 40 - 1 \in Int /\ time * 40 \in Int  OBVIOUS
  <1> HIDE DEF c, f, q
  <1>9. PeriodRegisters(time, format) \in BaseRegs
    BY <1>6, <1>7, <1>8, RegistersFit DEF PeriodRegisters, Units
  <1> QED  BY <1>7, <1>8, <1>9, RegistersFit DEF PwmRegisters

LEMMA CompareFits ==
    ASSUME NEW cycle \in Nat, NEW format \in Units \ {"tick"}, NEW car \in Words
    PROVE  CompareValue(cycle, format, car) \in Int
  <1>1. cycle * (car + 1) \in Int  BY DEF Words
  <1>2. (cycle * (car + 1)) \div 100 \in Int  BY <1>1, Quotient
  <1> QED  BY <1>2 DEF CompareValue, Units

LEMMA ToneCounts ==
    ASSUME NEW frequency \in Tones, NEW duration \in Lasts
    PROVE  ToneCount(frequency, duration) \in Int /\ ToneCount(frequency, duration) >= -1
  <1>1. frequency \in Nat /\ duration \in Nat  BY TimersAssumption
  <1>2. 2 * frequency * duration \in Nat  BY <1>1
  <1>3. (2 * frequency * duration) \div 1000 \in Nat  BY <1>2, QuotientNat
  <1> QED  BY <1>3 DEF ToneCount

-----------------------------------------------------------------------------
(* Operations that fit.                                                      *)

LEMMA SwitchesFit ==
    ASSUME NEW t \in Timers, NEW lines
    PROVE  \A name \in {"deinit", "on", "off", "refresh"} : Plain(Op(name, t), lines)
  <1>1. None \in Values /\ Up \in Events  BY UpIsEvent DEF Values, Whose
  <1> QED  BY <1>1 DEF Plain, OpFits, Ops, OpNames, Op

LEMMA FlagsFit ==
    ASSUME NEW t \in Timers, NEW e \in Events, NEW lines
    PROVE  \A name \in {"clear", "disable"} : Plain(EventOp(name, t, e), lines)
  <1>1. None \in Values  BY DEF Values, Whose
  <1> QED  BY <1>1 DEF Plain, OpFits, Ops, OpNames, EventOp

LEMMA LineFits ==
    ASSUME NEW t \in Timers, NEW lines
    PROVE  Plain(ValueOp("line", t, Up, UpIrq(t)), lines) /\ Plain(ValueOp("line", t, Up, CcIrq(t)), lines)
  <1>1. UpIrq(t) \in Lines /\ CcIrq(t) \in Lines  BY DEF UpIrq, CcIrq, Lines
  <1>2. UpIrq(t) \in Values /\ CcIrq(t) \in Values /\ Up \in Events  BY <1>1, UpIsEvent DEF Values
  <1> QED  BY <1>1, <1>2 DEF Plain, OpFits, Ops, OpNames, ValueOp

LEMMA BaseFits ==
    ASSUME NEW t \in Timers, NEW v \in BaseRegs, NEW lines
    PROVE  Plain(ValueOp("base", t, Up, v), lines)
  <1>1. v \in Values /\ Up \in Events  BY UpIsEvent DEF Values
  <1> QED  BY <1>1 DEF Plain, OpFits, Ops, OpNames, ValueOp

LEMMA TimingFits ==
    ASSUME NEW t \in Timers, NEW v \in UserType, NEW lines
    PROVE  Plain(ValueOp("timing", t, Up, v), lines)
  <1>1. v \in Values /\ Up \in Events  BY UpIsEvent DEF Values
  <1> QED  BY <1>1 DEF Plain, OpFits, Ops, OpNames, ValueOp

LEMMA NumberFits ==
    ASSUME NEW t \in Timers, NEW e \in Events, NEW v \in Int, NEW lines
    PROVE  \A name \in {"prescaler", "reload", "pulse"} : Plain(ValueOp(name, t, e, v), lines)
  <1>1. v \in Values  BY DEF Values
  <1> QED  BY <1>1 DEF Plain, OpFits, Ops, OpNames, ValueOp

LEMMA OutFits ==
    ASSUME NEW t \in Timers, NEW e \in Events, NEW v \in BOOLEAN, NEW lines
    PROVE  Plain(ValueOp("out", t, e, v), lines)
  <1>1. v \in Values  BY DEF Values
  <1> QED  BY <1>1 DEF Plain, OpFits, Ops, OpNames, ValueOp

LEMMA ModeFits ==
    ASSUME NEW t \in Timers, NEW e \in Events, NEW v \in Modes, NEW lines
    PROVE  Plain(ValueOp("mode", t, e, v), lines)
  <1>1. v \in Values  BY DEF Values
  <1> QED  BY <1>1 DEF Plain, OpFits, Ops, OpNames, ValueOp

LEMMA CallbackFits ==
    ASSUME NEW t \in Timers, NEW e \in Events, NEW v \in Whose, NEW lines
    PROVE  Plain(ValueOp("callback", t, e, v), lines)
  <1>1. v \in Values  BY DEF Values
  <1> QED  BY <1>1 DEF Plain, OpFits, Ops, OpNames, ValueOp

LEMMA ConstructFits ==
    ASSUME NEW t \in Timers, NEW lines, {UpIrq(t), CcIrq(t)} \subseteq lines
    PROVE  Plain(Op("construct", t), lines)
  <1>1. None \in Values /\ Up \in Events  BY UpIsEvent DEF Values, Whose
  <1>2. Op("construct", t).t = t  BY DEF Op
  <1> QED  BY <1>1, <1>2 DEF Plain, OpFits, Ops, OpNames, Op

LEMMA ToneFits ==
    ASSUME NEW t \in Timers, NEW v \in ToneType, NEW lines, Counting(v), ~v.over
    PROVE  Plain(ValueOp("tone", t, Up, v), lines)
  <1>1. v \in Values /\ Up \in Events  BY UpIsEvent DEF Values
  <1> QED  BY <1>1 DEF Plain, OpFits, Ops, OpNames, ValueOp

LEMMA PwmFits ==
    ASSUME NEW pin \in Pins, NEW o \in PwmType, NEW lines, Exists(o), CcIrq(pin[1]) \in lines
    PROVE  Plain(PwmOp(pin, o), lines)
  <1>1. pin[1] \in Timers  BY TimersAssumption DEF Pins
  <1>2. ChannelOf(pin) \in Channels /\ ChannelOf(pin) \in Events  BY UpIsEvent DEF ChannelOf, Channels
  <1>3. o \in Values  BY DEF Values
  <1> DEFINE c == ChannelOf(pin)  q == ValueOp("pwm", pin[1], c, o)
  <1>4. q = [op |-> "pwm", t |-> pin[1], e |-> c, v |-> o]  BY DEF ValueOp
  <1> HIDE DEF c, q
  <1>5. q \in Ops  BY <1>1, <1>2, <1>3, <1>4 DEF Ops, OpNames, c
  <1>6. OpFits(q, lines)  BY <1>2, <1>4 DEF OpFits, c
  <1> QED  BY <1>4, <1>5, <1>6 DEF Plain, PwmOp, q, c

LEMMA TimerInitFit ==
    ASSUME NEW t \in Timers, NEW lines
    PROVE  /\ Fit(TimerInit(t), lines)
           /\ {UpIrq(t), CcIrq(t)} \subseteq LinesIn(TimerInit(t))
  <1>1. PeriodRegisters(1, "ms") \in BaseRegs  BY PeriodFits DEF Units
  <1>2. Fit(TimerInit(t), lines)
    BY <1>1, LineFits, SwitchesFit, BaseFits, FitFour DEF TimerInit
  <1>3. /\ Len(TimerInit(t)) = 4
        /\ TimerInit(t)[1] = ValueOp("line", t, Up, UpIrq(t))
        /\ TimerInit(t)[2] = ValueOp("line", t, Up, CcIrq(t))
    BY DEF TimerInit
  <1>4. /\ ValueOp("line", t, Up, UpIrq(t)).op = "line" /\ ValueOp("line", t, Up, UpIrq(t)).v = UpIrq(t)
        /\ ValueOp("line", t, Up, CcIrq(t)).op = "line" /\ ValueOp("line", t, Up, CcIrq(t)).v = CcIrq(t)
    BY DEF ValueOp
  <1>5. 1 \in 1..Len(TimerInit(t)) /\ 2 \in 1..Len(TimerInit(t))  BY <1>3
  <1> QED  BY <1>2, <1>3, <1>4, <1>5 DEF LinesIn

LEMMA SetPeriodFit ==
    ASSUME NEW t \in Timers, NEW time \in Nat \ {0}, NEW format \in Units, NEW lines
    PROVE  Fit(SetPeriodOps(t, time, format), lines)
  <1>1. [by |-> "timer", time |-> time, format |-> format] \in UserType  BY DEF UserType
  <1> QED  BY <1>1, PeriodFits, TimingFits, SwitchesFit, BaseFits, FitThree DEF SetPeriodOps

LEMMA AttachFit ==
    ASSUME NEW t \in Timers, NEW e \in Events, NEW cb \in Whose, NEW lines,
           LineOf(t, e) \in irqs, irqs \subseteq lines
    PROVE  Fit(AttachOps(t, e, cb), lines)
  BY CallbackFits, FitOne, FitEnable, FitConcat DEF AttachOps

LEMMA DisableFit ==
    ASSUME NEW t \in Timers, NEW e \in Events, NEW lines
    PROVE  Fit(DisableIT(t, e), lines)
  BY FlagsFit, FitTwo DEF DisableIT

LEMMA PinTimer == \A pin \in Pins : pin[1] \in Timers /\ ChannelOf(pin) \in Channels /\ ChannelOf(pin) \in Events
  BY TimersAssumption, UpIsEvent DEF Pins, ChannelOf, Channels

LEMMA PwmInitFit ==
    ASSUME TimersType, NEW pin \in Pins, NEW lines
    PROVE  Fit(PwmInit(pin), lines) /\ CcIrq(pin[1]) \in LinesIn(PwmInit(pin))
  <1> DEFINE t == pin[1]  c == ChannelOf(pin)  k == 4999
             r == Registers(Clock \div 1000000 - 1, 9999, reg[t].rep)
             u == [by |-> "pwm", time |-> 9999, format |-> "us"]
             o1 == ValueOp("line", t, Up, CcIrq(t))  o2 == ValueOp("base", t, Up, r)
             o3 == ValueOp("timing", t, Up, u)       o4 == ValueOp("out", t, c, FALSE)
             o5 == ValueOp("pulse", t, c, k)         o6 == ValueOp("mode", t, c, "pwm")
             o7 == Op("on", t)
  <1>1. t \in Timers /\ c \in Events  BY PinTimer
  <1>2. Clock \in Nat  BY TimersAssumption
  <1>3. Clock \div 1000000 - 1 \in Int  BY <1>2, Quotient, SMT
  <1>4. reg[t].rep \in Nat  BY <1>1 DEF TimersType, RegType
  <1>5. r \in BaseRegs  BY <1>3, <1>4, RegistersFit, SMT
  <1>6. u \in UserType  BY SMT DEF UserType, Units
  <1>7. "pwm" \in Modes /\ k \in Int  BY SMT DEF Modes
  <1>8. o1.op = "line" /\ o1.v = CcIrq(t)  BY SMT DEF ValueOp
  <1>9. PwmInit(pin) = <<o1, o2, o3, o4, o5, o6, o7, o4>>  BY SMT DEF PwmInit
  <1> HIDE DEF k, r, u, c, t
  <1>10. Plain(o1, lines)  BY <1>1, LineFits
  <1>11. Plain(o2, lines)  BY <1>1, <1>5, BaseFits
  <1>12. Plain(o3, lines)  BY <1>1, <1>6, TimingFits
  <1>13. Plain(o4, lines)  BY <1>1, OutFits
  <1>14. Plain(o5, lines)  BY <1>1, <1>7, NumberFits
  <1>15. Plain(o6, lines)  BY <1>1, <1>7, ModeFits
  <1>16. Plain(o7, lines)  BY <1>1, SwitchesFit
  <1> HIDE DEF o1, o2, o3, o4, o5, o6, o7
  <1>17. Fit(PwmInit(pin), lines)
    BY <1>9, <1>10, <1>11, <1>12, <1>13, <1>14, <1>15, <1>16, FitEight
  <1>18. PwmInit(pin)[1] = o1 /\ 1 \in 1..Len(PwmInit(pin))  BY <1>9
  <1>19. o1.v \in LinesIn(PwmInit(pin))  BY <1>8, <1>18 DEF LinesIn
  <1> QED  BY <1>8, <1>17, <1>19 DEF t

LEMMA PwmPeriodFit ==
    ASSUME NEW pin \in Pins, NEW period \in Nat \ {0}, NEW cycle \in Nat,
           NEW format \in Units \ {"tick"}, NEW lines
    PROVE  Fit(PwmPeriod(pin, period, cycle, format), lines)
  <1> DEFINE t == pin[1]  r == PwmRegisters(period, format)
             v == CompareValue(cycle, format, r.car) - 1
             u == [by |-> "pwm", time |-> period, format |-> format]
  <1>1. t \in Timers /\ ChannelOf(pin) \in Events  BY PinTimer
  <1>2. r \in BaseRegs  BY PeriodFits
  <1>3. r.car \in Words  BY <1>2 DEF BaseRegs
  <1> HIDE DEF r
  <1>4. v \in Int  BY <1>3, CompareFits
  <1>5. u \in UserType  BY DEF UserType
  <1>6. PwmPeriod(pin, period, cycle, format) =
           <<ValueOp("timing", t, Up, u), ValueOp("base", t, Up, r),
             ValueOp("pulse", t, ChannelOf(pin), v)>>
    BY DEF PwmPeriod, r
  <1> HIDE DEF t, u, v
  <1> QED  BY <1>1, <1>2, <1>4, <1>5, <1>6, TimingFits, BaseFits, NumberFits, FitThree

-----------------------------------------------------------------------------
(* Every call of the sketch keeps the invariant.                             *)

LEMMA TimesFit == Times \subseteq Nat \ {0} /\ Formats \subseteq Units /\ Cycles \subseteq Nat
                  /\ ToneTimer \in Timers
  BY TimersAssumption DEF Units

LEMMA NewTimerKeeps ==
    ASSUME TimersInv, NEW t \in Timers, NewTimer(t)
    PROVE  TimersInv'
  <1> DEFINE lines == {UpIrq(t), CcIrq(t)}
             u == [by |-> "timer", time |-> 1, format |-> "ms"]
             head == <<Op("construct", t), ValueOp("timing", t, Up, u)>>
  <1>1. u \in UserType  BY DEF UserType, Units
  <1>2. Plain(Op("construct", t), lines) /\ Plain(ValueOp("timing", t, Up, u), lines)
    BY <1>1, ConstructFits, TimingFits
  <1>3. Fit(head, lines)  BY <1>2, FitTwo
  <1>4. Fit(TimerInit(t), lines) /\ lines \subseteq LinesIn(TimerInit(t))  BY TimerInitFit
  <1>5. Call(head \o TimerInit(t))  BY DEF NewTimer
  <1> HIDE DEF head, lines
  <1>6. Fit(head \o TimerInit(t), lines)  BY <1>3, <1>4, FitConcat
  <1>7. head \in Seq(Ops) /\ TimerInit(t) \in Seq(Ops)  BY <1>3, <1>4 DEF Fit
  <1>8. lines \subseteq LinesIn(head \o TimerInit(t))  BY <1>4, <1>7, LinesConcat
  <1> QED  BY <1>5, <1>6, <1>8, CallKeeps

\* A call that makes no object and enables only lines that are there.
LEMMA PlainCall ==
    ASSUME TimersInv, NEW ops, Call(ops), Fit(ops, irqs)
    PROVE  TimersInv'
  BY CallKeeps

LEMMA SetPeriodTimeKeeps ==
    ASSUME TimersInv, NEW t \in Timers, SetPeriodTime(t)
    PROVE  TimersInv'
  <1>1. PICK time \in Times, format \in Formats : Call(SetPeriodOps(t, time, format))
    BY DEF SetPeriodTime
  <1>2. time \in Nat \ {0} /\ format \in Units  BY TimesFit
  <1> QED  BY <1>1, <1>2, SetPeriodFit, PlainCall

LEMMA AttachInterruptKeeps ==
    ASSUME TimersInv, NEW t \in Timers, AttachInterrupt(t)
    PROVE  TimersInv'
  <1>1. PICK e \in {0, Up}, cb \in Callbacks : Call(AttachOps(t, e, cb))  BY DEF AttachInterrupt
  <1>2. e \in Events /\ cb \in Whose  BY UpIsEvent DEF Whose, Channels
  <1>3. hwObj[t].made /\ todo = <<>>  BY <1>1 DEF AttachInterrupt, Call
  <1>4. LineOf(t, e) \in irqs  BY <1>3, LinesReady DEF LineOf
  <1> QED  BY <1>1, <1>2, <1>4, AttachFit, PlainCall

LEMMA DetachInterruptKeeps ==
    ASSUME TimersInv, NEW t \in Timers, DetachInterrupt(t)
    PROVE  TimersInv'
  <1>1. PICK e \in {0, Up} : Call(DetachOps(t, e))  BY DEF DetachInterrupt
  <1>2. e \in Events /\ None \in Whose  BY UpIsEvent DEF Whose, Channels
  <1>3. Fit(<<ValueOp("callback", t, e, None)>>, irqs)  BY <1>2, CallbackFits, FitOne
  <1>4. Fit(DetachOps(t, e), irqs)  BY <1>2, <1>3, DisableFit, FitConcat DEF DetachOps
  <1> QED  BY <1>1, <1>4, PlainCall

LEMMA StartStopKeeps ==
    ASSUME TimersInv, NEW t \in Timers, StartStop(t) \/ Refresh(t)
    PROVE  TimersInv'
  <1>1. PICK name \in {"on", "off", "refresh"} : Call(<<Op(name, t)>>)  BY DEF StartStop, Refresh
  <1>2. Fit(<<Op(name, t)>>, irqs)  BY SwitchesFit, FitOne
  <1> QED  BY <1>1, <1>2, PlainCall

LEMMA SetRegisterKeeps ==
    ASSUME TimersInv, NEW t \in Timers, SetRegister(t)
    PROVE  TimersInv'
  <1>1. PICK name \in {"prescaler", "reload"}, v \in Times :
           Call(<<ValueOp("timing", t, Up, Nobody), ValueOp(name, t, Up, v)>>)
    BY DEF SetRegister
  <1>2. Nobody \in UserType  BY DEF Nobody, UserType, Units
  <1>3. v \in Int /\ Up \in Events  BY TimesFit, UpIsEvent
  <1>4. Plain(ValueOp("timing", t, Up, Nobody), irqs) /\ Plain(ValueOp(name, t, Up, v), irqs)
    BY <1>2, <1>3, TimingFits, NumberFits
  <1>5. Fit(<<ValueOp("timing", t, Up, Nobody), ValueOp(name, t, Up, v)>>, irqs)
    BY <1>4, FitTwo
  <1> QED  BY <1>1, <1>5, PlainCall

LEMMA SetCaptureModeKeeps ==
    ASSUME TimersInv, NEW t \in Timers, SetCaptureMode(t)
    PROVE  TimersInv'
  <1>1. PICK c \in PinChannels : Call(<<ValueOp("mode", t, c, "capture")>>)  BY DEF SetCaptureMode
  <1>2. c \in Events /\ "capture" \in Modes  BY TimersAssumption, UpIsEvent DEF Channels, Modes
  <1>3. Fit(<<ValueOp("mode", t, c, "capture")>>, irqs)  BY <1>2, ModeFits, FitOne
  <1> QED  BY <1>1, <1>3, PlainCall

-----------------------------------------------------------------------------
(* PWM.                                                                      *)

LEMMA ObjectTyped ==
    ASSUME TimersInv, NEW pin \in Pins
    PROVE  Object(pin) \in PwmType /\ Exists(Object(pin))
  BY PinTimer DEF TimersInv, TimersType, PwmInv, Object

LEMMA AliveReady ==
    ASSUME TimersInv, NEW pin \in Pins, todo = <<>>, Object(pin).alive
    PROVE  CcIrq(pin[1]) \in irqs
  BY PinTimer, LinesReady DEF Object

LEMMA ConstructedTyped ==
    \A alive \in BOOLEAN : Constructed(alive) \in PwmType /\ Exists(Constructed(alive))
                           /\ Constructed(alive).cb = None
  <1>1. NoPwm \in PwmType /\ NoPwm.cb = None  BY SMT DEF NoPwm, PwmType, Whose, None, Units
  <1> DEFINE Q(o, alive, a, b) ==
               [o EXCEPT !.made = TRUE, !.alive = alive, !.period = a, !.cycle = b]
  <1>2. \A o \in PwmType, alive \in BOOLEAN, a, b \in Nat :
           Q(o, alive, a, b) \in PwmType /\ Q(o, alive, a, b).cb = o.cb
    BY DEF PwmType
  <1>3. 9999 \in Nat /\ 4999 \in Nat  BY SMT
  <1>4. \A alive \in BOOLEAN : Constructed(alive) \in PwmType /\ Constructed(alive).cb = NoPwm.cb
    <2> DEFINE a == 9999  b == 4999
    <2>1. SUFFICES ASSUME NEW alive \in BOOLEAN
                   PROVE  Constructed(alive) \in PwmType /\ Constructed(alive).cb = NoPwm.cb
      OBVIOUS
    <2>2. a \in Nat /\ b \in Nat  BY <1>3
    <2>3. Constructed(alive) = Q(NoPwm, alive, a, b)  BY SMT DEF Constructed
    <2> HIDE DEF a, b, Q
    <2> QED  BY <1>1, <1>2, <2>2, <2>3
  <1> QED  BY <1>1, <1>4, SMT DEF Exists

\* A call that only writes one PWM object.
LEMMA PwmOne ==
    ASSUME NEW pin \in Pins, NEW o \in PwmType, NEW lines, Exists(o), CcIrq(pin[1]) \in lines
    PROVE  Fit(<<PwmOp(pin, o)>>, lines)
  BY PwmFits, FitOne

LEMMA NewPwmKeeps ==
    ASSUME TimersInv, NEW pin \in Pins, NewPwm(pin)
    PROVE  TimersInv'
  <1> DEFINE lines == {CcIrq(pin[1])}  head == <<PwmOp(pin, Constructed(TRUE))>>
  <1>1. Fit(head, lines)  BY ConstructedTyped, PwmOne
  <1>2. Fit(PwmInit(pin), lines) /\ lines \subseteq LinesIn(PwmInit(pin))
    BY PwmInitFit DEF TimersInv
  <1>3. Call(head \o PwmInit(pin))  BY DEF NewPwm
  <1> HIDE DEF head, lines
  <1>4. Fit(head \o PwmInit(pin), lines)  BY <1>1, <1>2, FitConcat
  <1>5. lines \subseteq LinesIn(head \o PwmInit(pin))  BY <1>1, <1>2, LinesConcat DEF Fit
  <1> QED  BY <1>3, <1>4, <1>5, CallKeeps

LEMMA PwmSetPeriodCycleKeeps ==
    ASSUME TimersInv, NEW pin \in Pins, PwmSetPeriodCycle(pin)
    PROVE  TimersInv'
  <1>1. PICK period \in Times, cycle \in Cycles, format \in Formats \ {"tick"} :
           Call(<<PwmOp(pin, [Object(pin) EXCEPT !.period = period, !.cycle = cycle, !.format = format])>>
                \o PwmPeriod(pin, period, cycle, format))
    BY DEF PwmSetPeriodCycle
  <1> DEFINE o == [Object(pin) EXCEPT !.period = period, !.cycle = cycle, !.format = format]
  <1>2. period \in Nat \ {0} /\ cycle \in Nat /\ format \in Units \ {"tick"}  BY TimesFit
  <1>3. o \in PwmType /\ Exists(o)  BY <1>2, ObjectTyped DEF PwmType, Exists
  <1>4. CcIrq(pin[1]) \in irqs  BY <1>1, AliveReady DEF PwmSetPeriodCycle, Call
  <1> HIDE DEF o
  <1>5. Fit(<<PwmOp(pin, o)>>, irqs)  BY <1>3, <1>4, PwmOne
  <1>6. Fit(PwmPeriod(pin, period, cycle, format), irqs)  BY <1>2, PwmPeriodFit
  <1>7. Fit(<<PwmOp(pin, o)>> \o PwmPeriod(pin, period, cycle, format), irqs)
    BY <1>5, <1>6, FitConcat
  <1> QED  BY <1>1, <1>7, PlainCall DEF o

LEMMA PwmWriteCycleValueKeeps ==
    ASSUME TimersInv, NEW pin \in Pins, PwmWriteCycleValue(pin)
    PROVE  TimersInv'
  <1>1. PICK cycle \in Cycles, format \in Formats \ {"tick"} :
           Call(<<PwmOp(pin, [Object(pin) EXCEPT !.cycle = cycle, !.format = format]),
                  ValueOp("pulse", pin[1], ChannelOf(pin),
                          CompareValue(cycle, format, reg[pin[1]].car) - 1)>>)
    BY DEF PwmWriteCycleValue
  <1> DEFINE o == [Object(pin) EXCEPT !.cycle = cycle, !.format = format]
             v == CompareValue(cycle, format, reg[pin[1]].car) - 1
             p == ValueOp("pulse", pin[1], ChannelOf(pin), v)
  <1>2. cycle \in Nat /\ format \in Units \ {"tick"}  BY TimesFit
  <1>3. o \in PwmType /\ Exists(o)  BY <1>2, ObjectTyped DEF PwmType, Exists
  <1>4. CcIrq(pin[1]) \in irqs  BY <1>1, AliveReady DEF PwmWriteCycleValue, Call
  <1>5. reg[pin[1]].car \in Words  BY PinTimer DEF TimersInv, TimersType, RegType
  <1>6. v \in Int  BY <1>2, <1>5, CompareFits
  <1> HIDE DEF o, v
  <1>7. Plain(PwmOp(pin, o), irqs)  BY <1>3, <1>4, PwmFits
  <1>8. Plain(p, irqs)  BY <1>6, PinTimer, NumberFits
  <1> HIDE DEF p
  <1>9. Fit(<<PwmOp(pin, o), p>>, irqs)  BY <1>7, <1>8, FitTwo
  <1> QED  BY <1>1, <1>9, PlainCall DEF o, p, v

LEMMA PwmStartStopKeeps ==
    ASSUME TimersInv, NEW pin \in Pins, PwmStartStop(pin)
    PROVE  TimersInv'
  <1>1. PICK on \in BOOLEAN :
           Call(<<PwmOut(pin, on), PwmOp(pin, [Object(pin) EXCEPT !.active = on])>>)
    BY DEF PwmStartStop
  <1> DEFINE o == [Object(pin) EXCEPT !.active = on]
  <1>2. o \in PwmType /\ Exists(o)  BY ObjectTyped DEF PwmType, Exists
  <1>3. CcIrq(pin[1]) \in irqs  BY <1>1, AliveReady DEF PwmStartStop, Call
  <1> HIDE DEF o
  <1>4. Plain(PwmOut(pin, on), irqs) /\ Plain(PwmOp(pin, o), irqs)
    BY <1>2, <1>3, PinTimer, PwmFits, OutFits DEF PwmOut
  <1>5. Fit(<<PwmOut(pin, on), PwmOp(pin, o)>>, irqs)  BY <1>4, FitTwo
  <1> QED  BY <1>1, <1>5, PlainCall DEF o

LEMMA PwmAttachKeeps ==
    ASSUME TimersInv, NEW pin \in Pins, PwmAttach(pin)
    PROVE  TimersInv'
  <1> DEFINE o == [Object(pin) EXCEPT !.cb = "plain"]  t == pin[1]  c == ChannelOf(pin)
  <1>1. Call(<<PwmOp(pin, o)>> \o EnableIT(t, c)) /\ Object(pin).alive /\ todo = <<>>
    BY DEF PwmAttach, Call
  <1>2. o \in PwmType /\ Exists(o)
    BY <1>1, ObjectTyped DEF PwmType, Exists, Whose, Callbacks
  <1>3. CcIrq(t) \in irqs  BY <1>1, AliveReady
  <1>4. t \in Timers /\ c \in Events  BY PinTimer
  <1>5. LineOf(t, c) \in irqs  BY <1>3 DEF LineOf, ChannelOf, Up
  <1> HIDE DEF o, t, c
  <1>6. Fit(<<PwmOp(pin, o)>>, irqs)  BY <1>2, <1>3, PwmOne DEF t
  <1>7. Fit(EnableIT(t, c), irqs)  BY <1>4, <1>5, FitEnable
  <1>8. Fit(<<PwmOp(pin, o)>> \o EnableIT(t, c), irqs)  BY <1>6, <1>7, FitConcat
  <1> QED  BY <1>1, <1>8, PlainCall

LEMMA PwmDetachKeeps ==
    ASSUME TimersInv, NEW pin \in Pins, PwmDetach(pin)
    PROVE  TimersInv'
  <1> DEFINE o == [Object(pin) EXCEPT !.cb = None]  t == pin[1]  c == ChannelOf(pin)
  <1>1. Call(<<PwmOp(pin, o)>> \o DisableIT(t, c)) /\ Object(pin).alive /\ todo = <<>>
    BY DEF PwmDetach, Call
  <1>2. o \in PwmType /\ Exists(o)  BY <1>1, ObjectTyped DEF PwmType, Exists, Whose
  <1>3. CcIrq(t) \in irqs  BY <1>1, AliveReady
  <1>4. t \in Timers /\ c \in Events  BY PinTimer
  <1> HIDE DEF o, t, c
  <1>5. Fit(<<PwmOp(pin, o)>>, irqs)  BY <1>2, <1>3, PwmOne DEF t
  <1>6. Fit(DisableIT(t, c), irqs)  BY <1>4, DisableFit
  <1>7. Fit(<<PwmOp(pin, o)>> \o DisableIT(t, c), irqs)  BY <1>5, <1>6, FitConcat
  <1> QED  BY <1>1, <1>7, PlainCall

LEMMA AnalogWriteKeeps ==
    ASSUME TimersInv, NEW pin \in Pins, AnalogWrite(pin)
    PROVE  TimersInv'
  <1>1. PICK cycle \in Cycles :
           LET o == [Constructed(TRUE) EXCEPT !.period = 1000, !.cycle = cycle] IN
           Call(<<PwmOp(pin, Constructed(TRUE))>> \o PwmInit(pin)
                \o <<PwmOp(pin, o)>> \o PwmPeriod(pin, 1000, cycle, "us")
                \o <<PwmOut(pin, TRUE), PwmOp(pin, [o EXCEPT !.active = TRUE, !.alive = FALSE])>>)
    BY DEF AnalogWrite
  <1> DEFINE k == 1000  o0 == Constructed(TRUE)
             o1 == [o0 EXCEPT !.period = k, !.cycle = cycle]
             o2 == [o1 EXCEPT !.active = TRUE, !.alive = FALSE]
             lines == {CcIrq(pin[1])}
             a == <<PwmOp(pin, o0)>>  b == PwmInit(pin)  c == <<PwmOp(pin, o1)>>
             d == PwmPeriod(pin, k, cycle, "us")  e == <<PwmOut(pin, TRUE), PwmOp(pin, o2)>>
  <1>2. Call(a \o b \o c \o d \o e)  BY <1>1
  <1>3. cycle \in Nat /\ k \in Nat \ {0} /\ "us" \in Units \ {"tick"}  BY TimesFit, SMT DEF Units
  <1> HIDE DEF k, o0
  <1>4. o0 \in PwmType /\ o0.cb = None  BY ConstructedTyped DEF o0
  <1>5. o1 \in PwmType /\ o1.cb = None  BY <1>3, <1>4 DEF PwmType
  <1>6. o2 \in PwmType /\ o2.cb = None  BY <1>5 DEF PwmType
  <1>7. Exists(o0) /\ Exists(o1) /\ Exists(o2)  BY <1>4, <1>5, <1>6 DEF Exists
  <1> HIDE DEF o1, o2
  <1>8. Fit(a, lines) /\ Fit(c, lines)  BY <1>4, <1>5, <1>7, PwmOne
  <1>9. Fit(b, lines) /\ lines \subseteq LinesIn(b)  BY PwmInitFit DEF TimersInv
  <1>10. Fit(d, lines)  BY <1>3, PwmPeriodFit
  <1>11. Plain(PwmOut(pin, TRUE), lines) /\ Plain(PwmOp(pin, o2), lines)
    BY <1>6, <1>7, PinTimer, PwmFits, OutFits DEF PwmOut
  <1>12. Fit(e, lines)  BY <1>11, FitTwo
  <1> HIDE DEF a, b, c, d, e, lines
  <1>13. Fit(a \o b, lines)  BY <1>8, <1>9, FitConcat
  <1>14. Fit(a \o b \o c, lines)  BY <1>8, <1>13, FitConcat
  <1>15. Fit(a \o b \o c \o d, lines)  BY <1>10, <1>14, FitConcat
  <1>16. Fit(a \o b \o c \o d \o e, lines)  BY <1>12, <1>15, FitConcat
  <1>17. lines \subseteq LinesIn(a \o b)  BY <1>8, <1>9, LinesConcat DEF Fit
  <1>18. lines \subseteq LinesIn(a \o b \o c)  BY <1>8, <1>13, <1>17, LinesConcat DEF Fit
  <1>19. lines \subseteq LinesIn(a \o b \o c \o d)  BY <1>10, <1>14, <1>18, LinesConcat DEF Fit
  <1>20. lines \subseteq LinesIn(a \o b \o c \o d \o e)  BY <1>12, <1>15, <1>19, LinesConcat DEF Fit
  <1> QED  BY <1>2, <1>16, <1>20, CallKeeps

-----------------------------------------------------------------------------
(* tone(), the interrupts and the timers.                                    *)

Speakers == {"speaker", "buzzer"}

LEMMA ToneKeeps ==
    ASSUME TimersInv, NEW pin \in Speakers, Tone(pin) \/ NoTone(pin)
    PROVE  TimersInv'
  <1>1. ToneTimer \in Timers  BY TimesFit
  <1>2. CASE Call(<<Op("off", ToneTimer)>>)
    <2>1. Fit(<<Op("off", ToneTimer)>>, irqs)  BY <1>1, SwitchesFit, FitOne
    <2> QED  BY <1>2, <2>1, PlainCall
  <1>3. CASE \E frequency \in Tones, duration \in Lasts :
               frequency # 0 /\ Call(ToneOps(pin, frequency, ToneCount(frequency, duration)))
    <2>1. PICK frequency \in Tones, duration \in Lasts :
             frequency # 0 /\ Call(ToneOps(pin, frequency, ToneCount(frequency, duration)))
      BY <1>3
    <2> DEFINE n == ToneCount(frequency, duration)
               q == [Quiet EXCEPT !.pin = pin, !.level = tone.level, !.count = n, !.asked = n]
               a == <<ValueOp("tone", ToneTimer, Up, q)>>
               b == SetPeriodOps(ToneTimer, 2 * frequency, "hz")
               c == AttachOps(ToneTimer, Up, "tone")
               d == <<Op("on", ToneTimer)>>
    <2>2. n \in Int /\ n >= -1  BY ToneCounts
    <2>3. tone.level \in Int  BY DEF TimersInv, TimersType, ToneType
    <2>4. Call(a \o b \o c \o d)  BY <2>1 DEF ToneOps
    <2> HIDE DEF n
    <2>5. q \in ToneType /\ Counting(q) /\ ~q.over
      <3> DEFINE Q(z) == [z EXCEPT !.pin = pin, !.level = tone.level, !.count = n, !.asked = n]
      <3>1. Quiet \in ToneType /\ Quiet.toggles = 0 /\ Quiet.over = FALSE  BY DEF Quiet, ToneType, None
      <3>2. \A z \in ToneType : Q(z) \in ToneType  BY <2>2, <2>3 DEF ToneType, Speakers
      <3>3. \A z \in ToneType : Q(z).count = n /\ Q(z).asked = n /\ Q(z).toggles = z.toggles
                                /\ Q(z).over = z.over
        BY <2>2, <2>3 DEF ToneType, Speakers
      <3>4. q = Q(Quiet)  OBVIOUS
      <3> HIDE DEF q, Q
      <3> QED  BY <2>2, <3>1, <3>2, <3>3, <3>4 DEF Counting
    <2>6. frequency \in Nat \ {0}  BY <2>1, TimersAssumption
    <2>7. 2 * frequency \in Nat \ {0} /\ "hz" \in Units  BY <2>6 DEF Units
    <2> HIDE DEF q
    <2>8. Fit(a, irqs)  BY <1>1, <2>5, ToneFits, FitOne
    <2>9. Fit(b, irqs)  BY <1>1, <2>7, SetPeriodFit
    <2>10. Up \in Events /\ "tone" \in Whose  BY UpIsEvent DEF Whose
    <2>12. LineOf(ToneTimer, Up) \in irqs
      BY DEF TimersInv, ToneInv, LineOf
    <2>13. Fit(c, irqs)  BY <1>1, <2>10, <2>12, AttachFit
    <2>14. Fit(d, irqs)  BY <1>1, SwitchesFit, FitOne
    <2> HIDE DEF a, b, c, d
    <2>15. Fit(a \o b \o c \o d, irqs)  BY <2>8, <2>9, <2>13, <2>14, FitConcat
    <2> QED  BY <2>4, <2>15, PlainCall
  <1> QED  BY <1>2, <1>3 DEF Tone, NoTone

LEMMA FirstIsPending ==
    ASSUME NEW S \in SUBSET Events, S # {}
    PROVE  First(S) \in S
  <1>1. CASE Up \in S  BY <1>1 DEF First
  <1>2. CASE Up \notin S
    <2>1. S \subseteq 0..3  BY <1>2 DEF Events, Channels
    <2>2. \E x \in S : \A y \in S : x <= y
      <3>1. CASE 0 \in S  BY <2>1, <3>1
      <3>2. CASE 0 \notin S /\ 1 \in S  BY <2>1, <3>2
      <3>3. CASE 0 \notin S /\ 1 \notin S /\ 2 \in S  BY <2>1, <3>3
      <3>4. CASE 0 \notin S /\ 1 \notin S /\ 2 \notin S
        <4>1. \A y \in S : y = 3  BY <2>1, <3>4
        <4> QED  BY <4>1
      <3> QED  BY <3>1, <3>2, <3>3, <3>4
    <2>3. Min(S) \in S  BY <2>2 DEF Min
    <2> QED  BY <1>2, <2>3 DEF First
  <1> QED  BY <1>1, <1>2

LEMMA InterruptKeeps ==
    ASSUME TimersInv, NEW t \in Timers, Interrupt(t)
    PROVE  TimersInv' /\ CallsFresh'
  <1> DEFINE S == reg[t].flags \cap reg[t].ie  e == First(S)
             cb == IF hwObj[t].made THEN hwObj[t].cb[e] ELSE None
             p == IF e = Up THEN None ELSE pwmObj[t][e].cb
             N(r) == [r EXCEPT !.flags = @ \ {e}, !.ie = IF hwObj[t].cb[e] = "once" THEN @ \ {e} ELSE @]
  <1>1. /\ TimersType /\ TodoInv /\ LinesInv /\ PwmInv /\ EnabledInv
        /\ FreshInv /\ EnableInv /\ ToneInv
    BY DEF TimersInv
  <1>2. reg[t] \in RegType  BY <1>1 DEF TimersType
  <1>3. S \subseteq Events /\ S # {}  BY <1>2 DEF RegType, Interrupt, Pending
  <1>4. e \in S /\ e \in Events  BY <1>3, FirstIsPending
  <1>5. /\ reg' = Served(t, e)
        /\ called' = [t |-> t, e |-> e, timer |-> cb, pwm |-> p,
                      fresh |-> e \in fresh[t], alive |-> e = Up \/ pwmObj[t][e].alive]
        /\ hwObj' = IF cb = "once" THEN [hwObj EXCEPT ![t].cb[e] = None] ELSE hwObj
        /\ tone' = tone \/ TonePeriodElapsed
        /\ UNCHANGED <<chan, irqs, pwmObj, todo, calls, timing, fresh>>
    BY DEF Interrupt
  <1> HIDE DEF e
  <1>6. /\ reg' = [u \in Timers |-> reg'[u]]
        /\ \A u \in Timers : reg'[u] = IF u = t THEN N(reg[u]) ELSE reg[u]
    BY <1>1, <1>5 DEF Served, TimersType, RegType
  <1>7. \A r \in RegType : N(r) \in RegType /\ N(r).flags \subseteq r.flags /\ N(r).ie \subseteq r.ie
    BY DEF RegType
  <1> HIDE DEF N
  <1>8. \A u \in Timers : reg[u] \in RegType  BY <1>1 DEF TimersType
  <1>9. \A u \in Timers : reg'[u] \in RegType /\ reg'[u].flags \subseteq reg[u].flags
                          /\ reg'[u].ie \subseteq reg[u].ie
    BY <1>6, <1>7, <1>8
  <1>10. reg' \in [Timers -> RegType]  BY <1>6, <1>9
  <1>11. hwObj' \in [Timers -> HwType] /\ \A u \in Timers : hwObj'[u].made = hwObj[u].made
    BY <1>1, <1>4, <1>5 DEF TimersType, HwType, Whose
  <1>12. tone' \in ToneType /\ Counting(tone')
    <2>1. tone \in ToneType /\ Counting(tone)  BY <1>1 DEF TimersType, ToneInv
    <2>2. CASE tone' = tone  BY <2>1, <2>2
    <2>3. CASE tone.count < 0 /\ tone' = [tone EXCEPT !.level = 1 - @]
      BY <2>1, <2>3 DEF ToneType, Counting
    <2>4. CASE tone.count = 0 /\ tone' = [tone EXCEPT !.level = 0, !.over = TRUE]
      BY <2>1, <2>4 DEF ToneType, Counting
    <2>5. CASE tone.count > 0 /\ tone' = [tone EXCEPT !.count = @ - 1, !.level = 1 - @, !.toggles = @ + 1]
      <3>1. /\ tone.count \in Int /\ tone.level \in Int /\ tone.toggles \in Int /\ tone.asked \in Int
            /\ tone.over \in BOOLEAN
        BY <2>1 DEF ToneType
      <3> DEFINE Q(z, a, b, c) == [z EXCEPT !.count = a, !.level = b, !.toggles = c]
      <3>2. \A z \in ToneType, a, b, c \in Int :
               /\ Q(z, a, b, c) \in ToneType
               /\ Q(z, a, b, c).count = a /\ Q(z, a, b, c).toggles = c
               /\ Q(z, a, b, c).asked = z.asked /\ Q(z, a, b, c).over = z.over
        BY ZenonT(40) DEF ToneType
      <3>6. tone' = Q(tone, tone.count - 1, 1 - tone.level, tone.toggles + 1)  BY <2>5
      <3>7. tone.count - 1 \in Int /\ 1 - tone.level \in Int /\ tone.toggles + 1 \in Int  BY <3>1
      <3> HIDE DEF Q
      <3>3. /\ tone' \in ToneType
            /\ tone'.count = tone.count - 1 /\ tone'.toggles = tone.toggles + 1
            /\ tone'.asked = tone.asked /\ tone'.over = tone.over
        BY <2>1, <3>2, <3>6, <3>7
      <3>4. ~tone.over /\ tone.asked >= 0 /\ tone.toggles + tone.count = tone.asked
        BY <2>1, <2>5, <3>1 DEF Counting
      <3>5. tone'.toggles + tone'.count = tone'.asked /\ tone'.count >= 0  BY <2>5, <3>1, <3>3, <3>4
      <3> QED  BY <3>1, <3>3, <3>4, <3>5 DEF Counting
    <2>6. tone.count \in Int  BY <2>1 DEF ToneType
    <2> QED  BY <1>5, <2>2, <2>3, <2>4, <2>5, <2>6 DEF TonePeriodElapsed
  <1>13. TimersType'  BY <1>1, <1>5, <1>10, <1>11, <1>12 DEF TimersType
  <1>14. Coming' = Coming  BY <1>5 DEF Coming, LinesIn
  <1>15. TodoInv'  BY <1>1, <1>5, <1>14 DEF TodoInv, LineOf, UpIrq, CcIrq
  <1>16. LinesInv'  BY <1>1, <1>5, <1>11, <1>14 DEF LinesInv, UpIrq, CcIrq
  <1>17. PwmInv'  BY <1>1, <1>5 DEF PwmInv
  <1>18. EnabledInv'  BY <1>1, <1>5, <1>9 DEF EnabledInv, LineOf, UpIrq, CcIrq
  <1>19. FreshInv'  BY <1>1, <1>5, <1>9 DEF FreshInv
  <1>20. EnableInv'
    <2>1. SUFFICES ASSUME todo # <<>>, Head(todo).op = "enable",
                          Head(todo).e \in reg'[Head(todo).t].flags
                   PROVE  Head(todo).e \in fresh[Head(todo).t]
      BY <1>5 DEF EnableInv
    <2>2. Head(todo) \in Ops  BY <1>1, <2>1 DEF TimersType
    <2>3. Head(todo).t \in Timers  BY <2>2 DEF Ops
    <2> QED  BY <1>1, <1>9, <2>1, <2>3 DEF EnableInv
  <1>21. ToneInv'  BY <1>1, <1>5, <1>12 DEF ToneInv, UpIrq
  <1>22. CallsFresh'
    <2>1. e \in fresh[t]  BY <1>1, <1>4 DEF FreshInv
    <2>2. called'.fresh /\ called'.pwm = p /\ called'.alive = (e = Up \/ pwmObj[t][e].alive)
      BY <1>5, <2>1
    <2>3. p # None => e # Up /\ pwmObj[t][e].cb # None  OBVIOUS
    <2>4. e # Up => e \in Channels  BY <1>4 DEF Events
    <2>5. p # None => pwmObj[t][e].alive  BY <1>1, <2>3, <2>4 DEF PwmInv, Exists
    <2> QED  BY <2>2, <2>5 DEF CallsFresh
  <1> QED  BY <1>13, <1>15, <1>16, <1>17, <1>18, <1>19, <1>20, <1>21, <1>22 DEF TimersInv

\* The timers run: a flag is set, for an event that is fresh.
LEMMA EventKeeps ==
    ASSUME TimersInv, NEW t \in Timers, Overflow(t) \/ Match(t)
    PROVE  TimersInv'
  <1>1. /\ TimersType /\ TodoInv /\ LinesInv /\ PwmInv /\ EnabledInv
        /\ FreshInv /\ EnableInv /\ ToneInv
    BY DEF TimersInv
  <1>2. UNCHANGED <<irqs, hwObj, pwmObj, tone, todo>>  BY DEF Overflow, Match
  <1>3. \A u \in Timers : reg[u] \in RegType  BY <1>1 DEF TimersType
  <1>4. PICK e \in Events, D \in SUBSET Channels :
          /\ reg' = [reg EXCEPT ![t].flags = @ \cup {e}, ![t].due = D]
          /\ fresh' = [fresh EXCEPT ![t] = @ \cup {e}]
    <2>1. CASE Overflow(t)
      <3>1. {c \in Channels : chan[t][c].mode # "off"} \in SUBSET Channels  OBVIOUS
      <3> QED  BY <2>1, <3>1, UpIsEvent DEF Overflow
    <2>2. CASE Match(t)
      <3>1. PICK c \in reg[t].due : /\ reg' = [reg EXCEPT ![t].flags = @ \cup {c}, ![t].due = @ \ {c}]
                                    /\ fresh' = [fresh EXCEPT ![t] = @ \cup {c}]
        BY <2>2 DEF Match
      <3>2. reg[t].due \in SUBSET Channels  BY <1>3 DEF RegType
      <3>3. c \in Events /\ reg[t].due \ {c} \in SUBSET Channels  BY <3>2, UpIsEvent
      <3>4. reg' = [reg EXCEPT ![t].flags = @ \cup {c}, ![t].due = reg[t].due \ {c}]
        BY <1>1, <3>1 DEF TimersType, RegType
      <3> QED  BY <3>1, <3>3, <3>4
    <2> QED  BY <2>1, <2>2
  <1> DEFINE N(r) == [r EXCEPT !.flags = @ \cup {e}, !.due = D]
  <1>5. /\ reg' = [u \in Timers |-> reg'[u]]
        /\ \A u \in Timers : reg'[u] = IF u = t THEN N(reg[u]) ELSE reg[u]
    BY <1>1, <1>4 DEF TimersType, RegType
  <1>6. \A r \in RegType : N(r) \in RegType /\ N(r).flags = r.flags \cup {e} /\ N(r).ie = r.ie
    BY DEF RegType
  <1> HIDE DEF N
  <1>7. reg' \in [Timers -> RegType]  BY <1>3, <1>5, <1>6
  <1>8. \A u \in Timers : /\ reg'[u].ie = reg[u].ie
                          /\ reg'[u].flags = IF u = t THEN reg[u].flags \cup {e} ELSE reg[u].flags
    BY <1>3, <1>5, <1>6
  <1>9. /\ fresh' \in [Timers -> SUBSET Events]
        /\ \A u \in Timers : fresh'[u] = IF u = t THEN fresh[u] \cup {e} ELSE fresh[u]
    BY <1>1, <1>4 DEF TimersType
  <1>10. TimersType'  BY <1>1, <1>2, <1>7, <1>9 DEF TimersType
  <1>11. Coming' = Coming  BY <1>2 DEF Coming, LinesIn
  <1>12. TodoInv'  BY <1>1, <1>2, <1>11 DEF TodoInv, LineOf, UpIrq, CcIrq
  <1>13. LinesInv'  BY <1>1, <1>2, <1>11 DEF LinesInv, UpIrq, CcIrq
  <1>14. PwmInv'  BY <1>1, <1>2 DEF PwmInv
  <1>15. EnabledInv'  BY <1>1, <1>2, <1>8 DEF EnabledInv, LineOf, UpIrq, CcIrq
  <1>16. FreshInv'  BY <1>1, <1>8, <1>9 DEF FreshInv
  <1>17. EnableInv'
    <2>1. SUFFICES ASSUME todo # <<>>, Head(todo).op = "enable",
                          Head(todo).e \in reg'[Head(todo).t].flags
                   PROVE  Head(todo).e \in fresh'[Head(todo).t]
      BY <1>2 DEF EnableInv
    <2>2. Head(todo) \in Ops  BY <1>1, <2>1 DEF TimersType
    <2>3. Head(todo).t \in Timers  BY <2>2 DEF Ops
    <2> QED  BY <1>1, <1>8, <1>9, <2>1, <2>3 DEF EnableInv
  <1>18. ToneInv'  BY <1>1, <1>2 DEF ToneInv, Counting, UpIrq
  <1> QED  BY <1>10, <1>12, <1>13, <1>14, <1>15, <1>16, <1>17, <1>18 DEF TimersInv

-----------------------------------------------------------------------------
(* The theorems.                                                             *)

LEMMA ResetTimer ==
    ASSUME NEW r \in BaseRegs
    PROVE  /\ [Reset EXCEPT !.psc = r.psc, !.car = r.car, !.flags = {Up}] \in RegType
           /\ [Reset EXCEPT !.psc = r.psc, !.car = r.car, !.flags = {Up}].ie = {}
  <1>1. \A q \in RegType : LET p == [q EXCEPT !.psc = r.psc, !.car = r.car, !.flags = {Up}] IN
                           p \in RegType /\ p.ie = q.ie
    BY UpIsEvent DEF RegType, BaseRegs
  <1> QED  BY <1>1, NoFlags

LEMMA NoObjectTyped ==
    ASSUME NEW b \in BOOLEAN
    PROVE  [NoObject EXCEPT !.made = b] \in HwType /\ [NoObject EXCEPT !.made = b].made = b
  <1> DEFINE f == [e \in Events |-> None]
  <1>1. None \in Whose  BY DEF None, Whose
  <1>2. \A x \in Whose : [e \in Events |-> x] \in [Events -> Whose]  OBVIOUS
  <1>3. f \in [Events -> Whose]  BY <1>1, <1>2, Zenon
  <1> HIDE DEF f
  <1>4. [[made |-> FALSE, cb |-> f] EXCEPT !.made = b] \in HwType
        /\ [[made |-> FALSE, cb |-> f] EXCEPT !.made = b].made = b
    BY <1>3 DEF HwType
  <1> QED  BY <1>4 DEF NoObject, f

LEMMA TimersStart == Init => TimersInv /\ CallsFresh
  <1> SUFFICES ASSUME Init PROVE TimersInv /\ CallsFresh  OBVIOUS
  <1> DEFINE r == PeriodRegisters(1, "ms")
             tt == [Reset EXCEPT !.psc = r.psc, !.car = r.car, !.flags = {Up}]
  <1>1. r \in BaseRegs  BY PeriodFits DEF Units
  <1> HIDE DEF r
  <1>2. tt \in RegType /\ tt.ie = {} /\ Reset \in RegType /\ Reset.ie = {}  BY <1>1, ResetTimer, NoFlags
  <1>3. reg = [t \in Timers |-> IF t = ToneTimer THEN tt ELSE Reset]  BY DEF Init, r
  <1> HIDE DEF tt
  <1>4. reg \in [Timers -> RegType] /\ \A t \in Timers : reg[t].ie = {}  BY <1>2, <1>3
  <1>5. hwObj \in [Timers -> HwType] /\ \A t \in Timers : hwObj[t].made = (t = ToneTimer)
    <2>1. hwObj = [t \in Timers |-> [NoObject EXCEPT !.made = (t = ToneTimer)]]  BY DEF Init
    <2>2. \A t \in Timers : (t = ToneTimer) \in BOOLEAN  OBVIOUS
    <2>3. \A t \in Timers : [NoObject EXCEPT !.made = (t = ToneTimer)] \in HwType
                            /\ [NoObject EXCEPT !.made = (t = ToneTimer)].made = (t = ToneTimer)
      BY <2>2, NoObjectTyped
    <2> QED  BY <2>1, <2>3
  <1>6. NoPwm \in PwmType /\ ~NoPwm.alive /\ NoPwm.cb = None
    BY SMT DEF NoPwm, PwmType, Whose, None, Units
  <1>7. /\ pwmObj \in [Timers -> [Channels -> PwmType]]
        /\ \A t \in Timers, c \in Channels : pwmObj[t][c] = NoPwm
    BY <1>6 DEF Init
  <1>8. fresh \in [Timers -> SUBSET Events]  BY DEF Init
  <1>9. tone \in ToneType /\ Counting(tone)  BY DEF Init, Quiet, ToneType, Counting, None
  <1>10. ToneTimer \in Timers  BY TimesFit
  <1>11. irqs \subseteq Lines /\ irqs = {UpIrq(ToneTimer), CcIrq(ToneTimer)}
    BY <1>10 DEF Init, Lines, UpIrq, CcIrq
  <1>12. todo = <<>> /\ todo \in Seq(Ops)  BY DEF Init
  <1>13. TimersType  BY <1>4, <1>5, <1>7, <1>8, <1>9, <1>11, <1>12 DEF TimersType
  <1>14. TodoInv /\ EnableInv  BY <1>12 DEF TodoInv, EnableInv
  <1>15. LinesInv  BY <1>5, <1>6, <1>7, <1>11 DEF LinesInv, Coming
  <1>16. PwmInv  BY <1>6, <1>7 DEF PwmInv, Exists
  <1>17. EnabledInv /\ FreshInv  BY <1>4 DEF EnabledInv, FreshInv
  <1>18. ToneInv  BY <1>9, <1>11 DEF ToneInv
  <1>19. CallsFresh  BY DEF Init, CallsFresh
  <1> QED  BY <1>13, <1>14, <1>15, <1>16, <1>17, <1>18, <1>19 DEF TimersInv

LEMMA CallUnchanged == ASSUME NEW ops, Call(ops) PROVE UNCHANGED called
  BY DEF Call

LEMMA TimersNext ==
    ASSUME TimersInv, CallsFresh, [Next]_vars
    PROVE  TimersInv' /\ CallsFresh'
  <1>1. CASE Step
    <2>1. TimersInv'  BY <1>1, StepKeeps
    <2>2. UNCHANGED called  BY <1>1 DEF Step
    <2> QED  BY <2>1, <2>2 DEF CallsFresh
  <1>2. CASE \E t \in Timers : Interrupt(t)  BY <1>2, InterruptKeeps
  <1>3. CASE \E t \in Timers : Overflow(t) \/ Match(t)
    <2>1. TimersInv'  BY <1>3, EventKeeps
    <2>2. UNCHANGED called  BY <1>3 DEF Overflow, Match
    <2> QED  BY <2>1, <2>2 DEF CallsFresh
  <1>4. CASE \E t \in Timers : TimerCall(t)
    <2>1. TimersInv'
      BY <1>4, NewTimerKeeps, SetPeriodTimeKeeps, AttachInterruptKeeps, DetachInterruptKeeps,
         StartStopKeeps, SetRegisterKeeps, SetCaptureModeKeeps DEF TimerCall
    <2>2. UNCHANGED called
      BY <1>4, CallUnchanged DEF TimerCall, NewTimer, SetPeriodTime, AttachInterrupt, DetachInterrupt,
                                 StartStop, Refresh, SetRegister, SetCaptureMode
    <2> QED  BY <2>1, <2>2 DEF CallsFresh
  <1>5. CASE \E pin \in Pins : PwmCall(pin)
    <2>1. TimersInv'
      BY <1>5, NewPwmKeeps, PwmSetPeriodCycleKeeps, PwmWriteCycleValueKeeps, PwmStartStopKeeps,
         PwmAttachKeeps, PwmDetachKeeps, AnalogWriteKeeps DEF PwmCall
    <2>2. UNCHANGED called
      <3>1. PICK pin \in Pins : PwmCall(pin)  BY <1>5
      <3>2. CASE NewPwm(pin)  BY <3>2, CallUnchanged DEF NewPwm
      <3>3. CASE PwmSetPeriodCycle(pin)  BY <3>3, CallUnchanged DEF PwmSetPeriodCycle
      <3>4. CASE PwmWriteCycleValue(pin)  BY <3>4, CallUnchanged DEF PwmWriteCycleValue
      <3>5. CASE PwmStartStop(pin)  BY <3>5, CallUnchanged DEF PwmStartStop
      <3>6. CASE PwmAttach(pin)  BY <3>6, CallUnchanged DEF PwmAttach
      <3>7. CASE PwmDetach(pin)  BY <3>7, CallUnchanged DEF PwmDetach
      <3>8. CASE AnalogWrite(pin)  BY <3>8, CallUnchanged, SMT DEF AnalogWrite
      <3> QED  BY <3>1, <3>2, <3>3, <3>4, <3>5, <3>6, <3>7, <3>8 DEF PwmCall
    <2> QED  BY <2>1, <2>2 DEF CallsFresh
  <1>6. CASE \E pin \in Speakers : Tone(pin) \/ NoTone(pin)
    <2>1. TimersInv'  BY <1>6, ToneKeeps
    <2>2. UNCHANGED called  BY <1>6, CallUnchanged DEF Tone, NoTone
    <2> QED  BY <2>1, <2>2 DEF CallsFresh
  <1>7. CASE UNCHANGED vars
    <2>1. UNCHANGED <<reg, irqs, hwObj, pwmObj, tone, todo, fresh, called>>  BY <1>7 DEF vars
    <2>2. Coming' = Coming  BY <2>1 DEF Coming, LinesIn
    <2>3. TimersType' /\ TodoInv' /\ LinesInv'
      BY <2>1, <2>2 DEF TimersInv, TimersType, TodoInv, LinesInv, LineOf, UpIrq, CcIrq
    <2>4. PwmInv' /\ EnabledInv' /\ FreshInv' /\ EnableInv' /\ ToneInv'
      BY <2>1 DEF TimersInv, PwmInv, EnabledInv, FreshInv, EnableInv, ToneInv, Counting, LineOf,
                  UpIrq, CcIrq
    <2> QED  BY <2>1, <2>3, <2>4 DEF TimersInv, CallsFresh
  <1> QED  BY <1>1, <1>2, <1>3, <1>4, <1>5, <1>6, <1>7 DEF Next, Speakers

LEMMA TimersAlways == Spec => [](TimersInv /\ CallsFresh)
  BY TimersStart, TimersNext, PTL DEF Spec

\* A callback is called only for an event that came after it was assigned, and
\* PWM's only through an object that still exists: in every interleaving of the
\* register writes of the sketch's calls with the interrupts (timer.c:510).
THEOREM CallsAlwaysFresh == Spec => []CallsFresh
  BY TimersAlways, PTL

\* A tone of n half periods turns its pin n times and no more, and leaves it
\* low, however its interrupts fall into later calls (Tone.cpp:20).
THEOREM TonesCounted == Spec => []ToneLength
  <1>1. TimersInv => ToneLength  BY DEF TimersInv, ToneInv, Counting, ToneLength
  <1> QED  BY <1>1, TimersAlways, PTL

\* While the sketch gets on, no enabled event is waiting with its interrupt
\* line off: an interrupt the sketch enabled always comes (timer.c:384).
NoneForgotten == \A t \in Timers : reg[t].flags \cap reg[t].ie # {} => Preempted

\* An event whose interrupt the sketch enabled and whose flag is set is never
\* left waiting behind a disabled line.
THEOREM EnabledIsServed == Spec => []NoneForgotten
  <1>1. TimersInv => NoneForgotten
    BY DEF TimersInv, EnabledInv, NoneForgotten, Preempted, Pending, LineOf
  <1> QED  BY <1>1, TimersAlways, PTL

-----------------------------------------------------------------------------
(* What a call leaves behind.                                                *)

\* An operation that sets something of a timer, of one of these kinds.
Touches(o, t, kinds) == o.t = t /\ o.op \in kinds

\* None of the operations does, and the one that does so last.
Never(ops, t, kinds) == \A i \in 1..Len(ops) : ~Touches(ops[i], t, kinds)

Ending(ops, t, kinds, o) ==
    \E i \in 1..Len(ops) :
        /\ ops[i] = o /\ Touches(o, t, kinds)
        /\ \A j \in 1..Len(ops) : j > i => ~Touches(ops[j], t, kinds)

LEMMA EndingOnce ==
    ASSUME NEW ops \in Seq(Ops), NEW t, NEW kinds, NEW o, Ending(ops, t, kinds, o)
    PROVE  /\ ~Never(ops, t, kinds) /\ Touches(o, t, kinds) /\ o \in Ops
           /\ \A p : Ending(ops, t, kinds, p) => p = o
  <1>1. PICK i \in 1..Len(ops) : /\ ops[i] = o /\ Touches(o, t, kinds)
                                 /\ \A j \in 1..Len(ops) : j > i => ~Touches(ops[j], t, kinds)
    BY DEF Ending
  <1>2. Len(ops) \in Nat  OBVIOUS
  <1>3. ASSUME NEW p, Ending(ops, t, kinds, p) PROVE p = o
    <2>1. PICK k \in 1..Len(ops) : /\ ops[k] = p /\ Touches(p, t, kinds)
                                   /\ \A j \in 1..Len(ops) : j > k => ~Touches(ops[j], t, kinds)
      BY <1>3 DEF Ending
    <2>2. ~(k > i) /\ ~(i > k)  BY <1>1, <2>1
    <2> QED  BY <1>1, <1>2, <2>1, <2>2
  <1>4. o \in Ops  BY <1>1
  <1> QED  BY <1>1, <1>3, <1>4 DEF Never

\* One operation has been done.
LEMMA EndingNext ==
    ASSUME TimersType, todo # <<>>, todo' = Tail(todo), NEW t, NEW kinds
    PROVE  /\ \A o : Ending(todo, t, kinds, o) =>
                 \/ Ending(todo', t, kinds, o)
                 \/ Never(todo', t, kinds) /\ o = todo[1]
           /\ Never(todo, t, kinds) => Never(todo', t, kinds) /\ ~Touches(todo[1], t, kinds)
           /\ \A o : Ending(todo', t, kinds, o) => Ending(todo, t, kinds, o)
           /\ Never(todo', t, kinds) =>
                 \/ Never(todo, t, kinds)
                 \/ Ending(todo, t, kinds, todo[1]) /\ Touches(todo[1], t, kinds)
  <1>1. /\ Len(todo') = Len(todo) - 1 /\ 1 \in 1..Len(todo)
        /\ \A i \in 1..Len(todo') : todo'[i] = todo[i + 1] /\ i + 1 \in 1..Len(todo)
    BY Rest
  <1>2. Len(todo) \in Nat /\ Len(todo') \in Nat  BY Rest DEF TimersType
  <1>3. \A i \in 1..Len(todo) : i # 1 => i - 1 \in 1..Len(todo') /\ todo'[i - 1] = todo[i]
    <2>1. ASSUME NEW i \in 1..Len(todo), i # 1 PROVE i - 1 \in 1..Len(todo') /\ (i - 1) + 1 = i
      BY <1>1, <1>2, <2>1
    <2> QED  BY <1>1, <2>1
  <1>4. ASSUME NEW o, Ending(todo, t, kinds, o)
        PROVE  \/ Ending(todo', t, kinds, o)
               \/ Never(todo', t, kinds) /\ o = todo[1]
    <2>1. PICK i \in 1..Len(todo) : /\ todo[i] = o /\ Touches(o, t, kinds)
                                    /\ \A j \in 1..Len(todo) : j > i => ~Touches(todo[j], t, kinds)
      BY <1>4 DEF Ending
    <2>2. \A j \in 1..Len(todo') : j + 1 > i => ~Touches(todo'[j], t, kinds)  BY <1>1, <2>1
    <2>3. CASE i = 1  BY <1>1, <2>1, <2>2, <2>3 DEF Never
    <2>4. CASE i # 1
      <3>1. i - 1 \in 1..Len(todo') /\ todo'[i - 1] = o  BY <1>3, <2>1, <2>4
      <3>2. \A j \in 1..Len(todo') : j > i - 1 => ~Touches(todo'[j], t, kinds)  BY <2>2
      <3> QED  BY <2>1, <3>1, <3>2 DEF Ending
    <2> QED  BY <2>3, <2>4
  <1>5. Never(todo, t, kinds) => Never(todo', t, kinds) /\ ~Touches(todo[1], t, kinds)
    BY <1>1 DEF Never
  <1>6. ASSUME NEW o, Ending(todo', t, kinds, o) PROVE Ending(todo, t, kinds, o)
    <2>1. PICK i \in 1..Len(todo') : /\ todo'[i] = o /\ Touches(o, t, kinds)
                                     /\ \A j \in 1..Len(todo') : j > i => ~Touches(todo'[j], t, kinds)
      BY <1>6 DEF Ending
    <2>2. todo[i + 1] = o /\ i + 1 \in 1..Len(todo)  BY <1>1, <2>1
    <2>3. ASSUME NEW j \in 1..Len(todo), j > i + 1 PROVE ~Touches(todo[j], t, kinds)
      <3>1. j # 1 /\ j - 1 > i  BY <2>3
      <3> QED  BY <1>3, <2>1, <3>1
    <2> QED  BY <2>1, <2>2, <2>3 DEF Ending
  <1>7. ASSUME Never(todo', t, kinds)
        PROVE  \/ Never(todo, t, kinds)
               \/ Ending(todo, t, kinds, todo[1]) /\ Touches(todo[1], t, kinds)
    <2>1. \A j \in 1..Len(todo) : j # 1 => ~Touches(todo[j], t, kinds)  BY <1>3, <1>7 DEF Never
    <2> QED  BY <1>1, <2>1 DEF Never, Ending
  <1> QED  BY <1>4, <1>5, <1>6, <1>7

\* The operations of two parts of a call.
LEMMA EndingJoined ==
    ASSUME NEW a \in Seq(Ops), NEW b \in Seq(Ops), NEW t, NEW kinds
    PROVE  /\ Never(a, t, kinds) /\ Never(b, t, kinds) => Never(a \o b, t, kinds)
           /\ \A o : Ending(b, t, kinds, o) => Ending(a \o b, t, kinds, o)
           /\ \A o : Ending(a, t, kinds, o) /\ Never(b, t, kinds) => Ending(a \o b, t, kinds, o)
  <1> DEFINE s == a \o b
  <1>1. /\ Len(s) = Len(a) + Len(b)
        /\ \A i \in 1..Len(a) + Len(b) : s[i] = IF i <= Len(a) THEN a[i] ELSE b[i - Len(a)]
    BY ConcatProperties
  <1>2. Len(a) \in Nat /\ Len(b) \in Nat  OBVIOUS
  <1> HIDE DEF s
  <1>3. \A i \in 1..Len(s) : \/ i \in 1..Len(a) /\ s[i] = a[i]
                             \/ i > Len(a) /\ i - Len(a) \in 1..Len(b) /\ s[i] = b[i - Len(a)]
    BY <1>1, <1>2
  <1>4. \A i \in 1..Len(a) : i \in 1..Len(s) /\ s[i] = a[i]  BY <1>1, <1>2
  <1>5. \A i \in 1..Len(b) : i + Len(a) \in 1..Len(s) /\ s[i + Len(a)] = b[i]
    <2>1. ASSUME NEW i \in 1..Len(b)
          PROVE  i + Len(a) \in 1..Len(a) + Len(b) /\ ~(i + Len(a) <= Len(a)) /\ (i + Len(a)) - Len(a) = i
      BY <1>2
    <2> QED  BY <1>1, <2>1
  <1>6. Never(a, t, kinds) /\ Never(b, t, kinds) => Never(s, t, kinds)  BY <1>3 DEF Never
  <1>7. ASSUME NEW o, Ending(b, t, kinds, o) PROVE Ending(s, t, kinds, o)
    <2>1. PICK i \in 1..Len(b) : /\ b[i] = o /\ Touches(o, t, kinds)
                                 /\ \A j \in 1..Len(b) : j > i => ~Touches(b[j], t, kinds)
      BY <1>7 DEF Ending
    <2>2. i + Len(a) \in 1..Len(s) /\ s[i + Len(a)] = o  BY <1>5, <2>1
    <2>3. ASSUME NEW j \in 1..Len(s), j > i + Len(a) PROVE ~Touches(s[j], t, kinds)
      <3>1. ~(j \in 1..Len(a)) /\ j - Len(a) > i  BY <1>2, <2>3
      <3> QED  BY <1>3, <2>1, <3>1
    <2> QED  BY <2>1, <2>2, <2>3 DEF Ending
  <1>8. ASSUME NEW o, Ending(a, t, kinds, o), Never(b, t, kinds) PROVE Ending(s, t, kinds, o)
    <2>1. PICK i \in 1..Len(a) : /\ a[i] = o /\ Touches(o, t, kinds)
                                 /\ \A j \in 1..Len(a) : j > i => ~Touches(a[j], t, kinds)
      BY <1>8 DEF Ending
    <2>2. \A j \in 1..Len(s) : j > i => ~Touches(s[j], t, kinds)  BY <1>3, <1>8, <2>1 DEF Never
    <2> QED  BY <1>4, <2>1, <2>2 DEF Ending
  <1> QED  BY <1>6, <1>7, <1>8 DEF s

\* What writes the base registers, a channel's compare value, output and mode,
\* and what starts and stops a timer.
BaseKinds  == {"deinit", "base", "prescaler", "reload"}
PulseKinds == {"pulse", "deinit"}
OutKinds   == {"out", "deinit"}
ModeKinds  == {"mode", "deinit"}
RunKinds   == {"on", "off", "deinit"}

BaseOf(t) == [psc |-> reg[t].psc, car |-> reg[t].car, rep |-> reg[t].rep]

\* What these will be when the call of the sketch has returned.
TimingEnds(t, v) ==
    \/ Never(todo, t, {"timing"}) /\ v = timing[t]
    \/ \E o : Ending(todo, t, {"timing"}, o) /\ v = o.v

PwmEnds(t, v) ==
    \/ Never(todo, t, {"pwm"}) /\ v = pwmObj[t][0]
    \/ \E o : Ending(todo, t, {"pwm"}, o) /\ v = o.v

BaseEnds(t, r) ==
    \/ Never(todo, t, BaseKinds) /\ r = BaseOf(t)
    \/ \E o : Ending(todo, t, BaseKinds, o) /\ o.op = "base" /\ r = o.v

PulseEnds(t, n) ==
    \/ Never(todo, t, PulseKinds) /\ n = chan[t][0].pulse
    \/ \E o : Ending(todo, t, PulseKinds, o) /\ o.op = "pulse" /\ o.e = 0 /\ n = Word(o.v)

OutEnds(t, b) ==
    \/ Never(todo, t, OutKinds) /\ b = chan[t][0].out
    \/ \E o : Ending(todo, t, OutKinds, o) /\ o.op = "out" /\ o.e = 0 /\ b = o.v

ModeEnds(t, m) ==
    \/ Never(todo, t, ModeKinds) /\ m = chan[t][0].mode
    \/ \E o : Ending(todo, t, ModeKinds, o) /\ o.op = "mode" /\ o.e = 0 /\ m = o.v

RunEnds(t) ==
    \/ Never(todo, t, RunKinds) /\ reg[t].on
    \/ \E o : Ending(todo, t, RunKinds, o) /\ o.op = "on"

ChanType == [mode : Values, pulse : {Word(v) : v \in Values}, out : Values]

PinsType ==
    /\ chan \in [Timers -> [Channels -> ChanType]] /\ timing \in [Timers -> Values]
    /\ \A i \in 1..Len(todo) : todo[i].op = "pwm" => todo[i].e = 0

-----------------------------------------------------------------------------
(* What one operation does to each of them.                                  *)

LEMMA StepRuns ==
    ASSUME TimersInv, Step
    PROVE  /\ todo # <<>> /\ todo' = Tail(todo) /\ Head(todo) = todo[1] /\ todo[1] \in Ops
           /\ OpFits(todo[1], Coming) /\ TimersType /\ TimersType'
           /\ \/ Deinit(todo[1]) \/ Base(todo[1]) \/ Switch(todo[1]) \/ Update(todo[1])
              \/ Reload(todo[1]) \/ Flag(todo[1]) \/ Channel(todo[1]) \/ Line(todo[1])
              \/ Construct(todo[1]) \/ Callback(todo[1]) \/ PwmField(todo[1])
              \/ Timed(todo[1]) \/ ToneField(todo[1])
  <1>1. TimersType /\ TodoInv /\ TimersType'  BY StepKeeps DEF TimersInv
  <1>2. todo # <<>> /\ todo' = Tail(todo)  BY DEF Step
  <1>3. Head(todo) = todo[1] /\ todo[1] \in Ops /\ 1 \in 1..Len(todo)  BY <1>1, <1>2, Rest
  <1>4. OpFits(todo[1], Coming)  BY <1>1, <1>3 DEF TodoInv
  <1> QED  BY <1>1, <1>2, <1>3, <1>4 DEF Step

LEMMA BaseStep ==
    ASSUME TimersInv, Step, NEW t \in Timers
    PROVE  /\ ~Touches(todo[1], t, BaseKinds) => BaseOf(t)' = BaseOf(t)
           /\ Touches(todo[1], t, BaseKinds) /\ todo[1].op = "base" => BaseOf(t)' = todo[1].v
           /\ ~Touches(todo[1], t, RunKinds) => reg'[t].on = reg[t].on
           /\ Touches(todo[1], t, RunKinds) /\ todo[1].op = "on" => reg'[t].on
  <1> DEFINE o == todo[1]
  <1>1. o \in Ops /\ OpFits(o, Coming) /\ reg \in [Timers -> RegType]  BY StepRuns DEF TimersType
  <1>2. o.op \in OpNames /\ o.t \in Timers  BY <1>1 DEF Ops
  <1> HIDE DEF o
  <1>3. CASE Deinit(o)
    <2>1. o.op = "deinit" /\ reg' = [reg EXCEPT ![o.t] = Reset]  BY <1>3 DEF Deinit
    <2> QED  BY <1>1, <1>2, <2>1 DEF Touches, BaseKinds, RunKinds, BaseOf, o
  <1>4. CASE Base(o)
    <2>1. /\ o.op = "base"
          /\ reg' = [reg EXCEPT ![o.t].psc = o.v.psc, ![o.t].car = o.v.car, ![o.t].rep = o.v.rep,
                                ![o.t].flags = @ \cup {Up}]
      BY <1>4 DEF Base
    <2>2. o.v \in BaseRegs  BY <1>1, <2>1 DEF OpFits
    <2>3. \A s \in Timers : s # o.t => reg'[s] = reg[s]  BY <1>1, <2>1
    <2>4. /\ reg'[o.t].psc = o.v.psc /\ reg'[o.t].car = o.v.car /\ reg'[o.t].rep = o.v.rep
          /\ reg'[o.t].on = reg[o.t].on
      BY <1>1, <1>2, <2>1 DEF RegType
    <2>5. o.v = [psc |-> o.v.psc, car |-> o.v.car, rep |-> o.v.rep]  BY <2>2 DEF BaseRegs
    <2> QED  BY <1>1, <2>1, <2>3, <2>4, <2>5 DEF Touches, BaseKinds, RunKinds, BaseOf, o
  <1>5. CASE Switch(o)
    <2>1. o.op \in {"on", "off"} /\ reg' = [reg EXCEPT ![o.t].on = (o.op = "on")]  BY <1>5 DEF Switch
    <2>2. \A s \in Timers : s # o.t => reg'[s] = reg[s]  BY <1>1, <2>1
    <2>3. /\ reg'[o.t].psc = reg[o.t].psc /\ reg'[o.t].car = reg[o.t].car /\ reg'[o.t].rep = reg[o.t].rep
          /\ reg'[o.t].on = (o.op = "on")
      BY <1>1, <1>2, <2>1 DEF RegType
    <2> QED  BY <2>1, <2>2, <2>3 DEF Touches, BaseKinds, RunKinds, BaseOf, o
  <1>6. CASE Update(o)
    <2>1. /\ o.op \in {"refresh", "prescaler"}
          /\ reg' = [reg EXCEPT ![o.t].flags = @ \cup {Up},
                                ![o.t].psc = IF o.op = "prescaler" THEN Word(o.v - 1) ELSE @]
      BY <1>6 DEF Update
    <2>2. \A s \in Timers : s # o.t => reg'[s] = reg[s]  BY <1>1, <2>1
    <2>3. /\ o.op = "refresh" => reg'[o.t].psc = reg[o.t].psc
          /\ reg'[o.t].car = reg[o.t].car /\ reg'[o.t].rep = reg[o.t].rep
          /\ reg'[o.t].on = reg[o.t].on
      BY <1>1, <1>2, <2>1 DEF RegType
    <2> QED  BY <2>1, <2>2, <2>3 DEF Touches, BaseKinds, RunKinds, BaseOf, o
  <1>7. CASE Reload(o)
    <2>1. o.op = "reload" /\ reg' = [reg EXCEPT ![o.t].car = Word(o.v - 1)]  BY <1>7 DEF Reload
    <2>2. \A s \in Timers : s # o.t => reg'[s] = reg[s]  BY <1>1, <2>1
    <2>3. reg'[o.t].on = reg[o.t].on  BY <1>1, <1>2, <2>1 DEF RegType
    <2> QED  BY <2>1, <2>2, <2>3 DEF Touches, BaseKinds, RunKinds, BaseOf, o
  <1>8. CASE Flag(o)
    <2>1. /\ o.op \in {"clear", "enable", "disable"}
          /\ reg' = [reg EXCEPT
               ![o.t].flags = IF o.op = "clear" THEN @ \ {o.e} ELSE @,
               ![o.t].ie = IF o.op = "enable" THEN @ \cup {o.e}
                           ELSE IF o.op = "disable" THEN @ \ {o.e} ELSE @]
      BY <1>8 DEF Flag
    <2>2. \A s \in Timers : s # o.t => reg'[s] = reg[s]  BY <1>1, <2>1
    <2>3. /\ reg'[o.t].psc = reg[o.t].psc /\ reg'[o.t].car = reg[o.t].car /\ reg'[o.t].rep = reg[o.t].rep
          /\ reg'[o.t].on = reg[o.t].on
      BY <1>1, <1>2, <2>1 DEF RegType
    <2> QED  BY <2>1, <2>2, <2>3 DEF Touches, BaseKinds, RunKinds, BaseOf, o
  <1>9. CASE /\ o.op \in {"mode", "pulse", "out", "line", "construct", "callback", "pwm", "timing", "tone"}
             /\ reg' = reg
    BY <1>9 DEF Touches, BaseKinds, RunKinds, BaseOf, o
  <1> QED
    BY <1>3, <1>4, <1>5, <1>6, <1>7, <1>8, <1>9, StepRuns
    DEF Channel, Line, Construct, Callback, PwmField, Timed, ToneField, o

LEMMA ChanStep ==
    ASSUME TimersInv, PinsType, Step, NEW t \in Timers
    PROVE  /\ chan' \in [Timers -> [Channels -> ChanType]]
           /\ ~Touches(todo[1], t, PulseKinds) => chan'[t][0].pulse = chan[t][0].pulse
           /\ Touches(todo[1], t, PulseKinds) /\ todo[1].op = "pulse" /\ todo[1].e = 0 =>
                 chan'[t][0].pulse = Word(todo[1].v)
           /\ ~Touches(todo[1], t, OutKinds) => chan'[t][0].out = chan[t][0].out
           /\ Touches(todo[1], t, OutKinds) /\ todo[1].op = "out" /\ todo[1].e = 0 =>
                 chan'[t][0].out = todo[1].v
           /\ ~Touches(todo[1], t, ModeKinds) => chan'[t][0].mode = chan[t][0].mode
           /\ Touches(todo[1], t, ModeKinds) /\ todo[1].op = "mode" /\ todo[1].e = 0 =>
                 chan'[t][0].mode = todo[1].v
  <1> DEFINE o == todo[1]
  <1>1. o \in Ops /\ chan \in [Timers -> [Channels -> ChanType]]  BY StepRuns DEF PinsType
  <1>2. o.t \in Timers /\ o.e \in Events /\ o.v \in Values /\ 0 \in Channels  BY <1>1 DEF Ops, Channels
  <1> HIDE DEF o
  <1>3. CASE Deinit(o)
    <2>1. o.op = "deinit" /\ chan' = [chan EXCEPT ![o.t] = [c \in Channels |-> Silent]]
      BY <1>3 DEF Deinit
    <2>2. Silent \in ChanType
      <3>1. "off" \in Values /\ 0 \in Values /\ FALSE \in Values  BY DEF Values, Modes
      <3>2. Word(0) = 0  BY DEF Word
      <3> QED  BY <3>1, <3>2 DEF Silent, ChanType
    <2> QED  BY <1>1, <1>2, <2>1, <2>2 DEF Touches, PulseKinds, OutKinds, ModeKinds, o
  <1>4. CASE Channel(o)
    <2> DEFINE k == CASE o.op = "mode"  -> [chan[o.t][o.e] EXCEPT !.mode = o.v]
                      [] o.op = "pulse" -> [chan[o.t][o.e] EXCEPT !.pulse = Word(o.v)]
                      [] o.op = "out"   -> [chan[o.t][o.e] EXCEPT !.out = o.v]
    <2>1. o.op \in {"mode", "pulse", "out"} /\ chan' = [chan EXCEPT ![o.t][o.e] = k]
      BY <1>4 DEF Channel
    <2>2. o.e \in Channels =>
            /\ k \in ChanType
            /\ k.mode = (IF o.op = "mode" THEN o.v ELSE chan[o.t][o.e].mode)
            /\ k.pulse = (IF o.op = "pulse" THEN Word(o.v) ELSE chan[o.t][o.e].pulse)
            /\ k.out = (IF o.op = "out" THEN o.v ELSE chan[o.t][o.e].out)
      <3>1. SUFFICES ASSUME o.e \in Channels
                     PROVE  /\ k \in ChanType
                            /\ k.mode = (IF o.op = "mode" THEN o.v ELSE chan[o.t][o.e].mode)
                            /\ k.pulse = (IF o.op = "pulse" THEN Word(o.v) ELSE chan[o.t][o.e].pulse)
                            /\ k.out = (IF o.op = "out" THEN o.v ELSE chan[o.t][o.e].out)
        OBVIOUS
      <3>2. chan[o.t][o.e] \in ChanType  BY <1>1, <1>2, <3>1
      <3>3. Word(o.v) \in {Word(v) : v \in Values}  BY <1>2
      <3> QED  BY <1>2, <2>1, <3>2, <3>3 DEF ChanType
    <2> HIDE DEF k
    <2>3. /\ \A s \in Timers, c \in Channels :
                chan'[s][c] = IF s = o.t /\ c = o.e THEN k ELSE chan[s][c]
          /\ chan' \in [Timers -> [Channels -> ChanType]]
      <3>1. CASE o.e \in Channels  BY <1>1, <1>2, <2>1, <2>2, <3>1
      <3>2. CASE o.e \notin Channels
        <4>1. [chan[o.t] EXCEPT ![o.e] = k] = chan[o.t]  BY <1>1, <1>2, <3>2
        <4> QED  BY <1>1, <1>2, <2>1, <3>2, <4>1
      <3> QED  BY <3>1, <3>2
    <2>4. chan'[t][0] = IF t = o.t /\ 0 = o.e THEN k ELSE chan[t][0]  BY <1>2, <2>3
    <2> QED  BY <1>2, <2>1, <2>2, <2>3, <2>4 DEF Touches, PulseKinds, OutKinds, ModeKinds, o
  <1>5. CASE /\ o.op \notin {"deinit", "mode", "pulse", "out"}
             /\ chan' = chan
    BY <1>1, <1>5 DEF Touches, PulseKinds, OutKinds, ModeKinds, o
  <1> QED
    BY <1>3, <1>4, <1>5, StepRuns
    DEF Base, Switch, Update, Reload, Flag, Line, Construct, Callback, PwmField, Timed, ToneField, o

LEMMA ObjectStep ==
    ASSUME TimersInv, PinsType, Step, NEW t \in Timers
    PROVE  /\ timing' \in [Timers -> Values]
           /\ ~Touches(todo[1], t, {"timing"}) => timing'[t] = timing[t]
           /\ Touches(todo[1], t, {"timing"}) => timing'[t] = todo[1].v
           /\ ~Touches(todo[1], t, {"pwm"}) => pwmObj'[t] = pwmObj[t]
           /\ Touches(todo[1], t, {"pwm"}) => pwmObj'[t][0] = todo[1].v
           /\ ~Touches(todo[1], t, {"construct"}) => hwObj'[t].made = hwObj[t].made
           /\ Touches(todo[1], t, {"construct"}) => hwObj'[t].made
  <1> DEFINE o == todo[1]
  <1>1. /\ o \in Ops /\ timing \in [Timers -> Values] /\ pwmObj \in [Timers -> [Channels -> PwmType]]
        /\ hwObj \in [Timers -> HwType] /\ o = todo[1] /\ todo # <<>>
    BY StepRuns DEF PinsType, TimersType
  <1>2. o.t \in Timers /\ o.e \in Events /\ o.v \in Values /\ 0 \in Channels  BY <1>1 DEF Ops, Channels
  <1>3. o.op = "pwm" => o.e = 0
    <2>1. 1 \in 1..Len(todo)  BY StepRuns, Rest
    <2> QED  BY <2>1 DEF PinsType
  <1> HIDE DEF o
  <1>4. CASE Timed(o)
    <2>1. o.op = "timing" /\ timing' = [timing EXCEPT ![o.t] = o.v] /\ pwmObj' = pwmObj /\ hwObj' = hwObj
      BY <1>4 DEF Timed
    <2> QED  BY <1>1, <1>2, <2>1 DEF Touches
  <1>5. CASE PwmField(o)
    <2>1. /\ o.op = "pwm" /\ pwmObj' = [pwmObj EXCEPT ![o.t][0] = o.v]
          /\ timing' = timing /\ hwObj' = hwObj
      BY <1>3, <1>5 DEF PwmField
    <2> QED  BY <1>1, <1>2, <2>1 DEF Touches
  <1>6. CASE Construct(o)
    <2>1. /\ o.op = "construct" /\ hwObj' = [hwObj EXCEPT ![o.t] = [NoObject EXCEPT !.made = TRUE]]
          /\ timing' = timing /\ pwmObj' = pwmObj
      BY <1>6 DEF Construct
    <2>2. [NoObject EXCEPT !.made = TRUE].made  BY DEF NoObject
    <2> QED  BY <1>1, <1>2, <2>1, <2>2 DEF Touches
  <1>7. CASE Callback(o)
    <2>1. /\ o.op = "callback" /\ hwObj' = [hwObj EXCEPT ![o.t].cb[o.e] = o.v]
          /\ timing' = timing /\ pwmObj' = pwmObj
      BY <1>7 DEF Callback
    <2>2. hwObj'[t].made = hwObj[t].made  BY <1>1, <1>2, <2>1 DEF HwType
    <2> QED  BY <1>1, <2>1, <2>2 DEF Touches
  <1>8. CASE /\ o.op \notin {"timing", "pwm", "construct"}
             /\ timing' = timing /\ pwmObj' = pwmObj /\ hwObj' = hwObj
    BY <1>1, <1>8 DEF Touches
  <1> QED
    BY <1>1, <1>4, <1>5, <1>6, <1>7, <1>8, StepRuns
    DEF Deinit, Base, Switch, Update, Reload, Flag, Channel, Line, ToneField

LEMMA EndsStep ==
    ASSUME TimersInv, PinsType, Step, NEW t \in Timers
    PROVE  /\ \A v : TimingEnds(t, v)' => TimingEnds(t, v)
           /\ \A v : PwmEnds(t, v)' => PwmEnds(t, v)
           /\ \A r : BaseEnds(t, r) => BaseEnds(t, r)'
           /\ \A n : PulseEnds(t, n) => PulseEnds(t, n)'
           /\ \A b : OutEnds(t, b) => OutEnds(t, b)'
           /\ \A m : ModeEnds(t, m) => ModeEnds(t, m)'
           /\ RunEnds(t) => RunEnds(t)'
  <1>1. TimersType /\ todo # <<>> /\ todo' = Tail(todo) /\ todo[1] \in Ops  BY StepRuns
  <1>2. todo \in Seq(Ops)  BY <1>1 DEF TimersType
  <1>3. \A kinds : \A o : Ending(todo, t, kinds, o) => Touches(o, t, kinds)  BY DEF Ending
  <1>4. ASSUME NEW v, TimingEnds(t, v)' PROVE TimingEnds(t, v)
    <2>1. CASE Never(todo', t, {"timing"}) /\ v = timing'[t]
      BY <1>1, <2>1, EndingNext, ObjectStep DEF TimingEnds
    <2>2. CASE \E o : Ending(todo', t, {"timing"}, o) /\ v = o.v
      BY <1>1, <2>2, EndingNext DEF TimingEnds
    <2> QED  BY <1>4, <2>1, <2>2 DEF TimingEnds
  <1>5. ASSUME NEW v, PwmEnds(t, v)' PROVE PwmEnds(t, v)
    <2>1. CASE Never(todo', t, {"pwm"}) /\ v = pwmObj'[t][0]
      BY <1>1, <2>1, EndingNext, ObjectStep DEF PwmEnds
    <2>2. CASE \E o : Ending(todo', t, {"pwm"}, o) /\ v = o.v
      BY <1>1, <2>2, EndingNext DEF PwmEnds
    <2> QED  BY <1>5, <2>1, <2>2 DEF PwmEnds
  <1>6. ASSUME NEW r, BaseEnds(t, r) PROVE BaseEnds(t, r)'
    <2>1. CASE Never(todo, t, BaseKinds) /\ r = BaseOf(t)
      BY <1>1, <2>1, EndingNext, BaseStep DEF BaseEnds
    <2>2. CASE \E o : Ending(todo, t, BaseKinds, o) /\ o.op = "base" /\ r = o.v
      <3>1. PICK o : Ending(todo, t, BaseKinds, o) /\ o.op = "base" /\ r = o.v  BY <2>2
      <3> QED  BY <1>1, <1>3, <3>1, EndingNext, BaseStep DEF BaseEnds
    <2> QED  BY <1>6, <2>1, <2>2 DEF BaseEnds
  <1>7. ASSUME NEW n, PulseEnds(t, n) PROVE PulseEnds(t, n)'
    <2>1. CASE Never(todo, t, PulseKinds) /\ n = chan[t][0].pulse
      BY <1>1, <2>1, EndingNext, ChanStep DEF PulseEnds
    <2>2. CASE \E o : Ending(todo, t, PulseKinds, o) /\ o.op = "pulse" /\ o.e = 0 /\ n = Word(o.v)
      <3>1. PICK o : Ending(todo, t, PulseKinds, o) /\ o.op = "pulse" /\ o.e = 0 /\ n = Word(o.v)  BY <2>2
      <3> QED  BY <1>1, <1>3, <3>1, EndingNext, ChanStep DEF PulseEnds
    <2> QED  BY <1>7, <2>1, <2>2 DEF PulseEnds
  <1>8. ASSUME NEW b, OutEnds(t, b) PROVE OutEnds(t, b)'
    <2>1. CASE Never(todo, t, OutKinds) /\ b = chan[t][0].out
      BY <1>1, <2>1, EndingNext, ChanStep DEF OutEnds
    <2>2. CASE \E o : Ending(todo, t, OutKinds, o) /\ o.op = "out" /\ o.e = 0 /\ b = o.v
      <3>1. PICK o : Ending(todo, t, OutKinds, o) /\ o.op = "out" /\ o.e = 0 /\ b = o.v  BY <2>2
      <3> QED  BY <1>1, <1>3, <3>1, EndingNext, ChanStep DEF OutEnds
    <2> QED  BY <1>8, <2>1, <2>2 DEF OutEnds
  <1>9. ASSUME NEW m, ModeEnds(t, m) PROVE ModeEnds(t, m)'
    <2>1. CASE Never(todo, t, ModeKinds) /\ m = chan[t][0].mode
      BY <1>1, <2>1, EndingNext, ChanStep DEF ModeEnds
    <2>2. CASE \E o : Ending(todo, t, ModeKinds, o) /\ o.op = "mode" /\ o.e = 0 /\ m = o.v
      <3>1. PICK o : Ending(todo, t, ModeKinds, o) /\ o.op = "mode" /\ o.e = 0 /\ m = o.v  BY <2>2
      <3> QED  BY <1>1, <1>3, <3>1, EndingNext, ChanStep DEF ModeEnds
    <2> QED  BY <1>9, <2>1, <2>2 DEF ModeEnds
  <1>10. ASSUME RunEnds(t) PROVE RunEnds(t)'
    <2>1. CASE Never(todo, t, RunKinds) /\ reg[t].on
      BY <1>1, <2>1, EndingNext, BaseStep DEF RunEnds
    <2>2. CASE \E o : Ending(todo, t, RunKinds, o) /\ o.op = "on"
      <3>1. PICK o : Ending(todo, t, RunKinds, o) /\ o.op = "on"  BY <2>2
      <3> QED  BY <1>1, <1>3, <3>1, EndingNext, BaseStep DEF RunEnds
    <2> QED  BY <1>10, <2>1, <2>2 DEF RunEnds
  <1> QED  BY <1>4, <1>5, <1>6, <1>7, <1>8, <1>9, <1>10

-----------------------------------------------------------------------------
(* The periods and the waves the calls lead to.                              *)

\* A period that the 16 bits of the counter hold.
Counted(time, format) ==
    /\ time \in Nat \ {0} /\ format \in {"tick", "us", "ms", "hz"}
    /\ format \in {"tick", "us"} => time <= 65536
    /\ format = "ms" => time * 10 <= 65536

\* What the sketch asks for fits the timers' registers.
InRange ==
    /\ Clock \div 10000 <= 65536
    /\ \A time \in Times, format \in Formats : Counted(time, format)

\* With a frequency, a cycle is in percent, and each has its tick.
CyclesInRange ==
    /\ 0 \notin Cycles
    /\ "hz" \in Formats => /\ \A cycle \in Cycles : cycle <= 100
                           /\ \A time \in Times : time * 100 <= Clock

\* The base registers of a period; PWM_init's are one tick longer.
Suits(v, r) ==
    \/ v.by = "timer" /\ Counted(v.time, v.format) /\ r = PeriodRegisters(v.time, v.format)
    \/ v.by = "pwm" /\ Counted(v.time, v.format) /\ r = PwmRegisters(v.time, v.format)
    \/ v.by = "pwm" /\ v.time = 9999 /\ v.format = "us"
       /\ r.psc = Word(Clock \div 1000000 - 1) /\ r.car = 9999

\* The compare value of an object's cycle.
Near(o, r, n) ==
    /\ o.cycle \in Nat \ {0} /\ o.format \in {"us", "ms", "hz"}
    /\ o.format = "hz" => o.cycle <= 100
    /\ \/ n = Word(CompareValue(o.cycle, o.format, r.car) - 1)
       \/ o.format = "us" /\ o.cycle < 65536 /\ n = Word(o.cycle)

BaseInv ==
    \A t \in Timers : \A v :
        TimingEnds(t, v) /\ v.by # "nobody" =>
            \E r \in BaseRegs : BaseEnds(t, r) /\ Suits(v, r)

\* A frequency that PWM was given has a tick for each percent.
Fine(t) ==
    \A v : TimingEnds(t, v) /\ v.by = "pwm" /\ v.format = "hz" => v.time * 100 <= Clock

RunInv ==
    \A t \in Timers : \A o :
        PwmEnds(t, o) /\ o.made =>
            ModeEnds(t, "pwm") /\ RunEnds(t) /\ OutEnds(t, o.active) /\ Fine(t)

Timing(o) == [by |-> "pwm", time |-> o.period, format |-> o.format]

WaveInv ==
    \A t \in Timers : \A o :
        PwmEnds(t, o) /\ o.made /\ TimingEnds(t, Timing(o)) =>
            \E r \in BaseRegs : \E n :
                BaseEnds(t, r) /\ Suits(Timing(o), r) /\ PulseEnds(t, n) /\ Near(o, r, n)

\* The tone timer is not used for PWM, and an object that exists was made.
OwnInv ==
    /\ hwObj[ToneTimer].made /\ Never(todo, ToneTimer, {"pwm"})
    /\ ~pwmObj[ToneTimer][0].made
    /\ \A t \in Timers : \A o : PwmEnds(t, o) /\ o.alive => o.made

PeriodInv == PinsType /\ BaseInv
OutputInv == RunInv /\ WaveInv /\ OwnInv

LEMMA PinsStep ==
    ASSUME TimersInv, PeriodInv, Step
    PROVE  PeriodInv' /\ (OutputInv => OutputInv')
  <1>1. PinsType /\ BaseInv  BY DEF PeriodInv
  <1>2. PinsType'
    <2>1. \A i \in 1..Len(todo') : todo'[i] = todo[i + 1] /\ i + 1 \in 1..Len(todo)
      BY StepRuns, Rest
    <2>2. ToneTimer \in Timers  BY TimersAssumption
    <2>3. chan' \in [Timers -> [Channels -> ChanType]]  BY <1>1, <2>2, ChanStep
    <2>4. timing' \in [Timers -> Values]  BY <1>1, <2>2, ObjectStep
    <2>5. \A i \in 1..Len(todo') : todo'[i].op = "pwm" => todo'[i].e = 0  BY <1>1, <2>1 DEF PinsType
    <2> QED  BY <2>3, <2>4, <2>5 DEF PinsType
  <1>3. BaseInv'
    <2>1. SUFFICES ASSUME NEW t \in Timers, NEW v, TimingEnds(t, v)', v.by # "nobody"
                   PROVE  \E r \in BaseRegs : BaseEnds(t, r)' /\ Suits(v, r)
      BY DEF BaseInv, Suits, Counted
    <2>2. TimingEnds(t, v)  BY <1>1, <2>1, EndsStep
    <2>3. PICK r \in BaseRegs : BaseEnds(t, r) /\ Suits(v, r)  BY <1>1, <2>1, <2>2 DEF BaseInv
    <2> QED  BY <1>1, <2>3, EndsStep
  <1>4. ASSUME OutputInv PROVE OutputInv'
    <2>1. RunInv'
      <3>1. SUFFICES ASSUME NEW t \in Timers, NEW o, PwmEnds(t, o)', o.made
                     PROVE  ModeEnds(t, "pwm")' /\ RunEnds(t)' /\ OutEnds(t, o.active)' /\ Fine(t)'
        BY DEF RunInv
      <3>2. PwmEnds(t, o)  BY <1>1, <3>1, EndsStep
      <3>3. ModeEnds(t, "pwm") /\ RunEnds(t) /\ OutEnds(t, o.active) /\ Fine(t)
        BY <1>4, <3>1, <3>2 DEF OutputInv, RunInv
      <3>4. Fine(t)'  BY <1>1, <3>3, EndsStep DEF Fine
      <3> QED  BY <1>1, <3>3, <3>4, EndsStep
    <2>2. WaveInv'
      <3>1. SUFFICES ASSUME NEW t \in Timers, NEW o, PwmEnds(t, o)', o.made, TimingEnds(t, Timing(o))'
                     PROVE  \E r \in BaseRegs : \E n :
                                BaseEnds(t, r)' /\ Suits(Timing(o), r) /\ PulseEnds(t, n)' /\ Near(o, r, n)
        BY DEF WaveInv, Timing, Suits, Counted, Near
      <3>2. PwmEnds(t, o) /\ TimingEnds(t, Timing(o))  BY <1>1, <3>1, EndsStep
      <3>3. PICK r \in BaseRegs : \E n : BaseEnds(t, r) /\ Suits(Timing(o), r) /\ PulseEnds(t, n) /\ Near(o, r, n)
        BY <1>4, <3>1, <3>2 DEF OutputInv, WaveInv
      <3>4. PICK n : BaseEnds(t, r) /\ Suits(Timing(o), r) /\ PulseEnds(t, n) /\ Near(o, r, n)  BY <3>3
      <3> QED  BY <1>1, <3>4, EndsStep
    <2>3. OwnInv'
      <3>1. ToneTimer \in Timers  BY TimersAssumption
      <3>2. OwnInv  BY <1>4 DEF OutputInv
      <3>3. todo # <<>> /\ todo' = Tail(todo) /\ TimersType  BY StepRuns
      <3>4. Never(todo', ToneTimer, {"pwm"}) /\ ~Touches(todo[1], ToneTimer, {"pwm"})
        BY <3>2, <3>3, EndingNext DEF OwnInv
      <3>5. pwmObj'[ToneTimer] = pwmObj[ToneTimer] /\ hwObj'[ToneTimer].made
        BY <1>1, <3>1, <3>2, <3>4, ObjectStep DEF OwnInv
      <3>6. \A t \in Timers : \A o : PwmEnds(t, o)' /\ o.alive => o.made
        BY <1>1, <3>2, EndsStep DEF OwnInv
      <3> QED  BY <3>2, <3>4, <3>5, <3>6 DEF OwnInv
    <2> QED  BY <2>1, <2>2, <2>3 DEF OutputInv
  <1> QED  BY <1>2, <1>3, <1>4 DEF PeriodInv

\* The same of one timer.
BaseAt(t) ==
    \A v : TimingEnds(t, v) /\ v.by # "nobody" => \E r \in BaseRegs : BaseEnds(t, r) /\ Suits(v, r)

RunAt(t) ==
    \A o : PwmEnds(t, o) /\ o.made =>
        ModeEnds(t, "pwm") /\ RunEnds(t) /\ OutEnds(t, o.active) /\ Fine(t)

WaveAt(t) ==
    \A o : PwmEnds(t, o) /\ o.made /\ TimingEnds(t, Timing(o)) =>
        \E r \in BaseRegs : \E n :
            BaseEnds(t, r) /\ Suits(Timing(o), r) /\ PulseEnds(t, n) /\ Near(o, r, n)

LEMMA EachTimer ==
    /\ BaseInv <=> \A t \in Timers : BaseAt(t)
    /\ RunInv <=> \A t \in Timers : RunAt(t)
    /\ WaveInv <=> \A t \in Timers : WaveAt(t)
  BY DEF BaseInv, BaseAt, RunInv, RunAt, WaveInv, WaveAt

LEMMA EachTimerNext ==
    /\ BaseInv' <=> \A t \in Timers : BaseAt(t)'
    /\ RunInv' <=> \A t \in Timers : RunAt(t)'
    /\ WaveInv' <=> \A t \in Timers : WaveAt(t)'
  BY DEF BaseInv, BaseAt, RunInv, RunAt, WaveInv, WaveAt

\* A step that leaves all of this alone.
LEMMA PinsQuiet ==
    ASSUME PeriodInv, UNCHANGED <<todo, chan, timing, pwmObj>>,
           \A t \in Timers : BaseOf(t)' = BaseOf(t) /\ reg'[t].on = reg[t].on,
           hwObj[ToneTimer].made => hwObj'[ToneTimer].made
    PROVE  PeriodInv' /\ (OutputInv => OutputInv')
  <1>1. ASSUME NEW t \in Timers
        PROVE  /\ \A v : TimingEnds(t, v)' <=> TimingEnds(t, v)
               /\ \A v : PwmEnds(t, v)' <=> PwmEnds(t, v)
               /\ \A r : BaseEnds(t, r)' <=> BaseEnds(t, r)
               /\ \A n : PulseEnds(t, n)' <=> PulseEnds(t, n)
               /\ \A b : OutEnds(t, b)' <=> OutEnds(t, b)
               /\ \A m : ModeEnds(t, m)' <=> ModeEnds(t, m)
               /\ RunEnds(t)' <=> RunEnds(t)
    <2>1. todo' = todo /\ chan' = chan /\ timing' = timing /\ pwmObj' = pwmObj  OBVIOUS
    <2>2. \A v : TimingEnds(t, v)' <=> TimingEnds(t, v)  BY <2>1 DEF TimingEnds
    <2>3. \A v : PwmEnds(t, v)' <=> PwmEnds(t, v)  BY <2>1 DEF PwmEnds
    <2>4. \A r : BaseEnds(t, r)' <=> BaseEnds(t, r)  BY <2>1 DEF BaseEnds
    <2>5. \A n : PulseEnds(t, n)' <=> PulseEnds(t, n)  BY <2>1 DEF PulseEnds
    <2>6. \A b : OutEnds(t, b)' <=> OutEnds(t, b)  BY <2>1 DEF OutEnds
    <2>7. \A m : ModeEnds(t, m)' <=> ModeEnds(t, m)  BY <2>1 DEF ModeEnds
    <2>8. RunEnds(t)' <=> RunEnds(t)  BY <2>1 DEF RunEnds
    <2> QED  BY <2>2, <2>3, <2>4, <2>5, <2>6, <2>7, <2>8
  <1>2. PinsType'  BY DEF PeriodInv, PinsType
  <1>3. BaseInv'  BY <1>1, EachTimer, EachTimerNext DEF PeriodInv, BaseAt
  <1>4. ASSUME OutputInv PROVE OutputInv'
    <2>1. RunInv'  BY <1>1, <1>4, EachTimer, EachTimerNext DEF OutputInv, RunAt, Fine
    <2>2. WaveInv'
      <3>1. SUFFICES ASSUME NEW t \in Timers, NEW o, PwmEnds(t, o)', o.made, TimingEnds(t, Timing(o))'
                     PROVE  \E r \in BaseRegs : \E n :
                                BaseEnds(t, r)' /\ Suits(Timing(o), r) /\ PulseEnds(t, n)' /\ Near(o, r, n)
        BY DEF WaveInv, Timing, Suits, Counted, Near
      <3>2. PICK r \in BaseRegs : \E n : BaseEnds(t, r) /\ Suits(Timing(o), r) /\ PulseEnds(t, n) /\ Near(o, r, n)
        BY <1>1, <1>4, <3>1 DEF OutputInv, WaveInv
      <3>3. PICK n : BaseEnds(t, r) /\ Suits(Timing(o), r) /\ PulseEnds(t, n) /\ Near(o, r, n)  BY <3>2
      <3> QED  BY <1>1, <3>3
    <2>3. OwnInv'  BY <1>1, <1>4 DEF OutputInv, OwnInv
    <2> QED  BY <2>1, <2>2, <2>3 DEF OutputInv
  <1> QED  BY <1>2, <1>3, <1>4 DEF PeriodInv

\* Between two calls.
LEMMA EndsIdle ==
    ASSUME todo = <<>>, NEW t
    PROVE  /\ \A v : TimingEnds(t, v) <=> v = timing[t]
           /\ \A v : PwmEnds(t, v) <=> v = pwmObj[t][0]
           /\ \A r : BaseEnds(t, r) <=> r = BaseOf(t)
           /\ \A n : PulseEnds(t, n) <=> n = chan[t][0].pulse
           /\ \A b : OutEnds(t, b) <=> b = chan[t][0].out
           /\ \A m : ModeEnds(t, m) <=> m = chan[t][0].mode
           /\ RunEnds(t) <=> reg[t].on
  <1>1. \A kinds : Never(todo, t, kinds) /\ \A o : ~Ending(todo, t, kinds, o)  BY DEF Never, Ending
  <1> QED  BY <1>1 DEF TimingEnds, PwmEnds, BaseEnds, PulseEnds, OutEnds, ModeEnds, RunEnds

\* What a call will lead to.
LEMMA EndsCall ==
    ASSUME NEW ops \in Seq(Ops), Call(ops), NEW t
    PROVE  /\ Never(ops, t, {"timing"}) => \A v : TimingEnds(t, v)' <=> v = timing[t]
           /\ \A o : Ending(ops, t, {"timing"}, o) => \A v : TimingEnds(t, v)' <=> v = o.v
           /\ Never(ops, t, {"pwm"}) => \A v : PwmEnds(t, v)' <=> v = pwmObj[t][0]
           /\ \A o : Ending(ops, t, {"pwm"}, o) => \A v : PwmEnds(t, v)' <=> v = o.v
           /\ Never(ops, t, BaseKinds) => \A r : BaseEnds(t, r)' <=> r = BaseOf(t)
           /\ \A o : Ending(ops, t, BaseKinds, o) /\ o.op = "base" => BaseEnds(t, o.v)'
           /\ Never(ops, t, PulseKinds) => \A x : PulseEnds(t, x)' <=> x = chan[t][0].pulse
           /\ \A o : Ending(ops, t, PulseKinds, o) /\ o.op = "pulse" /\ o.e = 0 => PulseEnds(t, Word(o.v))'
           /\ Never(ops, t, OutKinds) => \A x : OutEnds(t, x)' <=> x = chan[t][0].out
           /\ \A o : Ending(ops, t, OutKinds, o) /\ o.op = "out" /\ o.e = 0 => OutEnds(t, o.v)'
           /\ Never(ops, t, ModeKinds) => \A x : ModeEnds(t, x)' <=> x = chan[t][0].mode
           /\ \A o : Ending(ops, t, ModeKinds, o) /\ o.op = "mode" /\ o.e = 0 => ModeEnds(t, o.v)'
           /\ Never(ops, t, RunKinds) /\ reg[t].on => RunEnds(t)'
           /\ \A o : Ending(ops, t, RunKinds, o) /\ o.op = "on" => RunEnds(t)'
  <1>1. todo' = ops /\ UNCHANGED <<reg, chan, pwmObj, timing>>  BY DEF Call
  <1>2. BaseOf(t)' = BaseOf(t)  BY <1>1 DEF BaseOf
  <1>3. \A kinds : \A o : Ending(ops, t, kinds, o) =>
            ~Never(ops, t, kinds) /\ \A p : Ending(ops, t, kinds, p) => p = o
    BY EndingOnce
  <1>4. \A kinds : Never(ops, t, kinds) => \A o : ~Ending(ops, t, kinds, o)  BY <1>3
  <1>5. /\ Never(ops, t, {"timing"}) => \A v : TimingEnds(t, v)' <=> v = timing[t]
        /\ \A o : Ending(ops, t, {"timing"}, o) => \A v : TimingEnds(t, v)' <=> v = o.v
    BY <1>1, <1>3, <1>4 DEF TimingEnds
  <1>6. /\ Never(ops, t, {"pwm"}) => \A v : PwmEnds(t, v)' <=> v = pwmObj[t][0]
        /\ \A o : Ending(ops, t, {"pwm"}, o) => \A v : PwmEnds(t, v)' <=> v = o.v
    BY <1>1, <1>3, <1>4 DEF PwmEnds
  <1>7. /\ Never(ops, t, BaseKinds) => \A r : BaseEnds(t, r)' <=> r = BaseOf(t)
        /\ \A o : Ending(ops, t, BaseKinds, o) /\ o.op = "base" => BaseEnds(t, o.v)'
    BY <1>1, <1>2, <1>4 DEF BaseEnds
  <1>8. /\ Never(ops, t, PulseKinds) => \A x : PulseEnds(t, x)' <=> x = chan[t][0].pulse
        /\ \A o : Ending(ops, t, PulseKinds, o) /\ o.op = "pulse" /\ o.e = 0 => PulseEnds(t, Word(o.v))'
    BY <1>1, <1>4 DEF PulseEnds
  <1>9. /\ Never(ops, t, OutKinds) => \A x : OutEnds(t, x)' <=> x = chan[t][0].out
        /\ \A o : Ending(ops, t, OutKinds, o) /\ o.op = "out" /\ o.e = 0 => OutEnds(t, o.v)'
    BY <1>1, <1>4 DEF OutEnds
  <1>10. /\ Never(ops, t, ModeKinds) => \A x : ModeEnds(t, x)' <=> x = chan[t][0].mode
         /\ \A o : Ending(ops, t, ModeKinds, o) /\ o.op = "mode" /\ o.e = 0 => ModeEnds(t, o.v)'
    BY <1>1, <1>4 DEF ModeEnds
  <1>11. /\ Never(ops, t, RunKinds) /\ reg[t].on => RunEnds(t)'
         /\ \A o : Ending(ops, t, RunKinds, o) /\ o.op = "on" => RunEnds(t)'
    BY <1>1 DEF RunEnds
  <1> QED  BY <1>5, <1>6, <1>7, <1>8, <1>9, <1>10, <1>11

AllKinds ==
    {"timing", "pwm"} \cup BaseKinds \cup PulseKinds \cup OutKinds \cup ModeKinds \cup RunKinds

LEMMA NeverLess ==
    ASSUME NEW ops, NEW t, NEW K, NEW L \in SUBSET K, Never(ops, t, K)
    PROVE  Never(ops, t, L)
  BY DEF Never, Touches

LEMMA NeverAll ==
    ASSUME NEW ops, NEW t, Never(ops, t, AllKinds)
    PROVE  /\ Never(ops, t, {"timing"}) /\ Never(ops, t, {"pwm"}) /\ Never(ops, t, BaseKinds)
           /\ Never(ops, t, PulseKinds) /\ Never(ops, t, OutKinds) /\ Never(ops, t, ModeKinds)
           /\ Never(ops, t, RunKinds)
  BY NeverLess DEF AllKinds

\* A call whose operations are all of one timer.
Of(ops, t) == \A i \in 1..Len(ops) : ops[i].t = t

LEMMA OfNever ==
    ASSUME NEW ops, NEW t, Of(ops, t), NEW s, s # t, NEW K
    PROVE  Never(ops, s, K)
  BY DEF Of, Never, Touches

LEMMA CallOps ==
    ASSUME TimersInv', NEW ops, Call(ops)
    PROVE  /\ ops \in Seq(Ops) /\ todo = <<>> /\ todo' = ops
           /\ UNCHANGED <<reg, chan, hwObj, pwmObj, timing>>
  BY DEF Call, TimersInv, TimersType

LEMMA BaseStays ==
    ASSUME TimersInv', NEW ops, Call(ops), NEW t \in Timers, BaseAt(t),
           Never(ops, t, {"timing"}), Never(ops, t, BaseKinds)
    PROVE  BaseAt(t)'
  <1>1. ops \in Seq(Ops) /\ todo = <<>>  BY CallOps
  <1>2. SUFFICES ASSUME NEW v, TimingEnds(t, v)', v.by # "nobody"
                 PROVE  \E r \in BaseRegs : BaseEnds(t, r)' /\ Suits(v, r)
    BY DEF BaseAt, Suits, Counted
  <1>3. v = timing[t]  BY <1>1, <1>2, EndsCall
  <1>4. PICK r \in BaseRegs : r = BaseOf(t) /\ Suits(v, r)  BY <1>1, <1>2, <1>3, EndsIdle DEF BaseAt
  <1> QED  BY <1>1, <1>4, EndsCall

LEMMA WaveStays ==
    ASSUME TimersInv', NEW ops, Call(ops), NEW t \in Timers, RunAt(t), WaveAt(t),
           Never(ops, t, AllKinds)
    PROVE  RunAt(t)' /\ WaveAt(t)'
  <1>1. ops \in Seq(Ops) /\ todo = <<>>  BY CallOps
  <1>2. /\ \A v : PwmEnds(t, v)' <=> PwmEnds(t, v)
        /\ \A v : TimingEnds(t, v)' <=> TimingEnds(t, v)
        /\ \A r : BaseEnds(t, r)' <=> BaseEnds(t, r)
        /\ \A n : PulseEnds(t, n)' <=> PulseEnds(t, n)
        /\ \A b : OutEnds(t, b)' <=> OutEnds(t, b)
        /\ \A m : ModeEnds(t, m)' <=> ModeEnds(t, m)
        /\ RunEnds(t) => RunEnds(t)'
    <2>1. /\ Never(ops, t, {"timing"}) /\ Never(ops, t, {"pwm"}) /\ Never(ops, t, BaseKinds)
          /\ Never(ops, t, PulseKinds) /\ Never(ops, t, OutKinds) /\ Never(ops, t, ModeKinds)
          /\ Never(ops, t, RunKinds)
      BY NeverAll
    <2> QED  BY <1>1, <2>1, EndsIdle, EndsCall
  <1>3. RunAt(t)'  BY <1>2 DEF RunAt, Fine
  <1>4. WaveAt(t)'
    <2>1. SUFFICES ASSUME NEW o, PwmEnds(t, o)', o.made, TimingEnds(t, Timing(o))'
                   PROVE  \E r \in BaseRegs : \E n :
                              BaseEnds(t, r)' /\ Suits(Timing(o), r) /\ PulseEnds(t, n)' /\ Near(o, r, n)
      BY DEF WaveAt, Timing, Suits, Counted, Near
    <2>2. PICK r \in BaseRegs : \E n : BaseEnds(t, r) /\ Suits(Timing(o), r) /\ PulseEnds(t, n) /\ Near(o, r, n)
      BY <1>2, <2>1 DEF WaveAt
    <2>3. PICK n : BaseEnds(t, r) /\ Suits(Timing(o), r) /\ PulseEnds(t, n) /\ Near(o, r, n)  BY <2>2
    <2> QED  BY <1>2, <2>3
  <1> QED  BY <1>3, <1>4

\* A call on one timer, where that timer is left as it should be.
LEMMA CallOn ==
    ASSUME PeriodInv, TimersInv', NEW ops, Call(ops), NEW t \in Timers, Of(ops, t),
           \A i \in 1..Len(ops) : ops[i].op = "pwm" => ops[i].e = 0, BaseAt(t)'
    PROVE  /\ PeriodInv'
           /\ (/\ OutputInv /\ RunAt(t)' /\ WaveAt(t)'
               /\ (t # ToneTimer \/ Never(ops, t, {"pwm"}))
               /\ \A o : PwmEnds(t, o)' /\ o.alive => o.made) => OutputInv'
  <1>1. /\ ops \in Seq(Ops) /\ todo = <<>> /\ todo' = ops
        /\ UNCHANGED <<reg, chan, hwObj, pwmObj, timing>>
    BY CallOps
  <1>2. \A s \in Timers : s # t => \A K : Never(ops, s, K)  BY OfNever
  <1>3. PinsType'  BY <1>1 DEF PeriodInv, PinsType
  <1>4. BaseInv'
    <2>1. \A s \in Timers : s # t => BaseAt(s)'  BY <1>2, BaseStays, EachTimer DEF PeriodInv
    <2> QED  BY <2>1, EachTimerNext
  <1>5. ASSUME OutputInv, RunAt(t)', WaveAt(t)', t # ToneTimer \/ Never(ops, t, {"pwm"}),
               \A o : PwmEnds(t, o)' /\ o.alive => o.made
        PROVE  OutputInv'
    <2>1. \A s \in Timers : s # t => RunAt(s)' /\ WaveAt(s)'
      BY <1>2, <1>5, WaveStays, EachTimer DEF OutputInv
    <2>2. RunInv' /\ WaveInv'  BY <1>5, <2>1, EachTimerNext
    <2>3. OwnInv'
      <3>1. ToneTimer \in Timers  BY TimersAssumption
      <3>2. Never(ops, ToneTimer, {"pwm"})  BY <1>2, <1>5, <3>1
      <3>3. ASSUME NEW s \in Timers, NEW o, PwmEnds(s, o)', o.alive PROVE o.made
        <4>1. CASE s = t  BY <1>5, <3>3, <4>1
        <4>2. CASE s # t
          <5>1. Never(ops, s, {"pwm"})  BY <1>2, <4>2
          <5>2. o = pwmObj[s][0]  BY <1>1, <3>3, <5>1, EndsCall
          <5>3. PwmEnds(s, o)  BY <1>1, <5>2, EndsIdle
          <5> QED  BY <1>5, <3>3, <5>3 DEF OutputInv, OwnInv
        <4> QED  BY <4>1, <4>2
      <3> QED  BY <1>1, <1>5, <3>2, <3>3 DEF OutputInv, OwnInv
    <2> QED  BY <2>2, <2>3 DEF OutputInv
  <1> QED  BY <1>3, <1>4, <1>5 DEF PeriodInv

LEMMA NoPwmOps ==
    ASSUME NEW ops, NEW t, Of(ops, t), Never(ops, t, {"pwm"})
    PROVE  \A i \in 1..Len(ops) : ops[i].op = "pwm" => ops[i].e = 0
  BY DEF Of, Never, Touches

\* One that has no PWM object, or is left without one.
LEMMA TimerCallOn ==
    ASSUME PeriodInv, TimersInv', NEW ops, Call(ops), NEW t \in Timers, Of(ops, t),
           Never(ops, t, {"pwm"}), BaseAt(t)'
    PROVE  PeriodInv' /\ (OutputInv /\ ~pwmObj[t][0].made => OutputInv')
  <1>1. ops \in Seq(Ops) /\ todo = <<>>  BY CallOps
  <1>2. \A o : PwmEnds(t, o)' <=> o = pwmObj[t][0]  BY <1>1, EndsCall
  <1>3. PeriodInv'  BY CallOn, NoPwmOps
  <1>4. ASSUME OutputInv, ~pwmObj[t][0].made PROVE OutputInv'
    <2>1. RunAt(t)' /\ WaveAt(t)'  BY <1>2, <1>4 DEF RunAt, WaveAt
    <2>2. \A o : PwmEnds(t, o)' /\ o.alive => o.made
      BY <1>1, <1>2, <1>4, EndsIdle DEF OutputInv, OwnInv
    <2> QED  BY <1>4, <2>1, <2>2, CallOn, NoPwmOps
  <1> QED  BY <1>3, <1>4

\* One whose operations set nothing of this.
LEMMA IdleCallOn ==
    ASSUME PeriodInv, TimersInv', NEW ops, Call(ops), NEW t \in Timers, Of(ops, t),
           Never(ops, t, AllKinds)
    PROVE  PeriodInv' /\ (OutputInv => OutputInv')
  <1>1. ops \in Seq(Ops) /\ todo = <<>>  BY CallOps
  <1>2. Never(ops, t, {"timing"}) /\ Never(ops, t, {"pwm"}) /\ Never(ops, t, BaseKinds)  BY NeverAll
  <1>3. BaseAt(t)'  BY <1>2, BaseStays, EachTimer DEF PeriodInv
  <1>4. PeriodInv'  BY <1>2, <1>3, CallOn, NoPwmOps
  <1>5. ASSUME OutputInv PROVE OutputInv'
    <2>1. RunAt(t)' /\ WaveAt(t)'  BY <1>5, WaveStays, EachTimer DEF OutputInv
    <2>2. \A o : PwmEnds(t, o)' /\ o.alive => o.made
      BY <1>1, <1>2, <1>5, EndsIdle, EndsCall DEF OutputInv, OwnInv
    <2> QED  BY <1>2, <1>3, <1>5, <2>1, <2>2, CallOn, NoPwmOps
  <1> QED  BY <1>4, <1>5

\* A call that sets the period and then the base registers for it.
LEMMA SetsPeriod ==
    ASSUME TimersInv', NEW ops, Call(ops), NEW t \in Timers, NEW a, NEW b,
           Ending(ops, t, {"timing"}, a), Ending(ops, t, BaseKinds, b), b.op = "base",
           b.v \in BaseRegs, Suits(a.v, b.v)
    PROVE  BaseAt(t)'
  <1>1. ops \in Seq(Ops)  BY CallOps
  <1>2. SUFFICES ASSUME NEW v, TimingEnds(t, v)', v.by # "nobody"
                 PROVE  \E r \in BaseRegs : BaseEnds(t, r)' /\ Suits(v, r)
    BY DEF BaseAt, Suits, Counted
  <1>3. v = a.v
    <2>1. \A w : TimingEnds(t, w)' <=> w = a.v  BY <1>1, EndsCall, SMTT(40)
    <2> QED  BY <1>2, <2>1
  <1>4. BaseEnds(t, b.v)'  BY <1>1, EndsCall, SMTT(40)
  <1> QED  BY <1>3, <1>4

LEMMA FreeTimer ==
    ASSUME NEW t, Free(t), ~Shared PROVE ~pwmObj[t][0].made /\ t # ToneTimer
  BY DEF Free, HasPwm, Channels

LEMMA SetPeriodPins ==
    ASSUME NEW t, NEW time, NEW format, NEW ops, ops = SetPeriodOps(t, time, format)
    PROVE  /\ Of(ops, t) /\ Never(ops, t, {"pwm"})
           /\ Ending(ops, t, {"timing"}, ops[1]) /\ Ending(ops, t, BaseKinds, ops[3])
           /\ ops[1].v = [by |-> "timer", time |-> time, format |-> format]
           /\ ops[3].op = "base" /\ ops[3].v = PeriodRegisters(time, format)
  <1>1. PICK u : u = [by |-> "timer", time |-> time, format |-> format]  OBVIOUS
  <1>2. PICK r : r = PeriodRegisters(time, format)  OBVIOUS
  <1>3. /\ Len(ops) = 3 /\ ops[1] = ValueOp("timing", t, Up, u)
        /\ ops[2] = Op("deinit", t) /\ ops[3] = ValueOp("base", t, Up, r)
    BY <1>1, <1>2 DEF SetPeriodOps
  <1>4. /\ ops[1].op = "timing" /\ ops[1].t = t /\ ops[1].v = u
        /\ ops[2].op = "deinit" /\ ops[2].t = t
        /\ ops[3].op = "base" /\ ops[3].t = t /\ ops[3].v = r
    BY <1>3 DEF ValueOp, Op
  <1>5. Of(ops, t)  BY <1>3, <1>4 DEF Of
  <1>6. Never(ops, t, {"pwm"})  BY <1>3, <1>4 DEF Never, Touches
  <1>7. Ending(ops, t, {"timing"}, ops[1])  BY <1>3, <1>4 DEF Ending, Touches
  <1>8. Ending(ops, t, BaseKinds, ops[3])  BY <1>3, <1>4 DEF Ending, Touches, BaseKinds
  <1> QED  BY <1>1, <1>2, <1>4, <1>5, <1>6, <1>7, <1>8

LEMMA SetPeriodTimePins ==
    ASSUME TimersInv', PeriodInv, InRange, NEW t \in Timers, SetPeriodTime(t)
    PROVE  PeriodInv' /\ (OutputInv /\ ~Shared => OutputInv')
  <1>1. PICK time \in Times, format \in Formats : Call(SetPeriodOps(t, time, format))
    BY DEF SetPeriodTime
  <1>2. PICK ops : ops = SetPeriodOps(t, time, format)  OBVIOUS
  <1>3. time \in Nat \ {0} /\ format \in Units  BY TimesFit
  <1>4. PeriodRegisters(time, format) \in BaseRegs  BY <1>3, PeriodFits
  <1>5. Suits([by |-> "timer", time |-> time, format |-> format], PeriodRegisters(time, format))
    BY DEF InRange, Suits
  <1>6. Call(ops) /\ BaseAt(t)'
    BY <1>1, <1>2, <1>4, <1>5, SetPeriodPins, SetsPeriod
  <1>7. ~Shared => ~pwmObj[t][0].made  BY FreeTimer DEF SetPeriodTime
  <1> QED  BY <1>2, <1>6, <1>7, SetPeriodPins, TimerCallOn

LEMMA NewTimerPins ==
    ASSUME TimersInv', PeriodInv, NEW t \in Timers, NewTimer(t)
    PROVE  PeriodInv' /\ (OutputInv /\ ~Shared => OutputInv')
  <1>1. PICK u : u = [by |-> "timer", time |-> 1, format |-> "ms"]  OBVIOUS
  <1>2. PICK r : r = PeriodRegisters(1, "ms")  OBVIOUS
  <1>3. PICK ops : ops = <<Op("construct", t), ValueOp("timing", t, Up, u)>> \o TimerInit(t)  OBVIOUS
  <1>4. Call(ops)  BY <1>1, <1>3 DEF NewTimer
  <1>5. /\ Len(ops) = 6
        /\ ops[1] = Op("construct", t) /\ ops[2] = ValueOp("timing", t, Up, u)
        /\ ops[3] = ValueOp("line", t, Up, UpIrq(t)) /\ ops[4] = ValueOp("line", t, Up, CcIrq(t))
        /\ ops[5] = Op("deinit", t) /\ ops[6] = ValueOp("base", t, Up, r)
    BY <1>2, <1>3 DEF TimerInit
  <1>6. /\ ops[1].op = "construct" /\ ops[1].t = t
        /\ ops[2].op = "timing" /\ ops[2].t = t /\ ops[2].v = u
        /\ ops[3].op = "line" /\ ops[3].t = t /\ ops[4].op = "line" /\ ops[4].t = t
        /\ ops[5].op = "deinit" /\ ops[5].t = t
        /\ ops[6].op = "base" /\ ops[6].t = t /\ ops[6].v = r
    BY <1>5 DEF ValueOp, Op
  <1>7. Of(ops, t) /\ Never(ops, t, {"pwm"})  BY <1>5, <1>6 DEF Of, Never, Touches
  <1>8. Ending(ops, t, {"timing"}, ops[2])  BY <1>5, <1>6 DEF Ending, Touches
  <1>9. Ending(ops, t, BaseKinds, ops[6])  BY <1>5, <1>6 DEF Ending, Touches, BaseKinds
  <1>10. r \in BaseRegs  BY <1>2, PeriodFits DEF Units
  <1>11. Suits(u, r)  BY <1>1, <1>2 DEF Suits, Counted
  <1>12. BaseAt(t)'  BY <1>4, <1>6, <1>8, <1>9, <1>10, <1>11, SetsPeriod
  <1>13. ~Shared => ~pwmObj[t][0].made  BY FreeTimer DEF NewTimer
  <1> QED  BY <1>4, <1>7, <1>12, <1>13, TimerCallOn

\* Calls of one or two operations.
LEMMA OneOp ==
    ASSUME NEW o, NEW t, o.t = t, NEW ops, ops = <<o>>
    PROVE  /\ Of(ops, t) /\ Len(ops) = 1 /\ ops[1] = o
           /\ \A K : o.op \notin K => Never(ops, t, K)
           /\ \A K : o.op \in K => Ending(ops, t, K, o)
  <1>1. Len(ops) = 1 /\ ops[1] = o  OBVIOUS
  <1> QED  BY <1>1 DEF Of, Never, Ending, Touches

LEMMA TwoOps ==
    ASSUME NEW o, NEW p, NEW t, o.t = t, p.t = t, NEW ops, ops = <<o, p>>
    PROVE  /\ Of(ops, t) /\ Len(ops) = 2 /\ ops[1] = o /\ ops[2] = p
           /\ \A K : o.op \notin K /\ p.op \notin K => Never(ops, t, K)
           /\ \A K : o.op \in K /\ p.op \notin K => Ending(ops, t, K, o)
           /\ \A K : p.op \in K => Ending(ops, t, K, p)
  <1>1. Len(ops) = 2 /\ ops[1] = o /\ ops[2] = p  OBVIOUS
  <1> QED  BY <1>1 DEF Of, Never, Ending, Touches

Three(ops, o, p, q) == ops = <<o>> \o <<p, q>>

LEMMA ThreeOps ==
    ASSUME NEW o, NEW p, NEW q, NEW t, o.t = t, p.t = t, q.t = t, NEW ops, Three(ops, o, p, q)
    PROVE  /\ Of(ops, t) /\ Len(ops) = 3 /\ ops[1] = o /\ ops[2] = p /\ ops[3] = q
           /\ \A K : o.op \notin K /\ p.op \notin K /\ q.op \notin K => Never(ops, t, K)
           /\ \A K : o.op \in K /\ p.op \notin K /\ q.op \notin K => Ending(ops, t, K, o)
  <1>1. Len(ops) = 3 /\ ops[1] = o /\ ops[2] = p /\ ops[3] = q  BY DEF Three
  <1> QED  BY <1>1 DEF Of, Never, Ending, Touches

LEMMA AttachInterruptPins ==
    ASSUME TimersInv', PeriodInv, NEW t \in Timers, AttachInterrupt(t) \/ DetachInterrupt(t)
    PROVE  PeriodInv' /\ (OutputInv => OutputInv')
  <1>1. PICK e, cb : Call(AttachOps(t, e, cb)) \/ Call(DetachOps(t, e))
    BY DEF AttachInterrupt, DetachInterrupt
  <1>2. CASE Call(AttachOps(t, e, cb))
    <2>1. PICK o : o = ValueOp("callback", t, e, cb)  OBVIOUS
    <2>2. PICK p : p = EventOp("clear", t, e)  OBVIOUS
    <2>3. PICK q : q = EventOp("enable", t, e)  OBVIOUS
    <2>4. PICK ops : ops = AttachOps(t, e, cb)  OBVIOUS
    <2>5. Three(ops, o, p, q)  BY <2>1, <2>2, <2>3, <2>4 DEF Three, AttachOps, EnableIT
    <2>6. /\ o.op = "callback" /\ p.op = "clear" /\ q.op = "enable"
          /\ o.t = t /\ p.t = t /\ q.t = t
      BY <2>1, <2>2, <2>3 DEF ValueOp, EventOp
    <2>7. o.op \notin AllKinds /\ p.op \notin AllKinds /\ q.op \notin AllKinds
      BY <2>6 DEF AllKinds, BaseKinds, PulseKinds, OutKinds, ModeKinds, RunKinds
    <2>8. Of(ops, t) /\ Never(ops, t, AllKinds)
      <3>1. PICK K : K = AllKinds  OBVIOUS
      <3>2. o.op \notin K /\ p.op \notin K /\ q.op \notin K  BY <2>7, <3>1
      <3>3. Of(ops, t) /\ Never(ops, t, K)  BY <2>5, <2>6, <3>2, ThreeOps
      <3> QED  BY <3>1, <3>3
    <2> QED  BY <1>2, <2>4, <2>8, IdleCallOn
  <1>3. CASE Call(DetachOps(t, e))
    <2>1. PICK o : o = ValueOp("callback", t, e, None)  OBVIOUS
    <2>2. PICK p : p = EventOp("clear", t, e)  OBVIOUS
    <2>3. PICK q : q = EventOp("disable", t, e)  OBVIOUS
    <2>4. PICK ops : ops = DetachOps(t, e)  OBVIOUS
    <2>5. Three(ops, o, p, q)  BY <2>1, <2>2, <2>3, <2>4 DEF Three, DetachOps, DisableIT
    <2>6. /\ o.op = "callback" /\ p.op = "clear" /\ q.op = "disable"
          /\ o.t = t /\ p.t = t /\ q.t = t
      BY <2>1, <2>2, <2>3 DEF ValueOp, EventOp
    <2>7. o.op \notin AllKinds /\ p.op \notin AllKinds /\ q.op \notin AllKinds
      BY <2>6 DEF AllKinds, BaseKinds, PulseKinds, OutKinds, ModeKinds, RunKinds
    <2>8. Of(ops, t) /\ Never(ops, t, AllKinds)
      <3>1. PICK K : K = AllKinds  OBVIOUS
      <3>2. o.op \notin K /\ p.op \notin K /\ q.op \notin K  BY <2>7, <3>1
      <3>3. Of(ops, t) /\ Never(ops, t, K)  BY <2>5, <2>6, <3>2, ThreeOps
      <3> QED  BY <3>1, <3>3
    <2> QED  BY <1>3, <2>4, <2>8, IdleCallOn
  <1> QED  BY <1>1, <1>2, <1>3

\* A call of one operation that is none of the base registers.
LEMMA OneOpPins ==
    ASSUME TimersInv', PeriodInv, NEW t \in Timers, NEW o, o.t = t, Call(<<o>>),
           o.op \notin {"timing", "pwm"} \cup BaseKinds
    PROVE  PeriodInv' /\ (OutputInv /\ ~pwmObj[t][0].made => OutputInv')
  <1>1. PICK ops : ops = <<o>>  OBVIOUS
  <1>2. /\ Of(ops, t) /\ Never(ops, t, {"timing"}) /\ Never(ops, t, {"pwm"})
        /\ Never(ops, t, BaseKinds)
    BY <1>1, OneOp
  <1>3. BaseAt(t)'  BY <1>1, <1>2, BaseStays, EachTimer DEF PeriodInv
  <1> QED  BY <1>1, <1>2, <1>3, TimerCallOn

LEMMA StartStopPins ==
    ASSUME TimersInv', PeriodInv, NEW t \in Timers, StartStop(t) \/ Refresh(t) \/ SetCaptureMode(t)
    PROVE  PeriodInv' /\ (OutputInv /\ ~Shared => OutputInv')
  <1>1. PICK o : /\ Call(<<o>>) /\ o.t = t /\ o.op \in {"on", "off", "refresh", "mode"}
    <2>1. \A name : Op(name, t).op = name /\ Op(name, t).t = t  BY DEF Op
    <2>2. \A c, v : ValueOp("mode", t, c, v).op = "mode" /\ ValueOp("mode", t, c, v).t = t  BY DEF ValueOp
    <2> QED  BY <2>1, <2>2 DEF StartStop, Refresh, SetCaptureMode
  <1>2. ~Shared => ~pwmObj[t][0].made  BY FreeTimer DEF StartStop, Refresh, SetCaptureMode
  <1> QED  BY <1>1, <1>2, OneOpPins DEF BaseKinds

LEMMA SetRegisterPins ==
    ASSUME TimersInv', PeriodInv, NEW t \in Timers, SetRegister(t)
    PROVE  PeriodInv' /\ (OutputInv /\ ~Shared => OutputInv')
  <1>1. PICK name \in {"prescaler", "reload"}, v \in Times :
            Call(<<ValueOp("timing", t, Up, Nobody), ValueOp(name, t, Up, v)>>)
    BY DEF SetRegister
  <1>2. PICK o : o = ValueOp("timing", t, Up, Nobody)  OBVIOUS
  <1>3. PICK p : p = ValueOp(name, t, Up, v)  OBVIOUS
  <1>4. PICK ops : ops = <<o, p>>  OBVIOUS
  <1>5. o.op = "timing" /\ o.t = t /\ o.v.by = "nobody" /\ p.op = name /\ p.t = t
    BY <1>2, <1>3 DEF ValueOp, Nobody
  <1>6. Of(ops, t) /\ Never(ops, t, {"pwm"}) /\ Ending(ops, t, {"timing"}, o)  BY <1>4, <1>5, TwoOps
  <1>7. Call(ops) /\ ops \in Seq(Ops)  BY <1>1, <1>2, <1>3, <1>4, CallOps
  <1>8. BaseAt(t)'
    <2>1. \A w : TimingEnds(t, w)' => w.by = "nobody"  BY <1>5, <1>6, <1>7, EndsCall
    <2> QED  BY <2>1 DEF BaseAt
  <1>9. ~Shared => ~pwmObj[t][0].made  BY FreeTimer DEF SetRegister
  <1> QED  BY <1>6, <1>7, <1>8, <1>9, TimerCallOn

LEMMA TonePins ==
    ASSUME TimersInv', PeriodInv, NEW pin, Tone(pin) \/ NoTone(pin)
    PROVE  PeriodInv' /\ (OutputInv => OutputInv')
  <1>1. ToneTimer \in Timers  BY TimersAssumption
  <1>2. OutputInv => ~pwmObj[ToneTimer][0].made  BY DEF OutputInv, OwnInv
  <1>3. CASE Call(<<Op("off", ToneTimer)>>)
    <2>1. Op("off", ToneTimer).op = "off" /\ Op("off", ToneTimer).t = ToneTimer  BY DEF Op
    <2> QED  BY <1>1, <1>2, <1>3, <2>1, OneOpPins DEF BaseKinds
  <1>4. ASSUME NEW frequency \in Tones, frequency # 0, NEW count, Call(ToneOps(pin, frequency, count))
        PROVE  PeriodInv' /\ (OutputInv => OutputInv')
    <2> DEFINE t == ToneTimer
    <2>1. PICK time : time = 2 * frequency  OBVIOUS
    <2>2. frequency \in Nat /\ time \in Nat \ {0}  BY <1>4, <2>1, TimersAssumption
    <2>3. PICK q : q = ValueOp("tone", t, Up, [Quiet EXCEPT !.pin = pin, !.level = tone.level, !.count = count, !.asked = count])
      OBVIOUS
    <2>4. PICK set : set = SetPeriodOps(t, time, "hz")  OBVIOUS
    <2>5. PICK att : att = AttachOps(t, Up, "tone")  OBVIOUS
    <2>6. PICK run : run = Op("on", t)  OBVIOUS
    <2>7. PICK ops : ops = <<q>> \o set \o att \o <<run>>  OBVIOUS
    <2>8. Call(ops)  BY <1>4, <2>1, <2>3, <2>4, <2>5, <2>6, <2>7 DEF ToneOps
    <2>9. ops \in Seq(Ops)  BY <2>8, CallOps
    <2>10. PICK u : u = [by |-> "timer", time |-> time, format |-> "hz"]  OBVIOUS
    <2>11. PICK r : r = PeriodRegisters(time, "hz")  OBVIOUS
    <2>12. /\ Len(set) = 3 /\ set[1] = ValueOp("timing", t, Up, u)
           /\ set[2] = Op("deinit", t) /\ set[3] = ValueOp("base", t, Up, r)
           /\ set = <<set[1], set[2], set[3]>>
      BY <2>4, <2>10, <2>11 DEF SetPeriodOps
    <2>13. /\ Len(att) = 3 /\ att[1] = ValueOp("callback", t, Up, "tone")
           /\ att[2] = EventOp("clear", t, Up) /\ att[3] = EventOp("enable", t, Up)
           /\ att = <<att[1]>> \o <<att[2], att[3]>>
      <3>1. PICK d : d = ValueOp("callback", t, Up, "tone")  OBVIOUS
      <3>2. PICK e : e = EventOp("clear", t, Up)  OBVIOUS
      <3>3. PICK f : f = EventOp("enable", t, Up)  OBVIOUS
      <3>4. att = <<d>> \o <<e, f>>  BY <2>5, <3>1, <3>2, <3>3 DEF AttachOps, EnableIT
      <3>5. Len(att) = 3 /\ att[1] = d /\ att[2] = e /\ att[3] = f  BY <3>4
      <3> QED  BY <3>1, <3>2, <3>3, <3>4, <3>5
    <2>14. /\ Len(ops) = 8 /\ ops[1] = q /\ ops[2] = set[1] /\ ops[3] = set[2] /\ ops[4] = set[3]
           /\ ops[5] = att[1] /\ ops[6] = att[2] /\ ops[7] = att[3] /\ ops[8] = run
      <3>1. PICK a : a = set[1]  OBVIOUS
      <3>2. PICK b : b = set[2]  OBVIOUS
      <3>3. PICK c : c = set[3]  OBVIOUS
      <3>4. PICK d : d = att[1]  OBVIOUS
      <3>5. PICK e : e = att[2]  OBVIOUS
      <3>6. PICK f : f = att[3]  OBVIOUS
      <3>7. ops = <<q>> \o <<a, b, c>> \o (<<d>> \o <<e, f>>) \o <<run>>
        BY <2>7, <2>12, <2>13, <3>1, <3>2, <3>3, <3>4, <3>5, <3>6
      <3> QED  BY <3>1, <3>2, <3>3, <3>4, <3>5, <3>6, <3>7
    <2>15. /\ ops[1].op = "tone" /\ ops[1].t = t
           /\ ops[2].op = "timing" /\ ops[2].t = t /\ ops[2].v = u
           /\ ops[3].op = "deinit" /\ ops[3].t = t
           /\ ops[4].op = "base" /\ ops[4].t = t /\ ops[4].v = r
           /\ ops[5].op = "callback" /\ ops[5].t = t
           /\ ops[6].op = "clear" /\ ops[6].t = t /\ ops[7].op = "enable" /\ ops[7].t = t
           /\ ops[8].op = "on" /\ ops[8].t = t
      BY <2>3, <2>6, <2>12, <2>13, <2>14 DEF ValueOp, EventOp, Op
    <2> HIDE DEF t
    <2>16. Of(ops, t) /\ Never(ops, t, {"pwm"})  BY <2>14, <2>15 DEF Of, Never, Touches
    <2>17. Ending(ops, t, {"timing"}, ops[2])  BY <2>14, <2>15 DEF Ending, Touches
    <2>18. Ending(ops, t, BaseKinds, ops[4])  BY <2>14, <2>15 DEF Ending, Touches, BaseKinds
    <2>19. r \in BaseRegs  BY <2>2, <2>11, PeriodFits DEF Units
    <2>20. Suits(u, r)  BY <2>2, <2>10, <2>11 DEF Suits, Counted
    <2>21. t \in Timers  BY <1>1 DEF t
    <2>22. BaseAt(t)'  BY <2>8, <2>15, <2>17, <2>18, <2>19, <2>20, <2>21, SetsPeriod
    <2>23. OutputInv => ~pwmObj[t][0].made  BY <1>2 DEF t
    <2> QED  BY <2>8, <2>16, <2>21, <2>22, <2>23, TimerCallOn
  <1> QED  BY <1>3, <1>4 DEF Tone, NoTone

\* No operation on another channel's object.
Zeroed(ops) == \A i \in 1..Len(ops) : ops[i].op = "pwm" => ops[i].e = 0

\* A call on a PWM pin that leaves the pin's object as w.
LEMMA PwmCallOn ==
    ASSUME PeriodInv, TimersInv', NEW pin \in Pins, NEW ops, Call(ops), Of(ops, pin[1]), Zeroed(ops),
           BaseAt(pin[1])',
           NEW w, \A o : PwmEnds(pin[1], o)' <=> o = w
    PROVE  /\ PeriodInv'
           /\ (/\ OutputInv /\ pin[1] # ToneTimer /\ w.made
               /\ ModeEnds(pin[1], "pwm")' /\ RunEnds(pin[1])' /\ OutEnds(pin[1], w.active)'
               /\ Fine(pin[1])'
               /\ (TimingEnds(pin[1], Timing(w))' =>
                     \E r \in BaseRegs : \E n :
                        /\ BaseEnds(pin[1], r)' /\ Suits(Timing(w), r)
                        /\ PulseEnds(pin[1], n)' /\ Near(w, r, n))) => OutputInv'
  <1>1. PICK t \in Timers : t = pin[1]  BY PinTimer
  <1>2. PeriodInv'  BY <1>1, CallOn DEF Zeroed
  <1>3. ASSUME OutputInv, t # ToneTimer, w.made,
               ModeEnds(t, "pwm")', RunEnds(t)', OutEnds(t, w.active)', Fine(t)',
               TimingEnds(t, Timing(w))' =>
                   \E r \in BaseRegs : \E n :
                       /\ BaseEnds(t, r)' /\ Suits(Timing(w), r) /\ PulseEnds(t, n)' /\ Near(w, r, n)
        PROVE  OutputInv'
    <2>1. \A o : PwmEnds(t, o)' => o = w  BY <1>1
    <2>2. RunAt(t)'  BY <1>3, <2>1 DEF RunAt
    <2>3. WaveAt(t)'
      <3>1. SUFFICES ASSUME NEW o, PwmEnds(t, o)', o.made, TimingEnds(t, Timing(o))'
                     PROVE  \E r \in BaseRegs : \E n :
                                BaseEnds(t, r)' /\ Suits(Timing(o), r) /\ PulseEnds(t, n)' /\ Near(o, r, n)
        BY DEF WaveAt, Timing, Suits, Counted, Near
      <3>2. o = w  BY <2>1, <3>1
      <3> QED  BY <1>3, <3>1, <3>2
    <2>4. \A o : PwmEnds(t, o)' /\ o.alive => o.made  BY <1>3, <2>1
    <2> QED  BY <1>1, <1>3, <2>2, <2>3, <2>4, CallOn DEF Zeroed
  <1> QED  BY <1>1, <1>2, <1>3

\* Two parts of a call on one timer.
LEMMA OfJoined ==
    ASSUME NEW a \in Seq(Ops), NEW b \in Seq(Ops), NEW t, Of(a, t), Of(b, t), Zeroed(a), Zeroed(b)
    PROVE  Of(a \o b, t) /\ Zeroed(a \o b)
  <1> DEFINE s == a \o b
  <1>1. /\ Len(s) = Len(a) + Len(b)
        /\ \A i \in 1..Len(a) + Len(b) : s[i] = IF i <= Len(a) THEN a[i] ELSE b[i - Len(a)]
    BY ConcatProperties
  <1>2. Len(a) \in Nat /\ Len(b) \in Nat  OBVIOUS
  <1> HIDE DEF s
  <1>3. \A i \in 1..Len(s) : \/ i \in 1..Len(a) /\ s[i] = a[i]
                             \/ i - Len(a) \in 1..Len(b) /\ s[i] = b[i - Len(a)]
    BY <1>1, <1>2
  <1>4. Of(s, t) /\ Zeroed(s)  BY <1>3 DEF Of, Zeroed
  <1> QED  BY <1>4 DEF s

LEMMA PwmOpIs ==
    ASSUME NEW pin, NEW w
    PROVE  /\ PwmOp(pin, w).op = "pwm" /\ PwmOp(pin, w).t = pin[1]
           /\ PwmOp(pin, w).e = 0 /\ PwmOp(pin, w).v = w
  BY DEF PwmOp, ValueOp, ChannelOf

\* What PWM_init leaves behind.
Begun == [by |-> "pwm", time |-> 9999, format |-> "us"]

BegunBase(r) == r \in BaseRegs /\ r.psc = Word(Clock \div 1000000 - 1) /\ r.car = 9999

Begins(ops, t) ==
    /\ ops \in Seq(Ops) /\ Of(ops, t) /\ Never(ops, t, {"pwm"}) /\ Zeroed(ops)
    /\ \E a : Ending(ops, t, {"timing"}, a) /\ a.v = Begun
    /\ \E b : Ending(ops, t, BaseKinds, b) /\ b.op = "base" /\ BegunBase(b.v)
    /\ \E p : Ending(ops, t, PulseKinds, p) /\ p.op = "pulse" /\ p.e = 0 /\ p.v = Constructed(TRUE).cycle
    /\ \E u : Ending(ops, t, OutKinds, u) /\ u.op = "out" /\ u.e = 0 /\ u.v = FALSE
    /\ \E m : Ending(ops, t, ModeKinds, m) /\ m.op = "mode" /\ m.e = 0 /\ m.v = "pwm"
    /\ \E g : Ending(ops, t, RunKinds, g) /\ g.op = "on"

\* A new object.
Anew(w) ==
    /\ w.made /\ w.alive /\ w.active = FALSE /\ w.period = 9999 /\ w.format = "us"
    /\ w.cycle \in Nat \ {0} /\ w.cycle < 65536 /\ Timing(w) = Begun

LEMMA ConstructedIs == Anew(Constructed(TRUE))
  BY DEF Anew, Constructed, NoPwm, Timing, Begun

InitNames(ops, t) ==
    /\ Len(ops) = 8
    /\ ops[1].op = "line" /\ ops[1].t = t /\ ops[2].op = "base" /\ ops[2].t = t
    /\ ops[3].op = "timing" /\ ops[3].t = t /\ ops[4].op = "out" /\ ops[4].t = t
    /\ ops[5].op = "pulse" /\ ops[5].t = t /\ ops[6].op = "mode" /\ ops[6].t = t
    /\ ops[7].op = "on" /\ ops[7].t = t /\ ops[8].op = "out" /\ ops[8].t = t

LEMMA InitOps ==
    ASSUME NEW t, NEW ops, InitNames(ops, t)
    PROVE  /\ Of(ops, t) /\ Never(ops, t, {"pwm"})
           /\ Ending(ops, t, {"timing"}, ops[3]) /\ Ending(ops, t, BaseKinds, ops[2])
           /\ Ending(ops, t, PulseKinds, ops[5]) /\ Ending(ops, t, OutKinds, ops[8])
           /\ Ending(ops, t, ModeKinds, ops[6]) /\ Ending(ops, t, RunKinds, ops[7])
  <1>1. Of(ops, t)  BY DEF Of, InitNames
  <1>2. Never(ops, t, {"pwm"})  BY DEF InitNames, Never, Touches
  <1>3. Ending(ops, t, {"timing"}, ops[3])  BY DEF InitNames, Ending, Touches
  <1>4. Ending(ops, t, BaseKinds, ops[2])  BY DEF InitNames, Ending, Touches, BaseKinds
  <1>5. Ending(ops, t, PulseKinds, ops[5])  BY DEF InitNames, Ending, Touches, PulseKinds
  <1>6. Ending(ops, t, OutKinds, ops[8])  BY DEF InitNames, Ending, Touches, OutKinds
  <1>7. Ending(ops, t, ModeKinds, ops[6])  BY DEF InitNames, Ending, Touches, ModeKinds
  <1>8. Ending(ops, t, RunKinds, ops[7])  BY DEF InitNames, Ending, Touches, RunKinds
  <1> QED  BY <1>1, <1>2, <1>3, <1>4, <1>5, <1>6, <1>7, <1>8

LEMMA PwmInitPins ==
    ASSUME TimersType, NEW pin \in Pins
    PROVE  Begins(PwmInit(pin), pin[1])
  <1>1. PICK t \in Timers : t = pin[1]  BY PinTimer
  <1>1a. PICK ops : ops = PwmInit(pin)  OBVIOUS
  <1>2. PICK psc : psc = Clock \div 1000000 - 1  OBVIOUS
  <1>3. PICK r : r = Registers(psc, 9999, reg[t].rep)  OBVIOUS
  <1>4. PICK v : v = Begun  OBVIOUS
  <1>4a. PICK k : k = 4999  OBVIOUS
  <1>5. r \in BaseRegs /\ r.psc = Word(psc) /\ r.car = 9999
    <2>1. Clock \in Nat  BY TimersAssumption
    <2>2. Clock \div 1000000 - 1 \in Int  BY <2>1, Quotient
    <2>3. psc \in Int  BY <1>2, <2>2
    <2>4. reg[t].rep \in Nat  BY <1>1 DEF TimersType, RegType
    <2>5. Word(9999) = 9999  BY DEF Word
    <2>6. r = [psc |-> Word(psc), car |-> Word(9999), rep |-> reg[t].rep]  BY <1>3 DEF Registers
    <2>7. Registers(psc, 9999, reg[t].rep) \in BaseRegs  BY <2>3, <2>4, RegistersFit
    <2> QED  BY <1>3, <2>5, <2>6, <2>7
  <1>6. ops \in Seq(Ops)
    <2>1. PICK lines : lines = {}  OBVIOUS
    <2>2. Fit(PwmInit(pin), lines)  BY PwmInitFit
    <2> QED  BY <1>1a, <2>2 DEF Fit
  <1>7. /\ Len(ops) = 8
        /\ ops[1] = ValueOp("line", t, Up, CcIrq(t)) /\ ops[2] = ValueOp("base", t, Up, r)
        /\ ops[3] = ValueOp("timing", t, Up, v) /\ ops[4] = ValueOp("out", t, 0, FALSE)
        /\ ops[5] = ValueOp("pulse", t, 0, k) /\ ops[6] = ValueOp("mode", t, 0, "pwm")
        /\ ops[7] = Op("on", t) /\ ops[8] = ValueOp("out", t, 0, FALSE)
    BY <1>1, <1>1a, <1>2, <1>3, <1>4, <1>4a DEF PwmInit, ChannelOf, Begun
  <1>8. InitNames(ops, t)
    <2>1. /\ ops[1].op = "line" /\ ops[1].t = t /\ ops[2].op = "base" /\ ops[2].t = t
          /\ ops[3].op = "timing" /\ ops[3].t = t /\ ops[4].op = "out" /\ ops[4].t = t
      BY <1>7 DEF ValueOp
    <2>2. /\ ops[5].op = "pulse" /\ ops[5].t = t /\ ops[6].op = "mode" /\ ops[6].t = t
          /\ ops[7].op = "on" /\ ops[7].t = t /\ ops[8].op = "out" /\ ops[8].t = t
      BY <1>7 DEF ValueOp, Op
    <2>3. Len(ops) = 8  BY <1>7
    <2> QED  BY <2>1, <2>2, <2>3 DEF InitNames
  <1>8a. ops[2].v = r /\ ops[3].v = v /\ ops[5].e = 0 /\ ops[6].e = 0 /\ ops[8].e = 0
    BY <1>7 DEF ValueOp
  <1>8b. ops[5].v = k /\ ops[6].v = "pwm" /\ ops[8].v = FALSE
    BY <1>7 DEF ValueOp
  <1>8c. /\ ops[2].op = "base" /\ ops[5].op = "pulse" /\ ops[6].op = "mode" /\ ops[7].op = "on"
         /\ ops[8].op = "out"
    BY <1>8 DEF InitNames
  <1>9. /\ Of(ops, t) /\ Never(ops, t, {"pwm"})
        /\ Ending(ops, t, {"timing"}, ops[3]) /\ Ending(ops, t, BaseKinds, ops[2])
        /\ Ending(ops, t, PulseKinds, ops[5]) /\ Ending(ops, t, OutKinds, ops[8])
        /\ Ending(ops, t, ModeKinds, ops[6]) /\ Ending(ops, t, RunKinds, ops[7])
    BY <1>8, InitOps
  <1>10. Zeroed(ops)  BY <1>9, NoPwmOps DEF Zeroed
  <1>16. Constructed(TRUE).cycle = k  BY <1>4a DEF Constructed, NoPwm
  <1>17. BegunBase(r)  BY <1>2, <1>5 DEF BegunBase
  <1>18. Begins(ops, t)
    <2>1. \E a : Ending(ops, t, {"timing"}, a) /\ a.v = Begun  BY <1>4, <1>8a, <1>9
    <2>2. \E b : Ending(ops, t, BaseKinds, b) /\ b.op = "base" /\ BegunBase(b.v)  BY <1>8a, <1>8c, <1>9, <1>17
    <2>3. \E p : Ending(ops, t, PulseKinds, p) /\ p.op = "pulse" /\ p.e = 0 /\ p.v = Constructed(TRUE).cycle
      <3>1. ops[5].v = Constructed(TRUE).cycle  BY <1>8b, <1>16
      <3>2. Ending(ops, t, PulseKinds, ops[5]) /\ ops[5].op = "pulse" /\ ops[5].e = 0  BY <1>8a, <1>8c, <1>9
      <3> QED  BY <3>1, <3>2
    <2>4. \E u : Ending(ops, t, OutKinds, u) /\ u.op = "out" /\ u.e = 0 /\ u.v = FALSE  BY <1>8a, <1>8b, <1>8c, <1>9
    <2>5. \E m : Ending(ops, t, ModeKinds, m) /\ m.op = "mode" /\ m.e = 0 /\ m.v = "pwm"  BY <1>8a, <1>8b, <1>8c, <1>9
    <2>6. \E g : Ending(ops, t, RunKinds, g) /\ g.op = "on"  BY <1>8c, <1>9
    <2> QED  BY <1>6, <1>9, <1>10, <2>1, <2>2, <2>3, <2>4, <2>5, <2>6 DEF Begins
  <1> QED  BY <1>1, <1>1a, <1>18

\* A pin for a new object is not the tone timer's.
LEMMA NotTone ==
    ASSUME OutputInv, NEW pin \in Pins
    PROVE  /\ MayMakePwm(pin) /\ ~Shared => pin[1] # ToneTimer
           /\ pwmObj[pin[1]][0].made => pin[1] # ToneTimer
  BY DEF OutputInv, OwnInv, MayMakePwm

LEMMA TimingLeft ==
    ASSUME NEW ops \in Seq(Ops), Call(ops), NEW t, NEW a, Ending(ops, t, {"timing"}, a), NEW v
    PROVE  TimingEnds(t, v)' <=> v = a.v
  <1>1. todo' = ops /\ UNCHANGED timing  BY DEF Call
  <1>2. ~Never(ops, t, {"timing"}) /\ \A p : Ending(ops, t, {"timing"}, p) => p = a  BY EndingOnce
  <1> QED  BY <1>1, <1>2 DEF TimingEnds

LEMMA PwmLeft ==
    ASSUME NEW ops \in Seq(Ops), Call(ops), NEW t, NEW a, Ending(ops, t, {"pwm"}, a), NEW v
    PROVE  PwmEnds(t, v)' <=> v = a.v
  <1>1. todo' = ops /\ UNCHANGED pwmObj  BY DEF Call
  <1>2. ~Never(ops, t, {"pwm"}) /\ \A p : Ending(ops, t, {"pwm"}, p) => p = a  BY EndingOnce
  <1> QED  BY <1>1, <1>2 DEF PwmEnds

LEMMA NewPwmPins ==
    ASSUME TimersType, TimersInv', PeriodInv, NEW pin \in Pins, NewPwm(pin)
    PROVE  PeriodInv' /\ (OutputInv /\ ~Shared => OutputInv')
  <1>1. PICK t \in Timers : t = pin[1]  BY PinTimer
  <1>2. PICK w : w = Constructed(TRUE)  OBVIOUS
  <1>3. PICK init : init = PwmInit(pin)  OBVIOUS
  <1>4. PICK q : q = PwmOp(pin, w)  OBVIOUS
  <1>5. PICK one : one = <<q>>  OBVIOUS
  <1>6. PICK ops : ops = one \o init  OBVIOUS
  <1>7. Call(ops) /\ ops \in Seq(Ops)  BY <1>2, <1>3, <1>4, <1>5, <1>6, CallOps DEF NewPwm
  <1>8. q.op = "pwm" /\ q.t = t /\ q.e = 0 /\ q.v = w  BY <1>1, <1>4, PwmOpIs
  <1>9. init \in Seq(Ops) /\ Of(init, t) /\ Never(init, t, {"pwm"}) /\ Zeroed(init)
         /\ Begins(init, t)
    <2>1. Begins(init, t)  BY <1>1, <1>3, PwmInitPins
    <2> QED  BY <2>1 DEF Begins
  <1>10. /\ Of(one, t) /\ Len(one) = 1 /\ one[1] = q /\ Ending(one, t, {"pwm"}, q)
         /\ Zeroed(one)
    BY <1>5, <1>8, OneOp DEF Zeroed
  <1>11. one \in Seq(Ops)
    <2>1. 1 \in 1..Len(ops) /\ ops[1] = q  BY <1>5, <1>6, <1>9
    <2>2. q \in Ops  BY <1>7, <2>1
    <2> QED  BY <1>5, <2>2
  <1>12. PICK a : Ending(init, t, {"timing"}, a) /\ a.v = Begun  BY <1>9 DEF Begins
  <1>13. PICK b : Ending(init, t, BaseKinds, b) /\ b.op = "base" /\ BegunBase(b.v)  BY <1>9 DEF Begins
  <1>14. PICK p : Ending(init, t, PulseKinds, p) /\ p.op = "pulse" /\ p.e = 0 /\ p.v = w.cycle
    BY <1>2, <1>9 DEF Begins
  <1>15. PICK u : Ending(init, t, OutKinds, u) /\ u.op = "out" /\ u.e = 0 /\ u.v = FALSE
    BY <1>9 DEF Begins
  <1>16. PICK m : Ending(init, t, ModeKinds, m) /\ m.op = "mode" /\ m.e = 0 /\ m.v = "pwm"
    BY <1>9 DEF Begins
  <1>17. PICK g : Ending(init, t, RunKinds, g) /\ g.op = "on"  BY <1>9 DEF Begins
  <1>18. /\ Ending(ops, t, {"timing"}, a) /\ Ending(ops, t, BaseKinds, b) /\ Ending(ops, t, PulseKinds, p)
         /\ Ending(ops, t, OutKinds, u) /\ Ending(ops, t, ModeKinds, m) /\ Ending(ops, t, RunKinds, g)
         /\ Ending(ops, t, {"pwm"}, q)
    BY <1>6, <1>9, <1>10, <1>11, <1>12, <1>13, <1>14, <1>15, <1>16, <1>17, EndingJoined
  <1>19. /\ \A x : TimingEnds(t, x)' <=> x = Begun
         /\ \A o : PwmEnds(t, o)' <=> o = w
         /\ BaseEnds(t, b.v)' /\ PulseEnds(t, Word(p.v))' /\ OutEnds(t, u.v)' /\ ModeEnds(t, m.v)'
         /\ RunEnds(t)'
    <2>1. \A x : TimingEnds(t, x)' <=> x = a.v
      <3>1. Ending(ops, t, {"timing"}, a)  BY <1>18
      <3> QED  BY <1>7, <3>1, TimingLeft
    <2>2. \A o : PwmEnds(t, o)' <=> o = q.v
      <3>1. Ending(ops, t, {"pwm"}, q)  BY <1>18
      <3> QED  BY <1>7, <3>1, PwmLeft
    <2>3. BaseEnds(t, b.v)'  BY <1>7, <1>13, <1>18, EndsCall
    <2>4. PulseEnds(t, Word(p.v))'  BY <1>7, <1>14, <1>18, EndsCall
    <2>5. OutEnds(t, u.v)'  BY <1>7, <1>15, <1>18, EndsCall
    <2>6. ModeEnds(t, m.v)'  BY <1>7, <1>16, <1>18, EndsCall
    <2>7. RunEnds(t)'  BY <1>7, <1>17, <1>18, EndsCall
    <2> QED  BY <1>8, <1>12, <2>1, <2>2, <2>3, <2>4, <2>5, <2>6, <2>7
  <1>20. /\ w.made /\ w.active = FALSE /\ w.cycle \in Nat \ {0} /\ w.cycle < 65536 /\ w.format = "us"
         /\ Timing(w) = Begun
    <2>1. Anew(w)  BY <1>2, ConstructedIs
    <2> QED  BY <2>1 DEF Anew
  <1>21. b.v \in BaseRegs /\ Suits(Begun, b.v)  BY <1>13 DEF Suits, Begun, BegunBase
  <1>22. Near(w, b.v, Word(p.v))  BY <1>14, <1>20 DEF Near
  <1>23. BaseAt(t)'  BY <1>7, <1>12, <1>13, <1>18, <1>21, SetsPeriod
  <1>24. Fine(t)'  BY <1>19 DEF Fine, Begun
  <1>25. Of(ops, t) /\ Zeroed(ops)
    BY <1>5, <1>6, <1>8, <1>9, <1>10, <1>11, OfJoined
  <1>26. OutputInv /\ ~Shared => t # ToneTimer  BY <1>1, NotTone DEF NewPwm
  <1>27. ModeEnds(t, "pwm")' /\ OutEnds(t, w.active)'
    <2>1. m.v = "pwm" /\ ModeEnds(t, m.v)'  BY <1>16, <1>19
    <2>2. u.v = FALSE  BY <1>15
    <2>3. w.active = FALSE  BY <1>20
    <2>4. OutEnds(t, u.v)'  BY <1>19
    <2>5. u.v = w.active  BY <2>2, <2>3
    <2> QED  BY <2>1, <2>4, <2>5
  <1>28. \E r \in BaseRegs : \E n : /\ BaseEnds(t, r)' /\ Suits(Timing(w), r)
                                    /\ PulseEnds(t, n)' /\ Near(w, r, n)
    BY <1>19, <1>20, <1>21, <1>22
  <1> QED  BY <1>1, <1>7, <1>19, <1>20, <1>23, <1>24, <1>25, <1>26, <1>27, <1>28, PwmCallOn

\* What a new period and cycle of PWM leave behind.
Waves(ops, t, w) ==
    /\ ops \in Seq(Ops) /\ Of(ops, t) /\ Zeroed(ops)
    /\ Never(ops, t, {"pwm"}) /\ Never(ops, t, OutKinds) /\ Never(ops, t, ModeKinds)
    /\ Never(ops, t, RunKinds)
    /\ \E a : Ending(ops, t, {"timing"}, a) /\ a.v = Timing(w)
    /\ \E b, p : /\ Ending(ops, t, BaseKinds, b) /\ b.op = "base" /\ b.v \in BaseRegs
                 /\ b.v = PwmRegisters(w.period, w.format)
                 /\ Ending(ops, t, PulseKinds, p) /\ p.op = "pulse" /\ p.e = 0
                 /\ p.v = CompareValue(w.cycle, w.format, b.v.car) - 1

PeriodNames(ops, t) ==
    /\ Len(ops) = 3
    /\ ops[1].op = "timing" /\ ops[1].t = t /\ ops[2].op = "base" /\ ops[2].t = t
    /\ ops[3].op = "pulse" /\ ops[3].t = t

LEMMA PeriodOps ==
    ASSUME NEW t, NEW ops, PeriodNames(ops, t)
    PROVE  /\ Of(ops, t) /\ Never(ops, t, {"pwm"}) /\ Never(ops, t, OutKinds)
           /\ Never(ops, t, ModeKinds) /\ Never(ops, t, RunKinds)
           /\ Ending(ops, t, {"timing"}, ops[1]) /\ Ending(ops, t, BaseKinds, ops[2])
           /\ Ending(ops, t, PulseKinds, ops[3])
  <1>1. Of(ops, t)  BY DEF PeriodNames, Of
  <1>2. Never(ops, t, {"pwm"})  BY DEF PeriodNames, Never, Touches
  <1>3. Never(ops, t, OutKinds)  BY DEF PeriodNames, Never, Touches, OutKinds
  <1>4. Never(ops, t, ModeKinds)  BY DEF PeriodNames, Never, Touches, ModeKinds
  <1>5. Never(ops, t, RunKinds)  BY DEF PeriodNames, Never, Touches, RunKinds
  <1>6. Ending(ops, t, {"timing"}, ops[1])  BY DEF PeriodNames, Ending, Touches
  <1>7. Ending(ops, t, BaseKinds, ops[2])  BY DEF PeriodNames, Ending, Touches, BaseKinds
  <1>8. Ending(ops, t, PulseKinds, ops[3])  BY DEF PeriodNames, Ending, Touches, PulseKinds
  <1> QED  BY <1>1, <1>2, <1>3, <1>4, <1>5, <1>6, <1>7, <1>8

LEMMA PwmPeriodPins ==
    ASSUME NEW pin \in Pins, NEW w, w.period \in Nat \ {0}, w.cycle \in Nat,
           w.format \in Units \ {"tick"}
    PROVE  Waves(PwmPeriod(pin, w.period, w.cycle, w.format), pin[1], w)
  <1>1. PICK t \in Timers : t = pin[1]  BY PinTimer
  <1>2. PICK ops : ops = PwmPeriod(pin, w.period, w.cycle, w.format)  OBVIOUS
  <1>3. PICK r : r = PwmRegisters(w.period, w.format)  OBVIOUS
  <1>4. PICK k : k = CompareValue(w.cycle, w.format, r.car) - 1  OBVIOUS
  <1>5. PICK v : v = Timing(w)  OBVIOUS
  <1>6. r \in BaseRegs  BY <1>3, PeriodFits
  <1>7. ops \in Seq(Ops)
    <2>1. PICK lines : lines = {}  OBVIOUS
    <2>2. Fit(PwmPeriod(pin, w.period, w.cycle, w.format), lines)  BY PwmPeriodFit
    <2> QED  BY <1>2, <2>2 DEF Fit
  <1>8. /\ Len(ops) = 3
        /\ ops[1] = ValueOp("timing", t, Up, v) /\ ops[2] = ValueOp("base", t, Up, r)
        /\ ops[3] = ValueOp("pulse", t, 0, k)
    BY <1>1, <1>2, <1>3, <1>4, <1>5 DEF PwmPeriod, ChannelOf, Timing
  <1>9. /\ ops[1].op = "timing" /\ ops[1].t = t /\ ops[1].v = v
        /\ ops[2].op = "base" /\ ops[2].t = t /\ ops[2].v = r
        /\ ops[3].op = "pulse" /\ ops[3].t = t /\ ops[3].e = 0 /\ ops[3].v = k
    BY <1>8 DEF ValueOp
  <1>10. PeriodNames(ops, t)  BY <1>8, <1>9 DEF PeriodNames
  <1>11. Zeroed(ops)  BY <1>10, PeriodOps, NoPwmOps DEF Zeroed
  <1>12. Waves(ops, t, w)
    <2>1. \E a : Ending(ops, t, {"timing"}, a) /\ a.v = Timing(w)  BY <1>5, <1>9, <1>10, PeriodOps
    <2>2. \E b, p : /\ Ending(ops, t, BaseKinds, b) /\ b.op = "base" /\ b.v \in BaseRegs
                    /\ b.v = PwmRegisters(w.period, w.format)
                    /\ Ending(ops, t, PulseKinds, p) /\ p.op = "pulse" /\ p.e = 0
                    /\ p.v = CompareValue(w.cycle, w.format, b.v.car) - 1
      <3>1. Ending(ops, t, BaseKinds, ops[2]) /\ Ending(ops, t, PulseKinds, ops[3])  BY <1>10, PeriodOps
      <3> QED  BY <1>3, <1>4, <1>6, <1>9, <3>1
    <2> QED  BY <1>7, <1>10, <1>11, <2>1, <2>2, PeriodOps DEF Waves
  <1> QED  BY <1>1, <1>2, <1>12

\* The object of a pin and what is left of it by the operations of a call.
LEMMA ObjectIs ==
    ASSUME TimersType, NEW pin \in Pins, NEW t, t = pin[1]
    PROVE  Object(pin) = pwmObj[t][0] /\ pwmObj[t][0] \in PwmType /\ t \in Timers
  BY PinTimer DEF Object, ChannelOf, TimersType, Channels

LEMMA RunKept ==
    ASSUME OutputInv, TimersInv', NEW ops, Call(ops), NEW t \in Timers, pwmObj[t][0].alive
    PROVE  /\ pwmObj[t][0].made /\ t # ToneTimer
           /\ Never(ops, t, ModeKinds) => ModeEnds(t, "pwm")'
           /\ Never(ops, t, RunKinds) => RunEnds(t)'
           /\ Never(ops, t, OutKinds) => \A b : b = pwmObj[t][0].active => OutEnds(t, b)'
           /\ Never(ops, t, {"timing"}) => Fine(t)'
  <1>1. /\ ops \in Seq(Ops) /\ todo = <<>> /\ todo' = ops
        /\ UNCHANGED <<reg, chan, hwObj, pwmObj, timing>>
    BY CallOps
  <1>2. PICK o : o = pwmObj[t][0]  OBVIOUS
  <1>3. PwmEnds(t, o)  BY <1>1, <1>2, EndsIdle
  <1>4. o.made  BY <1>2, <1>3 DEF OutputInv, OwnInv
  <1>5. t # ToneTimer  BY <1>2, <1>4 DEF OutputInv, OwnInv
  <1>6. ModeEnds(t, "pwm") /\ RunEnds(t) /\ OutEnds(t, o.active) /\ Fine(t)
    BY <1>3, <1>4 DEF OutputInv, RunInv
  <1>7. chan[t][0].mode = "pwm" /\ chan[t][0].out = o.active /\ reg[t].on
    BY <1>1, <1>6, EndsIdle
  <1>8. Never(ops, t, ModeKinds) => ModeEnds(t, "pwm")'  BY <1>1, <1>7 DEF ModeEnds
  <1>9. Never(ops, t, RunKinds) => RunEnds(t)'  BY <1>1, <1>7 DEF RunEnds
  <1>10. Never(ops, t, OutKinds) => \A b : b = o.active => OutEnds(t, b)'  BY <1>1, <1>7 DEF OutEnds
  <1>11. ASSUME Never(ops, t, {"timing"}) PROVE Fine(t)'
    <2>1. SUFFICES ASSUME NEW v, TimingEnds(t, v)', v.by = "pwm", v.format = "hz"
                   PROVE  v.time * 100 <= Clock
      BY DEF Fine
    <2>2. v = timing[t]  BY <1>1, <1>11, <2>1, EndsCall
    <2>3. TimingEnds(t, v)  BY <1>1, <2>2, EndsIdle
    <2> QED  BY <1>6, <2>1, <2>3 DEF Fine
  <1> QED  BY <1>2, <1>4, <1>5, <1>8, <1>9, <1>10, <1>11

LEMMA AskedInRange ==
    ASSUME InRange, NEW time \in Times, NEW format \in Formats \ {"tick"}
    PROVE  /\ Counted(time, format) /\ time \in Nat \ {0} /\ format \in {"us", "ms", "hz"}
           /\ format \in Units \ {"tick"}
           /\ CyclesInRange /\ format = "hz" => time * 100 <= Clock
  BY TimesFit DEF InRange, CyclesInRange, Counted, Units

LEMMA CycleInRange ==
    ASSUME CyclesInRange, NEW cycle \in Cycles, NEW format \in Formats
    PROVE  cycle \in Nat \ {0} /\ (format = "hz" => cycle <= 100)
  BY TimesFit DEF CyclesInRange

LEMMA PwmSetPeriodCyclePins ==
    ASSUME TimersType, TimersInv', PeriodInv, InRange, NEW pin \in Pins, PwmSetPeriodCycle(pin)
    PROVE  PeriodInv' /\ (OutputInv /\ CyclesInRange => OutputInv')
  <1>1. PICK t \in Timers : t = pin[1]  BY PinTimer
  <1>2. PICK period \in Times, cycle \in Cycles, format \in Formats \ {"tick"} :
            Call(<<PwmOp(pin, [Object(pin) EXCEPT !.period = period, !.cycle = cycle, !.format = format])>>
                 \o PwmPeriod(pin, period, cycle, format))
    BY DEF PwmSetPeriodCycle
  <1>3. PICK o : o = pwmObj[t][0]  OBVIOUS
  <1>4. PICK w : w = [o EXCEPT !.period = period, !.cycle = cycle, !.format = format]  OBVIOUS
  <1>5. o \in PwmType /\ Object(pin) = o /\ o.alive  BY <1>1, <1>3, ObjectIs DEF PwmSetPeriodCycle
  <1>6. /\ w.period = period /\ w.cycle = cycle /\ w.format = format /\ w.active = o.active
        /\ w.made = o.made
    BY <1>4, <1>5 DEF PwmType
  <1>7. /\ period \in Nat \ {0} /\ format \in Units \ {"tick"} /\ cycle \in Nat
        /\ Counted(period, format) /\ format \in {"us", "ms", "hz"}
    BY AskedInRange, TimesFit
  <1>8. PICK per : per = PwmPeriod(pin, period, cycle, format)  OBVIOUS
  <1>9. PICK q : q = PwmOp(pin, w)  OBVIOUS
  <1>10. PICK one : one = <<q>>  OBVIOUS
  <1>11. PICK ops : ops = one \o per  OBVIOUS
  <1>12. Call(ops) /\ ops \in Seq(Ops)
    BY <1>2, <1>4, <1>5, <1>8, <1>9, <1>10, <1>11, CallOps
  <1>13. q.op = "pwm" /\ q.t = t /\ q.e = 0 /\ q.v = w  BY <1>1, <1>9, PwmOpIs
  <1>14. Waves(per, t, w)  BY <1>1, <1>6, <1>7, <1>8, PwmPeriodPins
  <1>15. /\ per \in Seq(Ops) /\ Of(per, t) /\ Zeroed(per)
         /\ Never(per, t, {"pwm"}) /\ Never(per, t, OutKinds) /\ Never(per, t, ModeKinds)
         /\ Never(per, t, RunKinds)
    BY <1>14 DEF Waves
  <1>16. PICK a : Ending(per, t, {"timing"}, a) /\ a.v = Timing(w)  BY <1>14 DEF Waves
  <1>17. PICK b, p : /\ Ending(per, t, BaseKinds, b) /\ b.op = "base" /\ b.v \in BaseRegs
                     /\ b.v = PwmRegisters(w.period, w.format)
                     /\ Ending(per, t, PulseKinds, p) /\ p.op = "pulse" /\ p.e = 0
                     /\ p.v = CompareValue(w.cycle, w.format, b.v.car) - 1
    BY <1>14 DEF Waves
  <1>18. /\ Of(one, t) /\ Zeroed(one) /\ Ending(one, t, {"pwm"}, q)
         /\ Never(one, t, OutKinds) /\ Never(one, t, ModeKinds) /\ Never(one, t, RunKinds)
    BY <1>10, <1>13, OneOp DEF Zeroed, OutKinds, ModeKinds, RunKinds
  <1>19. one \in Seq(Ops)
    <2>1. 1 \in 1..Len(ops) /\ ops[1] = q  BY <1>10, <1>11, <1>15
    <2>2. q \in Ops  BY <1>12, <2>1
    <2> QED  BY <1>10, <2>2
  <1>20. /\ Never(ops, t, OutKinds) /\ Never(ops, t, ModeKinds) /\ Never(ops, t, RunKinds)
         /\ Ending(ops, t, {"pwm"}, q) /\ Ending(ops, t, {"timing"}, a)
         /\ Ending(ops, t, BaseKinds, b) /\ Ending(ops, t, PulseKinds, p)
    BY <1>11, <1>15, <1>16, <1>17, <1>18, <1>19, EndingJoined
  <1>21. Of(ops, t) /\ Zeroed(ops)  BY <1>11, <1>15, <1>18, <1>19, OfJoined
  <1>22. \A x : PwmEnds(t, x)' <=> x = w  BY <1>12, <1>13, <1>20, PwmLeft
  <1>23. \A x : TimingEnds(t, x)' <=> x = Timing(w)  BY <1>12, <1>16, <1>20, TimingLeft
  <1>24. BaseEnds(t, b.v)' /\ PulseEnds(t, Word(p.v))'  BY <1>12, <1>17, <1>20, EndsCall
  <1>25. /\ Timing(w).by = "pwm" /\ Timing(w).time = w.period /\ Timing(w).format = w.format
    BY DEF Timing
  <1>26. Suits(Timing(w), b.v)  BY <1>6, <1>7, <1>17, <1>25 DEF Suits
  <1>27. BaseAt(t)'  BY <1>12, <1>16, <1>17, <1>20, <1>26, SetsPeriod
  <1>28. ASSUME OutputInv, CyclesInRange
         PROVE  /\ t # ToneTimer /\ w.made
                /\ ModeEnds(t, "pwm")' /\ RunEnds(t)' /\ OutEnds(t, w.active)' /\ Fine(t)'
                /\ \E r \in BaseRegs : \E n : /\ BaseEnds(t, r)' /\ Suits(Timing(w), r)
                                              /\ PulseEnds(t, n)' /\ Near(w, r, n)
    <2>1. /\ o.made /\ t # ToneTimer
          /\ ModeEnds(t, "pwm")' /\ RunEnds(t)' /\ OutEnds(t, o.active)'
      <3>1. pwmObj[t][0].alive  BY <1>3, <1>5
      <3>2. o.made /\ t # ToneTimer  BY <1>3, <1>12, <1>28, <3>1, RunKept
      <3>3. ModeEnds(t, "pwm")' /\ RunEnds(t)'  BY <1>12, <1>20, <1>28, <3>1, RunKept
      <3>4. OutEnds(t, o.active)'  BY <1>3, <1>12, <1>20, <1>28, <3>1, RunKept
      <3> QED  BY <3>2, <3>3, <3>4
    <2>2. Fine(t)'
      <3>1. format = "hz" => period * 100 <= Clock  BY <1>28, AskedInRange
      <3> QED  BY <1>6, <1>23, <1>25, <3>1 DEF Fine
    <2>3. cycle \in Nat \ {0} /\ (format = "hz" => cycle <= 100)  BY <1>28, CycleInRange
    <2>4. Near(w, b.v, Word(p.v))  BY <1>6, <1>7, <1>17, <2>3 DEF Near
    <2> QED  BY <1>6, <1>17, <1>24, <1>26, <2>1, <2>2, <2>4
  <1> QED  BY <1>1, <1>12, <1>21, <1>22, <1>27, <1>28, PwmCallOn

\* A call on an object that exists, which leaves its period and its wave as
\* they were.
Spared(ops, t) ==
    /\ Never(ops, t, {"timing"}) /\ Never(ops, t, BaseKinds) /\ Never(ops, t, PulseKinds)
    /\ Never(ops, t, ModeKinds) /\ Never(ops, t, RunKinds)

Alike(w, o) == w.made = o.made /\ w.period = o.period /\ w.cycle = o.cycle /\ w.format = o.format

LEMMA SameWave ==
    ASSUME TimersType, TimersInv', PeriodInv, NEW pin \in Pins, NEW ops, Call(ops),
           Of(ops, pin[1]), Zeroed(ops), Spared(ops, pin[1]), Object(pin).alive,
           NEW q, Ending(ops, pin[1], {"pwm"}, q), Alike(q.v, Object(pin)),
           OutputInv => OutEnds(pin[1], q.v.active)'
    PROVE  PeriodInv' /\ (OutputInv => OutputInv')
  <1>1. PICK t \in Timers : t = pin[1]  BY PinTimer
  <1>2. PICK o : o = pwmObj[t][0]  OBVIOUS
  <1>3. PICK w : w = q.v  OBVIOUS
  <1>4. Object(pin) = o /\ pwmObj[t][0].alive  BY <1>1, <1>2, ObjectIs
  <1>5. Alike(w, o)  BY <1>3, <1>4
  <1>6. ops \in Seq(Ops) /\ todo = <<>>  BY CallOps
  <1>7. Spared(ops, t) /\ Of(ops, t) /\ Ending(ops, t, {"pwm"}, q)  BY <1>1
  <1>8. /\ Never(ops, t, {"timing"}) /\ Never(ops, t, BaseKinds) /\ Never(ops, t, PulseKinds)
        /\ Never(ops, t, ModeKinds) /\ Never(ops, t, RunKinds)
    BY <1>7 DEF Spared
  <1>9. BaseAt(t)'  BY <1>8, BaseStays, EachTimer DEF PeriodInv
  <1>10. \A x : PwmEnds(t, x)' <=> x = w  BY <1>3, <1>6, <1>7, PwmLeft
  <1>11. ASSUME OutputInv
         PROVE  /\ t # ToneTimer /\ w.made
                /\ ModeEnds(t, "pwm")' /\ RunEnds(t)' /\ OutEnds(t, w.active)' /\ Fine(t)'
                /\ (TimingEnds(t, Timing(w))' =>
                      \E r \in BaseRegs : \E n : /\ BaseEnds(t, r)' /\ Suits(Timing(w), r)
                                                 /\ PulseEnds(t, n)' /\ Near(w, r, n))
    <2>1. pwmObj[t][0].made /\ t # ToneTimer  BY <1>4, <1>11, RunKept
    <2>2. w.made  BY <1>2, <1>5, <2>1 DEF Alike
    <2>3. ModeEnds(t, "pwm")' /\ RunEnds(t)' /\ Fine(t)'  BY <1>4, <1>8, <1>11, RunKept
    <2>4. OutEnds(t, w.active)'  BY <1>1, <1>3, <1>11
    <2>5. ASSUME TimingEnds(t, Timing(w))'
          PROVE  \E r \in BaseRegs : \E n : /\ BaseEnds(t, r)' /\ Suits(Timing(w), r)
                                            /\ PulseEnds(t, n)' /\ Near(w, r, n)
      <3>1. Timing(w) = Timing(o)  BY <1>5 DEF Alike, Timing
      <3>2. PICK v : v = Timing(w)  OBVIOUS
      <3>3. TimingEnds(t, v)'  BY <2>5, <3>2 DEF Timing
      <3>4. v = timing[t]  BY <1>6, <1>8, <3>3, EndsCall
      <3>5. TimingEnds(t, Timing(o)) /\ PwmEnds(t, o)  BY <1>2, <1>6, <3>1, <3>2, <3>4, EndsIdle
      <3>6. o.made  BY <1>2, <2>1
      <3>7. PICK r \in BaseRegs : \E n :
                BaseEnds(t, r) /\ Suits(Timing(o), r) /\ PulseEnds(t, n) /\ Near(o, r, n)
        BY <1>11, <3>5, <3>6 DEF OutputInv, WaveInv
      <3>8. PICK n : BaseEnds(t, r) /\ Suits(Timing(o), r) /\ PulseEnds(t, n) /\ Near(o, r, n)  BY <3>7
      <3>9. r = BaseOf(t) /\ n = chan[t][0].pulse  BY <1>6, <3>8, EndsIdle
      <3>10. BaseEnds(t, r)'  BY <1>6, <1>8, <3>9, EndsCall
      <3>11. PulseEnds(t, n)'  BY <1>6, <1>8, <3>9, EndsCall
      <3>12. Near(w, r, n)  BY <1>5, <3>8 DEF Near, Alike
      <3> QED  BY <3>1, <3>8, <3>10, <3>11, <3>12
    <2> QED  BY <2>1, <2>2, <2>3, <2>4, <2>5
  <1> QED  BY <1>1, <1>9, <1>10, <1>11, PwmCallOn

LEMMA PwmStartStopPins ==
    ASSUME TimersType, TimersInv', PeriodInv, NEW pin \in Pins, PwmStartStop(pin)
    PROVE  PeriodInv' /\ (OutputInv => OutputInv')
  <1>1. PICK t \in Timers : t = pin[1]  BY PinTimer
  <1>2. PICK on \in BOOLEAN : Call(<<PwmOut(pin, on), PwmOp(pin, [Object(pin) EXCEPT !.active = on])>>)
    BY DEF PwmStartStop
  <1>3. PICK o : o = Object(pin)  OBVIOUS
  <1>4. PICK w : w = [o EXCEPT !.active = on]  OBVIOUS
  <1>5. o \in PwmType /\ o.alive  BY <1>1, <1>3, ObjectIs DEF PwmStartStop
  <1>6. Alike(w, o) /\ w.active = on  BY <1>4, <1>5 DEF PwmType, Alike
  <1>7. PICK p : p = PwmOut(pin, on)  OBVIOUS
  <1>8. PICK q : q = PwmOp(pin, w)  OBVIOUS
  <1>9. PICK ops : ops = <<p, q>>  OBVIOUS
  <1>10. Call(ops) /\ ops \in Seq(Ops)  BY <1>2, <1>3, <1>4, <1>7, <1>8, <1>9, CallOps
  <1>11. q.op = "pwm" /\ q.t = t /\ q.e = 0 /\ q.v = w  BY <1>1, <1>8, PwmOpIs
  <1>12. p.op = "out" /\ p.t = t /\ p.e = 0 /\ p.v = on  BY <1>1, <1>7 DEF PwmOut, ValueOp, ChannelOf
  <1>13. /\ Of(ops, t) /\ Ending(ops, t, {"pwm"}, q) /\ Ending(ops, t, OutKinds, p)
         /\ Len(ops) = 2 /\ ops[1] = p /\ ops[2] = q
    BY <1>9, <1>11, <1>12, TwoOps DEF OutKinds
  <1>14. Zeroed(ops)  BY <1>11, <1>12, <1>13 DEF Zeroed
  <1>15. Spared(ops, t)
    BY <1>9, <1>11, <1>12, TwoOps DEF Spared, BaseKinds, PulseKinds, ModeKinds, RunKinds
  <1>16. OutEnds(t, w.active)'
    <2>1. OutEnds(t, p.v)'  BY <1>10, <1>12, <1>13, EndsCall
    <2> QED  BY <1>6, <1>12, <2>1
  <1> QED  BY <1>1, <1>3, <1>5, <1>6, <1>10, <1>11, <1>13, <1>14, <1>15, <1>16, SameWave

LEMMA PwmAttachPins ==
    ASSUME TimersType, TimersInv', PeriodInv, NEW pin \in Pins, PwmAttach(pin) \/ PwmDetach(pin)
    PROVE  PeriodInv' /\ (OutputInv => OutputInv')
  <1>1. PICK t \in Timers : t = pin[1]  BY PinTimer
  <1>2. PICK o : o = Object(pin)  OBVIOUS
  <1>3. o \in PwmType /\ o.alive  BY <1>1, <1>2, ObjectIs DEF PwmAttach, PwmDetach
  <1>4. PICK cb, name :
            /\ name \in {"enable", "disable"}
            /\ Call(<<PwmOp(pin, [o EXCEPT !.cb = cb])>> \o <<EventOp("clear", t, 0), EventOp(name, t, 0)>>)
    <2>1. CASE PwmAttach(pin)
      <3>1. PICK cb : cb = "plain"  OBVIOUS
      <3>2. PICK name \in {"enable", "disable"} : name = "enable"  OBVIOUS
      <3>3. Call(<<PwmOp(pin, [o EXCEPT !.cb = cb])>> \o <<EventOp("clear", t, 0), EventOp(name, t, 0)>>)
        BY <1>1, <1>2, <2>1, <3>1, <3>2 DEF PwmAttach, EnableIT, ChannelOf
      <3> QED  BY <3>2, <3>3
    <2>2. CASE PwmDetach(pin)
      <3>1. PICK cb : cb = None  OBVIOUS
      <3>2. PICK name \in {"enable", "disable"} : name = "disable"  OBVIOUS
      <3>3. Call(<<PwmOp(pin, [o EXCEPT !.cb = cb])>> \o <<EventOp("clear", t, 0), EventOp(name, t, 0)>>)
        BY <1>1, <1>2, <2>2, <3>1, <3>2 DEF PwmDetach, DisableIT, ChannelOf
      <3> QED  BY <3>2, <3>3
    <2> QED  BY <2>1, <2>2
  <1>5. PICK w : w = [o EXCEPT !.cb = cb]  OBVIOUS
  <1>6. Alike(w, o) /\ w.active = o.active  BY <1>3, <1>5 DEF PwmType, Alike
  <1>7. PICK q : q = PwmOp(pin, w)  OBVIOUS
  <1>8. PICK d : d = EventOp("clear", t, 0)  OBVIOUS
  <1>9. PICK e : e = EventOp(name, t, 0)  OBVIOUS
  <1>10. PICK ops : ops = <<q>> \o <<d, e>>  OBVIOUS
  <1>11. Call(ops) /\ ops \in Seq(Ops)  BY <1>4, <1>5, <1>7, <1>8, <1>9, <1>10, CallOps
  <1>12. q.op = "pwm" /\ q.t = t /\ q.e = 0 /\ q.v = w  BY <1>1, <1>7, PwmOpIs
  <1>13. d.op = "clear" /\ d.t = t /\ e.op = name /\ e.t = t /\ name \in {"enable", "disable"}
    BY <1>4, <1>8, <1>9 DEF EventOp
  <1>14. Three(ops, q, d, e)  BY <1>10 DEF Three
  <1>15. /\ Of(ops, t) /\ Ending(ops, t, {"pwm"}, q) /\ Never(ops, t, OutKinds)
         /\ Len(ops) = 3 /\ ops[1] = q /\ ops[2] = d /\ ops[3] = e
    <2>1. q.op \in {"pwm"} /\ d.op \notin {"pwm"} /\ e.op \notin {"pwm"}  BY <1>12, <1>13
    <2>2. q.op \notin OutKinds /\ d.op \notin OutKinds /\ e.op \notin OutKinds  BY <1>12, <1>13 DEF OutKinds
    <2> QED  BY <1>12, <1>13, <1>14, <2>1, <2>2, ThreeOps
  <1>16. Zeroed(ops)  BY <1>12, <1>13, <1>15 DEF Zeroed
  <1>17. Spared(ops, t)
    <2>1. \A K : "pwm" \notin K /\ "clear" \notin K /\ name \notin K => Never(ops, t, K)
      BY <1>12, <1>13, <1>14, ThreeOps
    <2>2. Never(ops, t, {"timing"}) /\ Never(ops, t, BaseKinds)  BY <1>13, <2>1 DEF BaseKinds
    <2>3. Never(ops, t, PulseKinds) /\ Never(ops, t, ModeKinds)  BY <1>13, <2>1 DEF PulseKinds, ModeKinds
    <2>4. Never(ops, t, RunKinds)  BY <1>13, <2>1 DEF RunKinds
    <2> QED  BY <2>2, <2>3, <2>4 DEF Spared
  <1>18. ASSUME OutputInv PROVE OutEnds(t, w.active)'
    <2>1. o = pwmObj[t][0]  BY <1>1, <1>2, ObjectIs
    <2>2. pwmObj[t][0].alive /\ w.active = pwmObj[t][0].active  BY <1>3, <1>6, <2>1
    <2> QED  BY <1>11, <1>15, <1>18, <2>2, RunKept
  <1> QED  BY <1>1, <1>2, <1>3, <1>6, <1>11, <1>12, <1>15, <1>16, <1>17, <1>18, SameWave

LEMMA PwmWriteCycleValuePins ==
    ASSUME TimersType, TimersInv', PeriodInv, NEW pin \in Pins, PwmWriteCycleValue(pin)
    PROVE  PeriodInv' /\ (OutputInv /\ CyclesInRange => OutputInv')
  <1>1. PICK t \in Timers : t = pin[1]  BY PinTimer
  <1>2. PICK cycle \in Cycles, format \in Formats \ {"tick"} :
            Call(<<PwmOp(pin, [Object(pin) EXCEPT !.cycle = cycle, !.format = format]),
                   ValueOp("pulse", pin[1], ChannelOf(pin),
                           CompareValue(cycle, format, reg[pin[1]].car) - 1)>>)
    BY DEF PwmWriteCycleValue
  <1>3. PICK o : o = pwmObj[t][0]  OBVIOUS
  <1>4. PICK w : w = [o EXCEPT !.cycle = cycle, !.format = format]  OBVIOUS
  <1>5. Object(pin) = o /\ o \in PwmType /\ o.alive  BY <1>1, <1>3, ObjectIs DEF PwmWriteCycleValue
  <1>6. /\ w.cycle = cycle /\ w.format = format /\ w.active = o.active /\ w.made = o.made
        /\ w.period = o.period
    BY <1>4, <1>5 DEF PwmType
  <1>7. PICK n : n = CompareValue(cycle, format, reg[t].car) - 1  OBVIOUS
  <1>8. PICK q : q = PwmOp(pin, w)  OBVIOUS
  <1>9. PICK p : p = ValueOp("pulse", t, 0, n)  OBVIOUS
  <1>10. PICK ops : ops = <<q, p>>  OBVIOUS
  <1>11. Call(ops) /\ ops \in Seq(Ops) /\ todo = <<>>
    BY <1>1, <1>2, <1>4, <1>5, <1>7, <1>8, <1>9, <1>10, CallOps DEF ChannelOf
  <1>12. q.op = "pwm" /\ q.t = t /\ q.e = 0 /\ q.v = w  BY <1>1, <1>8, PwmOpIs
  <1>13. p.op = "pulse" /\ p.t = t /\ p.e = 0 /\ p.v = n  BY <1>9 DEF ValueOp
  <1>14. /\ Of(ops, t) /\ Ending(ops, t, {"pwm"}, q) /\ Ending(ops, t, PulseKinds, p)
         /\ Len(ops) = 2 /\ ops[1] = q /\ ops[2] = p
    BY <1>10, <1>12, <1>13, TwoOps DEF PulseKinds
  <1>15. Zeroed(ops)  BY <1>12, <1>13, <1>14 DEF Zeroed
  <1>16. /\ Never(ops, t, {"timing"}) /\ Never(ops, t, BaseKinds) /\ Never(ops, t, OutKinds)
         /\ Never(ops, t, ModeKinds) /\ Never(ops, t, RunKinds)
    <2>1. \A K : "pwm" \notin K /\ "pulse" \notin K => Never(ops, t, K)
      BY <1>10, <1>12, <1>13, TwoOps
    <2>2. Never(ops, t, {"timing"}) /\ Never(ops, t, BaseKinds)  BY <2>1 DEF BaseKinds
    <2>3. Never(ops, t, OutKinds) /\ Never(ops, t, ModeKinds)  BY <2>1 DEF OutKinds, ModeKinds
    <2>4. Never(ops, t, RunKinds)  BY <2>1 DEF RunKinds
    <2> QED  BY <2>2, <2>3, <2>4
  <1>17. BaseAt(t)'  BY <1>11, <1>16, BaseStays, EachTimer DEF PeriodInv
  <1>18. \A x : PwmEnds(t, x)' <=> x = w  BY <1>11, <1>12, <1>14, PwmLeft
  <1>19. ASSUME OutputInv, CyclesInRange
         PROVE  /\ t # ToneTimer /\ w.made
                /\ ModeEnds(t, "pwm")' /\ RunEnds(t)' /\ OutEnds(t, w.active)' /\ Fine(t)'
                /\ (TimingEnds(t, Timing(w))' =>
                      \E r \in BaseRegs : \E m : /\ BaseEnds(t, r)' /\ Suits(Timing(w), r)
                                                 /\ PulseEnds(t, m)' /\ Near(w, r, m))
    <2>1. pwmObj[t][0].alive  BY <1>3, <1>5
    <2>2. o.made /\ t # ToneTimer  BY <1>3, <1>11, <1>19, <2>1, RunKept
    <2>3. ModeEnds(t, "pwm")' /\ RunEnds(t)' /\ Fine(t)'  BY <1>11, <1>16, <1>19, <2>1, RunKept
    <2>4. OutEnds(t, o.active)'  BY <1>3, <1>11, <1>16, <1>19, <2>1, RunKept
    <2>5. cycle \in Nat \ {0} /\ (format = "hz" => cycle <= 100)  BY <1>19, CycleInRange
    <2>6. ASSUME TimingEnds(t, Timing(w))'
          PROVE  \E r \in BaseRegs : \E m : /\ BaseEnds(t, r)' /\ Suits(Timing(w), r)
                                            /\ PulseEnds(t, m)' /\ Near(w, r, m)
      <3>1. PICK v : v = Timing(w)  OBVIOUS
      <3>2. TimingEnds(t, v)'  BY <2>6, <3>1 DEF Timing
      <3>3. v = timing[t]  BY <1>11, <1>16, <3>2, EndsCall
      <3>4. TimingEnds(t, v)  BY <1>11, <3>3, EndsIdle
      <3>5. v.by = "pwm" /\ v.format = format  BY <1>6, <3>1 DEF Timing
      <3>6. PICK r \in BaseRegs : BaseEnds(t, r) /\ Suits(v, r)
        BY <3>4, <3>5 DEF PeriodInv, BaseInv
      <3>7. r = BaseOf(t)  BY <1>11, <3>6, EndsIdle
      <3>8. r.car = reg[t].car  BY <3>7 DEF BaseOf
      <3>9. BaseEnds(t, r)'  BY <1>11, <1>16, <3>7, EndsCall
      <3>10. PulseEnds(t, Word(p.v))'  BY <1>11, <1>13, <1>14, EndsCall
      <3>11. format \in {"us", "ms", "hz"}
        <4>1. v.format # "tick" /\ v.by # "timer"  BY <1>2, <3>5
        <4> QED  BY <3>5, <3>6, <4>1 DEF Suits, Counted
      <3>12. Near(w, r, Word(p.v))
        <4>1. p.v = CompareValue(w.cycle, w.format, r.car) - 1  BY <1>6, <1>7, <1>13, <3>8
        <4> QED  BY <1>6, <2>5, <3>11, <4>1 DEF Near
      <3> QED  BY <3>1, <3>6, <3>9, <3>10, <3>12
    <2> QED  BY <1>6, <2>2, <2>3, <2>4, <2>6
  <1> QED  BY <1>1, <1>11, <1>14, <1>15, <1>17, <1>18, <1>19, PwmCallOn

\* Five parts of a call, the last two of which set what is left behind.
Five(ops, a, b, c, d, e) == ops = a \o b \o c \o d \o e

LEMMA FiveParts ==
    ASSUME NEW a, NEW b, NEW c, NEW d, NEW e, NEW ops, NEW t, Five(ops, a, b, c, d, e),
           a \in Seq(Ops), b \in Seq(Ops), c \in Seq(Ops), d \in Seq(Ops), e \in Seq(Ops),
           Of(a, t), Of(b, t), Of(c, t), Of(d, t), Of(e, t),
           Zeroed(a), Zeroed(b), Zeroed(c), Zeroed(d), Zeroed(e)
    PROVE  /\ Of(ops, t) /\ Zeroed(ops)
           /\ \A K, o : Ending(e, t, K, o) => Ending(ops, t, K, o)
           /\ \A K, o : Ending(d, t, K, o) /\ Never(e, t, K) => Ending(ops, t, K, o)
           /\ \A K, o : Ending(b, t, K, o) /\ Never(c, t, K) /\ Never(d, t, K) /\ Never(e, t, K) =>
                 Ending(ops, t, K, o)
  <1>1. PICK f : f = a \o b  OBVIOUS
  <1>2. PICK g : g = f \o c  OBVIOUS
  <1>3. PICK h : h = g \o d  OBVIOUS
  <1>4. ops = h \o e  BY <1>1, <1>2, <1>3 DEF Five
  <1>5. f \in Seq(Ops)  BY <1>1
  <1>6. g \in Seq(Ops)  BY <1>2, <1>5
  <1>7. h \in Seq(Ops)  BY <1>3, <1>6
  <1>8. Of(f, t) /\ Zeroed(f)  BY <1>1, OfJoined
  <1>9. Of(g, t) /\ Zeroed(g)  BY <1>2, <1>5, <1>8, OfJoined
  <1>10. Of(h, t) /\ Zeroed(h)  BY <1>3, <1>6, <1>9, OfJoined
  <1>11. Of(ops, t) /\ Zeroed(ops)  BY <1>4, <1>7, <1>10, OfJoined
  <1>12. ASSUME NEW K, NEW o, Ending(e, t, K, o) PROVE Ending(ops, t, K, o)
    BY <1>4, <1>7, <1>12, EndingJoined
  <1>13. ASSUME NEW K, NEW o, Ending(d, t, K, o), Never(e, t, K) PROVE Ending(ops, t, K, o)
    <2>1. Ending(h, t, K, o)  BY <1>3, <1>6, <1>13, EndingJoined
    <2> QED  BY <1>4, <1>7, <1>13, <2>1, EndingJoined
  <1>14. ASSUME NEW K, NEW o, Ending(b, t, K, o), Never(c, t, K), Never(d, t, K), Never(e, t, K)
         PROVE  Ending(ops, t, K, o)
    <2>1. Ending(f, t, K, o)  BY <1>1, <1>14, EndingJoined
    <2>2. Ending(g, t, K, o)  BY <1>2, <1>5, <1>14, <2>1, EndingJoined
    <2>3. Ending(h, t, K, o)  BY <1>3, <1>6, <1>14, <2>2, EndingJoined
    <2> QED  BY <1>4, <1>7, <1>14, <2>3, EndingJoined
  <1> QED  BY <1>11, <1>12, <1>13, <1>14

\* The object that analogWrite leaves.
Written(w, cycle) ==
    /\ w.made /\ w.active = TRUE /\ w.period = 1000 /\ w.cycle = cycle /\ w.format = "us"

LEMMA AnalogWritePins ==
    ASSUME TimersType, TimersInv', PeriodInv, InRange, NEW pin \in Pins, AnalogWrite(pin)
    PROVE  PeriodInv' /\ (OutputInv /\ ~Shared /\ CyclesInRange => OutputInv')
  <1>1. PICK t \in Timers : t = pin[1]  BY PinTimer
  <1>2. PICK cycle \in Cycles :
           LET o == [Constructed(TRUE) EXCEPT !.period = 1000, !.cycle = cycle] IN
           Call(<<PwmOp(pin, Constructed(TRUE))>> \o PwmInit(pin)
                \o <<PwmOp(pin, o)>> \o PwmPeriod(pin, 1000, cycle, "us")
                \o <<PwmOut(pin, TRUE), PwmOp(pin, [o EXCEPT !.active = TRUE, !.alive = FALSE])>>)
    BY DEF AnalogWrite
  <1>3. PICK o0 : o0 = Constructed(TRUE)  OBVIOUS
  <1>4. PICK o1 : o1 = [Constructed(TRUE) EXCEPT !.period = 1000, !.cycle = cycle]  OBVIOUS
  <1>5. PICK w : w = [o1 EXCEPT !.active = TRUE, !.alive = FALSE]  OBVIOUS
  <1>6. cycle \in Nat  BY TimesFit
  <1>7. /\ Written(w, cycle) /\ o1 \in PwmType /\ w \in PwmType /\ o1.cb = None /\ w.cb = None
        /\ o0 \in PwmType /\ o0.cb = None
    <2>1. o0 \in PwmType /\ o0.cb = None  BY <1>3, ConstructedTyped
    <2>2. o0.made /\ o0.format = "us"
      <3>1. Anew(o0)  BY <1>3, ConstructedIs
      <3> QED  BY <3>1 DEF Anew
    <2>3. PICK k \in Nat : k = 1000  OBVIOUS
    <2>4. o1 = [o0 EXCEPT !.period = k, !.cycle = cycle]  BY <1>3, <1>4, <2>3
    <2>5. /\ o1 \in PwmType /\ o1.cb = o0.cb /\ o1.made = o0.made /\ o1.period = k
          /\ o1.cycle = cycle /\ o1.format = o0.format
      BY <1>6, <2>1, <2>4 DEF PwmType
    <2>6. /\ w \in PwmType /\ w.cb = o1.cb /\ w.made = o1.made /\ w.active = TRUE
          /\ w.period = o1.period /\ w.cycle = o1.cycle /\ w.format = o1.format
      BY <1>5, <2>5 DEF PwmType
    <2> QED  BY <2>1, <2>2, <2>3, <2>5, <2>6 DEF Written
  <1>8. PICK q0 : q0 = PwmOp(pin, o0)  OBVIOUS
  <1>9. PICK q1 : q1 = PwmOp(pin, o1)  OBVIOUS
  <1>10. PICK q : q = PwmOp(pin, w)  OBVIOUS
  <1>11. PICK u : u = PwmOut(pin, TRUE)  OBVIOUS
  <1>12. PICK a : a = <<q0>>  OBVIOUS
  <1>13. PICK b : b = PwmInit(pin)  OBVIOUS
  <1>14. PICK c : c = <<q1>>  OBVIOUS
  <1>15. PICK d : d = PwmPeriod(pin, 1000, cycle, "us")  OBVIOUS
  <1>16. PICK e : e = <<u, q>>  OBVIOUS
  <1>17. PICK ops : ops = a \o b \o c \o d \o e  OBVIOUS
  <1>18. Call(ops) /\ ops \in Seq(Ops)
    <2>1. Call(ops)
      BY <1>2, <1>3, <1>4, <1>5, <1>8, <1>9, <1>10, <1>11, <1>12, <1>13, <1>14, <1>15, <1>16, <1>17
    <2> QED  BY <2>1, CallOps
  <1>19. /\ q0.op = "pwm" /\ q0.t = t /\ q0.e = 0
         /\ q1.op = "pwm" /\ q1.t = t /\ q1.e = 0
         /\ q.op = "pwm" /\ q.t = t /\ q.e = 0 /\ q.v = w
    BY <1>1, <1>8, <1>9, <1>10, PwmOpIs
  <1>20. u.op = "out" /\ u.t = t /\ u.e = 0 /\ u.v = TRUE  BY <1>1, <1>11 DEF PwmOut, ValueOp, ChannelOf
  <1>21. Begins(b, t)  BY <1>1, <1>13, PwmInitPins
  <1>22. Waves(d, t, w)
    <2>1. PICK k : k = 1000  OBVIOUS
    <2>2. w.period = k /\ w.cycle = cycle /\ w.format = "us"  BY <1>7, <2>1 DEF Written
    <2>3. w.period \in Nat \ {0} /\ w.cycle \in Nat /\ w.format \in Units \ {"tick"}
      BY <1>6, <2>1, <2>2 DEF Units
    <2>4. d = PwmPeriod(pin, w.period, w.cycle, w.format)  BY <1>15, <2>1, <2>2
    <2> QED  BY <1>1, <2>3, <2>4, PwmPeriodPins
  <1>23. /\ a \in Seq(Ops) /\ b \in Seq(Ops) /\ c \in Seq(Ops) /\ d \in Seq(Ops) /\ e \in Seq(Ops)
    <2>1. PICK lines : lines = {CcIrq(t)}  OBVIOUS
    <2>2. Exists(o0) /\ Exists(o1) /\ Exists(w)  BY <1>7 DEF Exists
    <2>3. Plain(q0, lines) /\ Plain(q1, lines) /\ Plain(q, lines)
      BY <1>1, <1>7, <1>8, <1>9, <1>10, <2>1, <2>2, PwmFits
    <2>4. TRUE \in BOOLEAN /\ ChannelOf(pin) \in Events  BY PinTimer
    <2>5. Plain(u, lines)  BY <1>1, <1>11, <2>4, OutFits DEF PwmOut
    <2>6. q0 \in Ops /\ q1 \in Ops /\ q \in Ops /\ u \in Ops  BY <2>3, <2>5 DEF Plain
    <2>7. a \in Seq(Ops) /\ c \in Seq(Ops)  BY <1>12, <1>14, <2>6
    <2>8. e \in Seq(Ops)  BY <1>16, <2>6
    <2>9. b \in Seq(Ops)  BY <1>21 DEF Begins
    <2>10. d \in Seq(Ops)  BY <1>22 DEF Waves
    <2> QED  BY <2>7, <2>8, <2>9, <2>10
  <1>24. /\ Of(a, t) /\ Zeroed(a) /\ Of(c, t) /\ Zeroed(c) /\ \A K : "pwm" \notin K => Never(c, t, K)
    BY <1>12, <1>14, <1>19, OneOp DEF Zeroed
  <1>25. Of(b, t) /\ Zeroed(b)  BY <1>21 DEF Begins
  <1>26. /\ Of(d, t) /\ Zeroed(d) /\ Never(d, t, ModeKinds) /\ Never(d, t, RunKinds)
    BY <1>22 DEF Waves
  <1>27. /\ Of(e, t) /\ Ending(e, t, {"pwm"}, q) /\ Ending(e, t, OutKinds, u)
         /\ Len(e) = 2 /\ e[1] = u /\ e[2] = q
         /\ \A K : "pwm" \notin K /\ "out" \notin K => Never(e, t, K)
    BY <1>16, <1>19, <1>20, TwoOps DEF OutKinds
  <1>28. Zeroed(e)  BY <1>19, <1>20, <1>27 DEF Zeroed
  <1>29. /\ Of(ops, t) /\ Zeroed(ops)
         /\ \A K, x : Ending(e, t, K, x) => Ending(ops, t, K, x)
         /\ \A K, x : Ending(d, t, K, x) /\ Never(e, t, K) => Ending(ops, t, K, x)
         /\ \A K, x : Ending(b, t, K, x) /\ Never(c, t, K) /\ Never(d, t, K) /\ Never(e, t, K) =>
               Ending(ops, t, K, x)
    <2>1. Five(ops, a, b, c, d, e)  BY <1>17 DEF Five
    <2>2. Of(c, t) /\ Zeroed(c)  BY <1>24
    <2>3. Of(e, t)  BY <1>27
    <2> QED  BY <1>23, <1>24, <1>25, <1>26, <1>28, <2>1, <2>2, <2>3, FiveParts
  <1>30. PICK f : Ending(d, t, {"timing"}, f) /\ f.v = Timing(w)  BY <1>22 DEF Waves
  <1>31. PICK g, p : /\ Ending(d, t, BaseKinds, g) /\ g.op = "base" /\ g.v \in BaseRegs
                     /\ g.v = PwmRegisters(w.period, w.format)
                     /\ Ending(d, t, PulseKinds, p) /\ p.op = "pulse" /\ p.e = 0
                     /\ p.v = CompareValue(w.cycle, w.format, g.v.car) - 1
    BY <1>22 DEF Waves
  <1>32. PICK m : Ending(b, t, ModeKinds, m) /\ m.op = "mode" /\ m.e = 0 /\ m.v = "pwm"
    BY <1>21 DEF Begins
  <1>33. PICK n : Ending(b, t, RunKinds, n) /\ n.op = "on"  BY <1>21 DEF Begins
  <1>34. /\ Ending(ops, t, {"pwm"}, q) /\ Ending(ops, t, OutKinds, u)
    BY <1>27, <1>29
  <1>35. /\ Ending(ops, t, {"timing"}, f) /\ Ending(ops, t, BaseKinds, g) /\ Ending(ops, t, PulseKinds, p)
    <2>1. Never(e, t, {"timing"}) /\ Never(e, t, BaseKinds) /\ Never(e, t, PulseKinds)
      BY <1>27 DEF BaseKinds, PulseKinds
    <2> QED  BY <1>29, <1>30, <1>31, <2>1
  <1>36. /\ Ending(ops, t, ModeKinds, m) /\ Ending(ops, t, RunKinds, n)
    <2>1. Never(e, t, ModeKinds) /\ Never(e, t, RunKinds) /\ Never(c, t, ModeKinds) /\ Never(c, t, RunKinds)
      BY <1>24, <1>27 DEF ModeKinds, RunKinds
    <2> QED  BY <1>26, <1>29, <1>32, <1>33, <2>1
  <1>37. \A x : PwmEnds(t, x)' <=> x = w
    <2>1. q.v = w  BY <1>19
    <2> QED  BY <1>18, <1>34, <2>1, PwmLeft
  <1>38. \A x : TimingEnds(t, x)' <=> x = Timing(w)  BY <1>18, <1>30, <1>35, TimingLeft
  <1>39. BaseEnds(t, g.v)'  BY <1>18, <1>31, <1>35, EndsCall
  <1>40. PulseEnds(t, Word(p.v))'  BY <1>18, <1>31, <1>35, EndsCall
  <1>41. OutEnds(t, u.v)'  BY <1>18, <1>20, <1>34, EndsCall
  <1>42. ModeEnds(t, m.v)'  BY <1>18, <1>32, <1>36, EndsCall
  <1>43. RunEnds(t)'  BY <1>18, <1>33, <1>36, EndsCall
  <1>44. /\ Timing(w).by = "pwm" /\ Timing(w).time = w.period /\ Timing(w).format = w.format
    BY DEF Timing
  <1>45. Suits(Timing(w), g.v)
    <2>1. Counted(w.period, w.format)  BY <1>7 DEF Written, Counted
    <2> QED  BY <1>31, <1>44, <2>1 DEF Suits
  <1>46. BaseAt(t)'  BY <1>18, <1>30, <1>31, <1>35, <1>45, SetsPeriod
  <1>47. ASSUME OutputInv, ~Shared, CyclesInRange
         PROVE  /\ t # ToneTimer /\ w.made
                /\ ModeEnds(t, "pwm")' /\ RunEnds(t)' /\ OutEnds(t, w.active)' /\ Fine(t)'
                /\ \E r \in BaseRegs : \E k : /\ BaseEnds(t, r)' /\ Suits(Timing(w), r)
                                              /\ PulseEnds(t, k)' /\ Near(w, r, k)
    <2>1. t # ToneTimer  BY <1>1, <1>47, NotTone DEF AnalogWrite
    <2>2. w.made /\ w.active = TRUE /\ w.cycle = cycle /\ w.format = "us"  BY <1>7 DEF Written
    <2>3. Fine(t)'  BY <1>38, <1>44, <2>2 DEF Fine
    <2>4. cycle \in Nat \ {0}  BY <1>6, <1>47 DEF CyclesInRange
    <2>5. Near(w, g.v, Word(p.v))  BY <1>31, <2>2, <2>4 DEF Near
    <2>6. ModeEnds(t, "pwm")'  BY <1>32, <1>42
    <2>7. OutEnds(t, w.active)'  BY <1>20, <1>41, <2>2
    <2> QED  BY <1>31, <1>39, <1>40, <1>43, <1>45, <2>1, <2>2, <2>3, <2>5, <2>6, <2>7
  <1> QED  BY <1>1, <1>18, <1>29, <1>37, <1>46, <1>47, PwmCallOn

\* The timers and their interrupt leave the periods and the waves alone.
LEMMA EventPins ==
    ASSUME TimersType, PeriodInv, NEW t \in Timers, Overflow(t) \/ Match(t) \/ Interrupt(t)
    PROVE  PeriodInv' /\ (OutputInv => OutputInv')
  <1>1. reg \in [Timers -> RegType] /\ hwObj \in [Timers -> HwType]  BY DEF TimersType
  <1>2. UNCHANGED <<todo, chan, timing, pwmObj>>  BY DEF Overflow, Match, Interrupt
  <1>3. \A s \in Timers : BaseOf(s)' = BaseOf(s) /\ reg'[s].on = reg[s].on
    <2>1. CASE Overflow(t)
      <3>1. PICK F, D : reg' = [reg EXCEPT ![t].flags = F, ![t].due = D]  BY <2>1 DEF Overflow
      <3> QED  BY <1>1, <3>1 DEF BaseOf, RegType
    <2>2. CASE Match(t)
      <3>1. PICK F, D : reg' = [reg EXCEPT ![t].flags = F, ![t].due = D]  BY <2>2 DEF Match
      <3> QED  BY <1>1, <3>1 DEF BaseOf, RegType
    <2>3. CASE Interrupt(t)
      <3>1. PICK F, D : reg' = [reg EXCEPT ![t].flags = F, ![t].ie = D]  BY <2>3 DEF Interrupt, Served
      <3> QED  BY <1>1, <3>1 DEF BaseOf, RegType
    <2> QED  BY <2>1, <2>2, <2>3
  <1>4. hwObj[ToneTimer].made => hwObj'[ToneTimer].made
    <2>1. CASE hwObj' = hwObj  BY <2>1
    <2>2. CASE \E e : hwObj' = [hwObj EXCEPT ![t].cb[e] = None]
      <3>1. PICK e : hwObj' = [hwObj EXCEPT ![t].cb[e] = None]  BY <2>2
      <3>2. ToneTimer \in Timers  BY TimersAssumption
      <3> QED  BY <1>1, <3>1, <3>2 DEF HwType
    <2> QED  BY <2>1, <2>2 DEF Overflow, Match, Interrupt
  <1> QED  BY <1>2, <1>3, <1>4, PinsQuiet

LEMMA PinsStart ==
    ASSUME Init
    PROVE  PeriodInv /\ OutputInv
  <1>1. todo = <<>> /\ ToneTimer \in Timers  BY TimersAssumption DEF Init
  <1>2. \A t \in Timers : timing[t] = Nobody /\ pwmObj[t][0] = NoPwm  BY DEF Init, Channels
  <1>3. Nobody.by = "nobody" /\ NoPwm.made = FALSE /\ NoPwm.alive = FALSE  BY DEF Nobody, NoPwm
  <1>4. PinsType
    <2>1. Silent \in ChanType
      <3>1. "off" \in Values /\ 0 \in Values /\ FALSE \in Values  BY DEF Values, Modes
      <3>2. Word(0) = 0  BY DEF Word
      <3> QED  BY <3>1, <3>2 DEF Silent, ChanType
    <2>2. Nobody \in Values  BY DEF Nobody, Values, UserType, Units
    <2>3. chan \in [Timers -> [Channels -> ChanType]]  BY <2>1 DEF Init
    <2>4. timing \in [Timers -> Values]  BY <2>2 DEF Init
    <2> QED  BY <1>1, <2>3, <2>4 DEF PinsType
  <1>5. BaseInv
    <2>1. \A t \in Timers : \A v : TimingEnds(t, v) => v.by = "nobody"  BY <1>1, <1>2, <1>3, EndsIdle
    <2> QED  BY <2>1 DEF BaseInv
  <1>6. \A t \in Timers : \A o : PwmEnds(t, o) => o.made = FALSE /\ o.alive = FALSE
    BY <1>1, <1>2, <1>3, EndsIdle
  <1>7. RunInv /\ WaveInv  BY <1>6 DEF RunInv, WaveInv
  <1>8. OwnInv
    <2>1. hwObj[ToneTimer].made
      <3>1. hwObj[ToneTimer] = [NoObject EXCEPT !.made = TRUE]  BY <1>1 DEF Init
      <3> QED  BY <3>1 DEF NoObject
    <2>2. Never(todo, ToneTimer, {"pwm"})  BY <1>1 DEF Never
    <2> QED  BY <1>1, <1>2, <1>3, <1>6, <2>1, <2>2 DEF OwnInv
  <1> QED  BY <1>4, <1>5, <1>7, <1>8 DEF PeriodInv, OutputInv

LEMMA PinsNext ==
    ASSUME TimersInv, CallsFresh, PeriodInv, InRange, [Next]_vars
    PROVE  PeriodInv' /\ (OutputInv /\ ~Shared /\ CyclesInRange => OutputInv')
  <1>1. TimersInv' /\ TimersType  BY TimersNext DEF TimersInv
  <1>2. CASE Step  BY <1>2, PinsStep
  <1>3. CASE \E t \in Timers : Overflow(t) \/ Match(t) \/ Interrupt(t)  BY <1>1, <1>3, EventPins
  <1>4. CASE \E t \in Timers : TimerCall(t)
    <2>1. PICK t \in Timers : TimerCall(t)  BY <1>4
    <2>2. CASE NewTimer(t)  BY <1>1, <2>2, NewTimerPins
    <2>3. CASE SetPeriodTime(t)  BY <1>1, <2>3, SetPeriodTimePins
    <2>4. CASE AttachInterrupt(t) \/ DetachInterrupt(t)  BY <1>1, <2>4, AttachInterruptPins
    <2>5. CASE StartStop(t) \/ Refresh(t) \/ SetCaptureMode(t)  BY <1>1, <2>5, StartStopPins
    <2>6. CASE SetRegister(t)  BY <1>1, <2>6, SetRegisterPins
    <2> QED  BY <2>1, <2>2, <2>3, <2>4, <2>5, <2>6 DEF TimerCall
  <1>5. CASE \E pin \in Pins : PwmCall(pin)
    <2>1. PICK pin \in Pins : PwmCall(pin)  BY <1>5
    <2>2. CASE NewPwm(pin)  BY <1>1, <2>2, NewPwmPins
    <2>3. CASE PwmSetPeriodCycle(pin)  BY <1>1, <2>3, PwmSetPeriodCyclePins
    <2>4. CASE PwmWriteCycleValue(pin)  BY <1>1, <2>4, PwmWriteCycleValuePins
    <2>5. CASE PwmStartStop(pin)  BY <1>1, <2>5, PwmStartStopPins
    <2>6. CASE PwmAttach(pin) \/ PwmDetach(pin)  BY <1>1, <2>6, PwmAttachPins
    <2>7. CASE AnalogWrite(pin)  BY <1>1, <2>7, AnalogWritePins
    <2> QED  BY <2>1, <2>2, <2>3, <2>4, <2>5, <2>6, <2>7 DEF PwmCall
  <1>6. CASE \E pin \in Speakers : Tone(pin) \/ NoTone(pin)  BY <1>1, <1>6, TonePins
  <1>7. CASE UNCHANGED vars
    <2>1. UNCHANGED <<reg, chan, hwObj, pwmObj, todo, timing>>  BY <1>7 DEF vars
    <2>2. \A t \in Timers : BaseOf(t)' = BaseOf(t) /\ reg'[t].on = reg[t].on  BY <2>1 DEF BaseOf
    <2> QED  BY <2>1, <2>2, PinsQuiet
  <1> QED  BY <1>2, <1>3, <1>4, <1>5, <1>6, <1>7 DEF Next, Speakers

LEMMA PeriodsAlways ==
    ASSUME InRange
    PROVE  Spec => [](TimersInv /\ CallsFresh /\ PeriodInv)
  <1>1. Init => TimersInv /\ CallsFresh /\ PeriodInv  BY TimersStart, PinsStart
  <1>2. TimersInv /\ CallsFresh /\ PeriodInv /\ [Next]_vars => TimersInv' /\ CallsFresh' /\ PeriodInv'
    BY TimersNext, PinsNext
  <1> QED  BY <1>1, <1>2, PTL DEF Spec

LEMMA OutputsAlways ==
    ASSUME InRange, CyclesInRange, ~Shared
    PROVE  Spec => [](TimersInv /\ CallsFresh /\ PeriodInv /\ OutputInv)
  <1>1. Init => TimersInv /\ CallsFresh /\ PeriodInv /\ OutputInv  BY TimersStart, PinsStart
  <1>2. TimersInv /\ CallsFresh /\ PeriodInv /\ OutputInv /\ [Next]_vars =>
           TimersInv' /\ CallsFresh' /\ PeriodInv' /\ OutputInv'
    BY TimersNext, PinsNext
  <1> QED  BY <1>1, <1>2, PTL DEF Spec

-----------------------------------------------------------------------------
(* What the registers of a period come to.                                   *)

LEMMA Division ==
    ASSUME NEW a \in Nat, NEW b \in Nat \ {0}
    PROVE  a \div b \in Nat /\ b * (a \div b) <= a /\ a < b * (a \div b) + b
  OBVIOUS

LEMMA WordSame == \A n \in Nat : n < 65536 => Word(n) = n
  <1>1. SUFFICES ASSUME NEW n \in Nat, n < 65536 PROVE n % 65536 = n  BY DEF Word
  <1> QED  BY <1>1

\* The clock in MHz.
Mega == Clock \div 1000000

LEMMA ClockIs ==
    /\ Mega \in Nat \ {0} /\ Clock = 1000000 * Mega
    /\ Clock \div 10000 = 100 * Mega /\ Clock \div 1000 = 1000 * Mega
  <1>1. Clock \in Nat /\ Clock % 1000000 = 0 /\ Clock > 0  BY TimersAssumption
  <1>2. Mega \in Nat /\ Clock = 1000000 * Mega  BY <1>1 DEF Mega
  <1>3. Clock \div 10000 = 100 * Mega /\ Clock \div 1000 = 1000 * Mega  BY <1>2
  <1>4. Mega # 0  BY <1>1, <1>2
  <1> QED  BY <1>2, <1>3, <1>4

LEMMA Less ==
    ASSUME NEW a \in Nat, NEW b \in Nat \ {0}, NEW q \in Nat, NEW k \in Nat, b * q <= a, a < b * k
    PROVE  q < k
  OBVIOUS

\* A frequency: the prescaler and the reload value are the parts of its ticks.
LEMMA HzSplit ==
    ASSUME InRange, NEW time \in Nat \ {0}
    PROVE  \E c, f, d \in Nat :
              /\ c = Clock \div time /\ f > 0 /\ f * d <= c /\ c < f * d + f
              /\ HzRegisters(time) = [psc |-> f - 1, car |-> d, rep |-> 0]
              /\ time * 100 <= Clock => d >= 99
  <1>1. Clock \in Nat /\ Clock <= 655360000
    <2>1. 100 * Mega <= 65536  BY ClockIs DEF InRange
    <2> QED  BY <2>1, ClockIs
  <1>2. PICK c : c = Clock \div time  OBVIOUS
  <1>3. c \in Nat /\ time * c <= Clock /\ Clock < time * c + time  BY <1>1, <1>2, Division
  <1>4. PICK g : g = c \div 65536  OBVIOUS
  <1>5. g \in Nat /\ 65536 * g <= c /\ c < 65536 * g + 65536  BY <1>3, <1>4
  <1>6. PICK f : f = g + 1  OBVIOUS
  <1>7. f \in Nat \ {0}  BY <1>5, <1>6
  <1>8. PICK d : d = c \div f  OBVIOUS
  <1>9. d \in Nat /\ f * d <= c /\ c < f * d + f  BY <1>3, <1>7, <1>8, Division
  <1>10. c <= Clock
    <2>1. c <= time * c  BY <1>3
    <2> QED  BY <1>1, <1>3, <2>1
  <1>11. g < 65536  BY <1>1, <1>3, <1>5, <1>10
  <1>12. d < 65536
    <2>1. c < f * 65536  BY <1>3, <1>5, <1>6
    <2> QED  BY <1>3, <1>7, <1>9, <2>1, Less
  <1>13. HzRegisters(time) = [psc |-> f - 1, car |-> d, rep |-> 0]
    <2>1. HzRegisters(time) = Registers(f - 1, d, 0)  BY <1>2, <1>4, <1>6, <1>8 DEF HzRegisters
    <2>2. f - 1 = g  BY <1>5, <1>6
    <2>3. Word(f - 1) = f - 1 /\ Word(d) = d  BY <1>5, <1>9, <1>11, <1>12, <2>2, WordSame
    <2> QED  BY <2>1, <2>3 DEF Registers
  <1>14. ASSUME time * 100 <= Clock PROVE d >= 99
    <2>1. c >= 100
      <3>1. time * 100 < time * (c + 1)  BY <1>1, <1>3, <1>14
      <3>2. 100 < c + 1  BY <1>3, <3>1
      <3> QED  BY <1>3, <3>2
    <2>2. CASE g = 0
      <3>1. f = 1  BY <1>6, <2>2
      <3> QED  BY <1>3, <1>9, <2>1, <3>1
    <2>3. CASE g # 0
      <3>1. c >= 32768 * f  BY <1>3, <1>5, <1>6, <2>3
      <3>2. f * 32768 < f * (d + 1)  BY <1>3, <1>7, <1>9, <3>1
      <3>3. 32768 < d + 1  BY <1>7, <1>9, <3>2
      <3> QED  BY <1>9, <3>3
    <2> QED  BY <2>2, <2>3
  <1> QED  BY <1>2, <1>3, <1>7, <1>9, <1>13, <1>14

LEMMA PeriodSplit ==
    ASSUME InRange, NEW time, NEW format, Counted(time, format), NEW r, r = PeriodRegisters(time, format)
    PROVE  /\ r.rep = 0 /\ time \in Nat \ {0}
           /\ format = "tick" => r.psc = 0 /\ r.car = time - 1
           /\ format = "us" => r.psc = Mega - 1 /\ r.car = time - 1
           /\ format = "ms" => r.psc = 100 * Mega - 1 /\ r.car = time * 10 - 1
           /\ format = "hz" => r = HzRegisters(time)
  <1>1. time \in Nat \ {0} /\ format \in {"tick", "us", "ms", "hz"}  BY DEF Counted
  <1>2. Mega \in Nat \ {0} /\ 100 * Mega <= 65536  BY ClockIs DEF InRange
  <1>3. CASE format = "tick"
    <2>1. r = Registers(0, time - 1, 0)  BY <1>3 DEF PeriodRegisters
    <2>2. time - 1 \in Nat /\ time - 1 < 65536  BY <1>1, <1>3 DEF Counted
    <2>3. Word(0) = 0 /\ Word(time - 1) = time - 1  BY <2>2, WordSame
    <2> QED  BY <1>1, <1>3, <2>1, <2>3 DEF Registers
  <1>4. CASE format = "us"
    <2>1. r = Registers(Mega - 1, time - 1, 0)  BY <1>4 DEF PeriodRegisters, Mega
    <2>2. time - 1 \in Nat /\ time - 1 < 65536 /\ Mega - 1 \in Nat /\ Mega - 1 < 65536
      BY <1>1, <1>2, <1>4 DEF Counted
    <2>3. Word(Mega - 1) = Mega - 1 /\ Word(time - 1) = time - 1  BY <2>2, WordSame
    <2> QED  BY <1>1, <1>4, <2>1, <2>3 DEF Registers
  <1>5. CASE format = "ms"
    <2>1. r = Registers(100 * Mega - 1, time * 10 - 1, 0)  BY <1>5, ClockIs DEF PeriodRegisters
    <2>2. /\ time * 10 - 1 \in Nat /\ time * 10 - 1 < 65536
          /\ 100 * Mega - 1 \in Nat /\ 100 * Mega - 1 < 65536
      BY <1>1, <1>2, <1>5 DEF Counted
    <2>3. Word(100 * Mega - 1) = 100 * Mega - 1 /\ Word(time * 10 - 1) = time * 10 - 1  BY <2>2, WordSame
    <2> QED  BY <1>1, <1>5, <2>1, <2>3 DEF Registers
  <1>6. CASE format = "hz"
    <2>1. r = HzRegisters(time)  BY <1>6 DEF PeriodRegisters
    <2>2. r.rep = 0  BY <1>1, <2>1, HzSplit
    <2> QED  BY <1>1, <1>6, <2>1, <2>2
  <1> QED  BY <1>1, <1>3, <1>4, <1>5, <1>6

\* The period of a timer that a HardwareTimer set.
LEMMA PeriodMeets ==
    ASSUME TimersType, PeriodInv, InRange
    PROVE  PeriodAsAsked
  <1>1. SUFFICES ASSUME NEW t \in Timers, todo = <<>>, timing[t].by = "timer"
                 PROVE  Distance(Ticks(t), InTicks(timing[t].time, timing[t].format))
                          <= IF timing[t].format = "hz" THEN 2 * (reg[t].psc + 1) ELSE 0
    BY DEF PeriodAsAsked
  <1>2. TimingEnds(t, timing[t]) /\ timing[t].by # "nobody"  BY <1>1, EndsIdle
  <1>3. PICK r \in BaseRegs : BaseEnds(t, r) /\ Suits(timing[t], r)
    BY <1>2 DEF PeriodInv, BaseInv
  <1>4. r = BaseOf(t)  BY <1>1, <1>3, EndsIdle
  <1>5. PICK time : time = timing[t].time  OBVIOUS
  <1>6. PICK format : format = timing[t].format  OBVIOUS
  <1>7. Counted(time, format) /\ r = PeriodRegisters(time, format)
    BY <1>1, <1>3, <1>5, <1>6 DEF Suits
  <1>8. r.psc = reg[t].psc /\ r.car = reg[t].car /\ r.rep = reg[t].rep  BY <1>4 DEF BaseOf
  <1>9. /\ r.rep = 0 /\ time \in Nat \ {0}
        /\ format = "tick" => r.psc = 0 /\ r.car = time - 1
        /\ format = "us" => r.psc = Mega - 1 /\ r.car = time - 1
        /\ format = "ms" => r.psc = 100 * Mega - 1 /\ r.car = time * 10 - 1
        /\ format = "hz" => r = HzRegisters(time)
    BY <1>7, PeriodSplit
  <1>10. r.psc \in Nat /\ r.car \in Nat  BY DEF BaseRegs, Words
  <1>11. Ticks(t) = (r.psc + 1) * (r.car + 1)
    <2>1. (IF t \in Advanced THEN reg[t].rep + 1 ELSE 1) = 1  BY <1>8, <1>9
    <2>2. Ticks(t) = (r.psc + 1) * (r.car + 1) * 1  BY <1>8, <2>1 DEF Ticks
    <2> QED  BY <1>10, <2>2
  <1>12. CASE format = "tick"
    <2>1. Ticks(t) = time /\ InTicks(time, format) = time  BY <1>9, <1>11, <1>12 DEF InTicks
    <2> QED  BY <1>5, <1>6, <1>9, <1>12, <2>1 DEF Distance
  <1>13. CASE format = "us"
    <2>1. Ticks(t) = Mega * time /\ InTicks(time, format) = time * Mega
      BY <1>9, <1>11, <1>13, ClockIs DEF InTicks, Mega
    <2>2. Mega * time = time * Mega /\ Mega * time \in Nat  BY <1>9, ClockIs
    <2> QED  BY <1>5, <1>6, <1>13, <2>1, <2>2 DEF Distance
  <1>14. CASE format = "ms"
    <2>1. Ticks(t) = (100 * Mega) * (time * 10)  BY <1>9, <1>11, <1>14, ClockIs
    <2>2. InTicks(time, format) = time * (1000 * Mega)  BY <1>14, ClockIs DEF InTicks
    <2>3. (100 * Mega) * (time * 10) = time * (1000 * Mega) /\ time * (1000 * Mega) \in Nat
      BY <1>9, ClockIs
    <2> QED  BY <1>5, <1>6, <1>14, <2>1, <2>2, <2>3 DEF Distance
  <1>15. CASE format = "hz"
    <2>1. PICK c, f, d \in Nat :
              /\ c = Clock \div time /\ f > 0 /\ f * d <= c /\ c < f * d + f
              /\ HzRegisters(time) = [psc |-> f - 1, car |-> d, rep |-> 0]
      BY <1>9, HzSplit
    <2>2. r.psc + 1 = f /\ r.car = d  BY <1>9, <1>15, <2>1
    <2>3. Ticks(t) = f * (d + 1)  BY <1>11, <2>2
    <2>4. InTicks(time, format) = c  BY <1>15, <2>1 DEF InTicks
    <2>5. PICK a : a = f * d  OBVIOUS
    <2>6. a \in Nat /\ f * (d + 1) = a + f  BY <2>1, <2>5
    <2>7. Distance(a + f, c) <= 2 * f  BY <2>1, <2>5, <2>6 DEF Distance
    <2> QED  BY <1>5, <1>6, <1>8, <1>15, <2>2, <2>3, <2>4, <2>6, <2>7
  <1> QED  BY <1>7, <1>12, <1>13, <1>14, <1>15 DEF Counted

-----------------------------------------------------------------------------
(* What a compare value comes to.                                            *)

\* How long a pin with this compare value is high, in ticks.
Long(r, n) == (IF n > r.car THEN r.car + 1 ELSE n) * (r.psc + 1)

Asked(o, r) ==
    IF o.format = "hz" THEN ((r.psc + 1) * (r.car + 1) * o.cycle) \div 100 ELSE InTicks(o.cycle, o.format)

HighFor(n, car, m) == (IF n > car THEN car + 1 ELSE n) * m

\* A cycle in ticks of the counter, or one of them less.
LEMMA LongUs ==
    ASSUME NEW m \in Nat \ {0}, NEW car \in Nat, NEW cycle \in Nat \ {0}, cycle <= car + 1,
           NEW n \in Nat, n \in {cycle - 1, cycle}
    PROVE  Distance(HighFor(n, car, m), cycle * m) <= 2 * m
  <1> USE DEF HighFor
  <1>1. CASE n = cycle - 1
    <2>1. ~(n > car) /\ n * m = cycle * m - m  BY <1>1
    <2>2. cycle * m \in Nat  OBVIOUS
    <2> QED  BY <2>1, <2>2 DEF Distance
  <1>2. CASE n = cycle
    <2>1. (IF n > car THEN car + 1 ELSE n) = cycle  BY <1>2
    <2>2. cycle * m \in Nat  OBVIOUS
    <2> QED  BY <2>1, <2>2 DEF Distance
  <1> QED  BY <1>1, <1>2

\* A cycle in percent: the counts of a period it is, and the ticks.
Percent(k, d) == (k * (d + 1)) \div 100
TicksFor(f, d, k) == (f * (d + 1) * k) \div 100

LEMMA LongHz ==
    ASSUME NEW f \in Nat \ {0}, NEW d \in Nat, d >= 99, NEW k \in Nat \ {0}, k <= 100
    PROVE  /\ Percent(k, d) - 1 \in Nat /\ Percent(k, d) - 1 <= d
           /\ Distance((Percent(k, d) - 1) * f, TicksFor(f, d, k)) <= 2 * f
  <1>1. PICK x : x = k * (d + 1)  OBVIOUS
  <1>2. x \in Nat /\ x >= 100 /\ x <= 100 * (d + 1)
    <2>1. d + 1 <= k * (d + 1) /\ k * (d + 1) <= 100 * (d + 1) /\ k * (d + 1) \in Nat  OBVIOUS
    <2> QED  BY <1>1, <2>1
  <1>3. PICK e : e = x \div 100  OBVIOUS
  <1>4. e \in Nat /\ 100 * e <= x /\ x < 100 * e + 100  BY <1>2, <1>3
  <1>5. e >= 1 /\ e <= d + 1  BY <1>2, <1>4
  <1>6. PICK y : y = f * x  OBVIOUS
  <1>7. f * (d + 1) * k = y
    <2>1. f * (d + 1) * k = f * (k * (d + 1))  OBVIOUS
    <2> QED  BY <1>1, <1>6, <2>1
  <1>8. PICK z : z = f * e  OBVIOUS
  <1>9. y \in Nat /\ z \in Nat /\ 100 * z <= y /\ y < 100 * z + 100 * f
    <2>1. f * (100 * e) <= f * x /\ f * x < f * (100 * e + 100)  BY <1>2, <1>4
    <2>2. f * (100 * e) = 100 * (f * e) /\ f * (100 * e + 100) = 100 * (f * e) + 100 * f  BY <1>4
    <2>3. f * x \in Nat /\ f * e \in Nat  BY <1>2, <1>4
    <2> QED  BY <1>6, <1>8, <2>1, <2>2, <2>3
  <1>10. PICK a : a = y \div 100  OBVIOUS
  <1>11. a \in Nat /\ 100 * a <= y /\ y < 100 * a + 100  BY <1>9, <1>10
  <1>12. z <= a /\ a < z + f  BY <1>9, <1>11
  <1>13. (e - 1) * f = z - f  BY <1>4, <1>8
  <1>14. Distance((e - 1) * f, a) <= 2 * f  BY <1>9, <1>11, <1>12, <1>13 DEF Distance
  <1>15. e = Percent(k, d) /\ a = TicksFor(f, d, k)  BY <1>1, <1>3, <1>7, <1>10 DEF Percent, TicksFor
  <1> QED  BY <1>4, <1>5, <1>14, <1>15

\* A suitable period and a compare value for its cycle give the wave asked for.
LEMMA WaveMeets ==
    ASSUME InRange, NEW o \in PwmType, NEW r \in BaseRegs, NEW n,
           Suits(Timing(o), r), Near(o, r, n),
           o.format = "hz" => o.period * 100 <= Clock,
           o.format = "hz" \/ o.cycle <= o.period
    PROVE  Distance(Long(r, n), Asked(o, r)) <= 2 * (r.psc + 1) /\ (o.format = "hz" => r.rep = 0)
  <1>1. /\ o.cycle \in Nat \ {0} /\ o.format \in {"us", "ms", "hz"}
        /\ o.format = "hz" => o.cycle <= 100
        /\ \/ n = Word(CompareValue(o.cycle, o.format, r.car) - 1)
           \/ o.format = "us" /\ o.cycle < 65536 /\ n = Word(o.cycle)
    BY DEF Near
  <1>2. PICK cycle : cycle = o.cycle  OBVIOUS
  <1>3. PICK period : period = o.period  OBVIOUS
  <1>4. \/ Counted(period, o.format) /\ r = PwmRegisters(period, o.format)
        \/ o.format = "us" /\ period = 9999 /\ r.psc = Word(Mega - 1) /\ r.car = 9999
    BY <1>3 DEF Suits, Timing, Mega
  <1>5. PwmRegisters(period, o.format) = PeriodRegisters(period, o.format)  BY <1>1 DEF PwmRegisters
  <1>6. Mega \in Nat \ {0} /\ 100 * Mega <= 65536  BY ClockIs DEF InRange
  <1>7. CASE o.format = "us"
    <2>1. r.psc = Mega - 1 /\ r.car \in Nat /\ cycle <= r.car + 1 /\ r.car < 65536
      <3>1. CASE Counted(period, o.format) /\ r = PwmRegisters(period, o.format)
        <4>1. r.psc = Mega - 1 /\ r.car = period - 1 /\ period \in Nat \ {0}
          BY <1>5, <1>7, <3>1, PeriodSplit
        <4> QED  BY <1>2, <1>3, <1>7, <3>1, <4>1 DEF Counted
      <3>2. CASE period = 9999 /\ r.psc = Word(Mega - 1) /\ r.car = 9999
        <4>1. Mega - 1 \in Nat /\ Mega - 1 < 65536  BY <1>6
        <4>2. Word(Mega - 1) = Mega - 1  BY <4>1, WordSame
        <4>3. r.psc = Mega - 1  BY <3>2, <4>2
        <4>4. cycle <= period  BY <1>2, <1>3, <1>7
        <4>5. r.car \in Nat /\ r.car < 65536 /\ period = r.car  BY <3>2
        <4>6. period \in Nat /\ cycle \in Nat  BY <1>1, <1>2, <3>2
        <4> QED  BY <4>3, <4>4, <4>5, <4>6
      <3> QED  BY <1>4, <3>1, <3>2
    <2>2. n \in Nat /\ (n = cycle - 1 \/ n = cycle)
      <3>1. CASE n = Word(CompareValue(o.cycle, o.format, r.car) - 1)
        <4>1. CompareValue(o.cycle, o.format, r.car) = cycle  BY <1>2, <1>7 DEF CompareValue
        <4>2. cycle - 1 \in Nat /\ cycle - 1 < 65536  BY <1>1, <1>2, <2>1
        <4> QED  BY <3>1, <4>1, <4>2, WordSame
      <3>2. CASE o.cycle < 65536 /\ n = Word(o.cycle)  BY <1>1, <1>2, <3>2, WordSame
      <3> QED  BY <1>1, <3>1, <3>2
    <2>3. PICK m : m = Mega  OBVIOUS
    <2>4. m \in Nat \ {0} /\ r.psc + 1 = m  BY <1>6, <2>1, <2>3
    <2>5. Long(r, n) = HighFor(n, r.car, m)  BY <2>4 DEF Long, HighFor
    <2>6. Asked(o, r) = cycle * m  BY <1>2, <1>7, <2>3 DEF Asked, InTicks, Mega
    <2>7. Distance(HighFor(n, r.car, m), cycle * m) <= 2 * m
      <3>1. cycle \in Nat \ {0} /\ cycle <= r.car + 1 /\ r.car \in Nat  BY <1>1, <1>2, <2>1
      <3>2. n \in Nat /\ (n = cycle - 1 \/ n = cycle)  BY <2>2
      <3>3. m \in Nat \ {0}  BY <2>4
      <3> QED  BY <3>1, <3>2, <3>3, LongUs
    <2> QED  BY <1>7, <2>4, <2>5, <2>6, <2>7
  <1>8. CASE o.format = "ms"
    <2>1. Counted(period, o.format) /\ r = PeriodRegisters(period, o.format)  BY <1>4, <1>5, <1>8
    <2>2. r.psc = 100 * Mega - 1 /\ r.car = period * 10 - 1 /\ period \in Nat \ {0}
      BY <1>8, <2>1, PeriodSplit
    <2>3. period * 10 <= 65536 /\ cycle <= period  BY <1>2, <1>3, <1>8, <2>1 DEF Counted
    <2>4. n = cycle * 10 - 1
      <3>1. CompareValue(o.cycle, o.format, r.car) = cycle * 10  BY <1>2, <1>8 DEF CompareValue
      <3>2. cycle * 10 - 1 \in Nat /\ cycle * 10 - 1 < 65536  BY <1>1, <1>2, <2>2, <2>3
      <3> QED  BY <1>1, <1>8, <3>1, <3>2, WordSame
    <2>5. PICK m : m = 100 * Mega  OBVIOUS
    <2>6. m \in Nat \ {0} /\ r.psc + 1 = m  BY <1>6, <2>2, <2>5
    <2>7. PICK long : long = cycle * 10  OBVIOUS
    <2>8. long \in Nat \ {0} /\ n \in Nat /\ n = long - 1 /\ long <= r.car + 1 /\ r.car \in Nat
      BY <1>1, <1>2, <2>2, <2>3, <2>4, <2>7
    <2>9. Long(r, n) = HighFor(n, r.car, m)  BY <2>6 DEF Long, HighFor
    <2>10. Asked(o, r) = long * m
      <3>1. Asked(o, r) = cycle * (1000 * Mega)  BY <1>2, <1>8, ClockIs DEF Asked, InTicks
      <3>2. cycle * (1000 * Mega) = (cycle * 10) * (100 * Mega)  BY <1>1, <1>2, <1>6
      <3> QED  BY <2>5, <2>7, <3>1, <3>2
    <2>11. Distance(HighFor(n, r.car, m), long * m) <= 2 * m  BY <2>6, <2>8, LongUs
    <2> QED  BY <1>8, <2>6, <2>9, <2>10, <2>11
  <1>9. CASE o.format = "hz"
    <2>1. Counted(period, o.format) /\ r = PeriodRegisters(period, o.format)  BY <1>4, <1>5, <1>9
    <2>2. r = HzRegisters(period) /\ period \in Nat \ {0}  BY <1>9, <2>1, PeriodSplit
    <2>3. PICK c, f, d \in Nat :
              /\ c = Clock \div period /\ f > 0 /\ f * d <= c /\ c < f * d + f
              /\ HzRegisters(period) = [psc |-> f - 1, car |-> d, rep |-> 0]
              /\ period * 100 <= Clock => d >= 99
      BY <2>2, HzSplit
    <2>4. d >= 99  BY <1>3, <1>9, <2>3
    <2>5. r.psc + 1 = f /\ r.car = d /\ r.rep = 0 /\ f \in Nat \ {0}  BY <2>2, <2>3
    <2>6. cycle \in Nat \ {0} /\ cycle <= 100  BY <1>1, <1>2, <1>9
    <2>7. PICK e : e = Percent(cycle, d)  OBVIOUS
    <2>8. /\ e - 1 \in Nat /\ e - 1 <= d
          /\ Distance((e - 1) * f, TicksFor(f, d, cycle)) <= 2 * f
      BY <2>3, <2>4, <2>5, <2>6, <2>7, LongHz
    <2>9. n = e - 1
      <3>1. CompareValue(o.cycle, o.format, r.car) = e  BY <1>2, <1>9, <2>5, <2>7 DEF CompareValue, Percent
      <3>2. e - 1 < 65536
        <4>1. r.car < 65536  BY DEF BaseRegs, Words
        <4> QED  BY <2>3, <2>5, <2>8, <4>1
      <3> QED  BY <1>1, <1>9, <2>8, <3>1, <3>2, WordSame
    <2>10. Long(r, n) = (e - 1) * f
      <3>1. ~(e - 1 > d)  BY <2>3, <2>8
      <3> QED  BY <2>5, <2>9, <3>1 DEF Long
    <2>11. Asked(o, r) = TicksFor(f, d, cycle)  BY <1>2, <1>9, <2>5 DEF Asked, TicksFor
    <2> QED  BY <2>5, <2>8, <2>10, <2>11
  <1> QED  BY <1>1, <1>7, <1>8, <1>9

\* The wave on a pin.
LEMMA OutputMeets ==
    ASSUME TimersType, OutputInv, InRange, PinChannels \subseteq {0}
    PROVE  OutputAsAsked
  <1>1. SUFFICES ASSUME NEW pin \in Pins, todo = <<>>, Object(pin).made,
                        timing[pin[1]] = [by |-> "pwm", time |-> Object(pin).period, format |-> Object(pin).format],
                        Object(pin).format = "hz" \/ Object(pin).cycle <= Object(pin).period
                 PROVE  Distance(High(pin), IF Object(pin).active THEN AskedHigh(pin) ELSE 0)
                          <= 2 * (reg[pin[1]].psc + 1)
    BY DEF OutputAsAsked
  <1>2. PICK t \in Timers : t = pin[1]  BY PinTimer
  <1>3. PICK o : o = pwmObj[t][0]  OBVIOUS
  <1>4. Object(pin) = o /\ o \in PwmType /\ pin[2] = 0
    <2>1. pin[2] = 0  BY DEF Pins
    <2> QED  BY <1>2, <1>3, <2>1, ObjectIs
  <1>5. PwmEnds(t, o) /\ o.made  BY <1>1, <1>3, <1>4, EndsIdle
  <1>6. timing[t] = Timing(o)  BY <1>1, <1>2, <1>4 DEF Timing
  <1>7. TimingEnds(t, Timing(o))  BY <1>1, <1>6, EndsIdle
  <1>8. PICK r \in BaseRegs : \E n :
            BaseEnds(t, r) /\ Suits(Timing(o), r) /\ PulseEnds(t, n) /\ Near(o, r, n)
    BY <1>5, <1>7 DEF OutputInv, WaveInv
  <1>9. PICK n : BaseEnds(t, r) /\ Suits(Timing(o), r) /\ PulseEnds(t, n) /\ Near(o, r, n)  BY <1>8
  <1>10. r = BaseOf(t) /\ n = chan[t][0].pulse  BY <1>1, <1>9, EndsIdle
  <1>11. ModeEnds(t, "pwm") /\ RunEnds(t) /\ OutEnds(t, o.active) /\ Fine(t)
    BY <1>5 DEF OutputInv, RunInv
  <1>12. chan[t][0].mode = "pwm"  BY <1>1, <1>11, EndsIdle
  <1>13. chan[t][0].out = o.active  BY <1>1, <1>11, EndsIdle
  <1>14. reg[t].on  BY <1>1, <1>11, EndsIdle
  <1>15. o.format = "hz" => o.period * 100 <= Clock
    <2>1. Timing(o).by = "pwm" /\ Timing(o).format = o.format /\ Timing(o).time = o.period  BY DEF Timing
    <2> QED  BY <1>7, <1>11, <2>1 DEF Fine
  <1>16. o.format = "hz" \/ o.cycle <= o.period  BY <1>1, <1>4
  <1>17. Distance(Long(r, n), Asked(o, r)) <= 2 * (r.psc + 1) /\ (o.format = "hz" => r.rep = 0)
    BY <1>4, <1>9, <1>15, <1>16, WaveMeets
  <1>18. r.psc = reg[t].psc /\ r.car = reg[t].car /\ r.rep = reg[t].rep /\ r.psc \in Nat /\ r.car \in Nat
    BY <1>10 DEF BaseOf, BaseRegs, Words
  <1>19. CASE o.active
    <2>1. High(pin) = Long(r, n)
      BY <1>2, <1>4, <1>10, <1>12, <1>13, <1>14, <1>18, <1>19 DEF High, Long
    <2>2. AskedHigh(pin) = Asked(o, r)
      <3>1. CASE o.format = "hz"
        <4>1. (IF t \in Advanced THEN reg[t].rep + 1 ELSE 1) = 1  BY <1>17, <1>18, <3>1
        <4>2. Ticks(t) = (r.psc + 1) * (r.car + 1)
          <5>1. Ticks(t) = (r.psc + 1) * (r.car + 1) * 1  BY <1>18, <4>1 DEF Ticks
          <5> QED  BY <1>18, <5>1
        <4> QED  BY <1>2, <1>4, <3>1, <4>2 DEF AskedHigh, Asked
      <3>2. CASE o.format # "hz"  BY <1>4, <3>2 DEF AskedHigh, Asked
      <3> QED  BY <3>1, <3>2
    <2> QED  BY <1>2, <1>4, <1>17, <1>18, <1>19, <2>1, <2>2
  <1>20. CASE ~o.active
    <2>1. High(pin) = 0  BY <1>2, <1>4, <1>13, <1>20 DEF High
    <2>2. Distance(0, 0) = 0  BY DEF Distance
    <2>3. 0 <= 2 * (r.psc + 1)  BY <1>18
    <2> QED  BY <1>2, <1>4, <1>18, <1>20, <2>1, <2>2, <2>3
  <1> QED  BY <1>19, <1>20

\* Between calls, a timer that a HardwareTimer set last has the period that was
\* asked for, a frequency within two counts, for every clock, every order of
\* the calls and every interrupt between their register writes, whoever else
\* uses the timer (timer.c:442-484), where the period fits the counter's 16
\* bits.
THEOREM PeriodsAsAsked == ASSUME InRange PROVE Spec => []PeriodAsAsked
  <1>1. TimersInv /\ PeriodInv => PeriodAsAsked  BY PeriodMeets DEF TimersInv
  <1> QED  BY <1>1, PeriodsAlways, PTL

\* A timer, a PWM pin and a tone do what their last call asked for: the period,
\* the wave on the pin within two counts, and the number of half periods, for
\* a sketch that gives one timer one user, periods and cycles that fit the 16
\* bits, and pins on channel 0, the one that ChannelOf gives all of them
\* (timer.c:442-735, pwm.cpp:39-113, Tone.cpp:20-38).
THEOREM PinsAlwaysAsAsked ==
    ASSUME InRange, CyclesInRange, ~Shared, PinChannels \subseteq {0}
    PROVE  Spec => []PinsAsAsked
  <1>1. TimersInv /\ PeriodInv /\ OutputInv => PeriodAsAsked /\ OutputAsAsked
    BY PeriodMeets, OutputMeets DEF TimersInv
  <1>2. TimersInv => ToneLength  BY DEF TimersInv, ToneInv, Counting, ToneLength
  <1>3. TimersInv /\ PeriodInv /\ OutputInv => PinsAsAsked  BY <1>1, <1>2 DEF PinsAsAsked
  <1> QED  BY <1>3, OutputsAlways, PTL
=============================================================================

------------------------------- MODULE Timers -------------------------------
(* The general timers and what shares them: HardwareTimer (HardwareTimer.cpp),*)
(* PWM (pwm.cpp, analogWrite), tone() (Tone.cpp), on the functions of        *)
(* gd32/timer.c and the interrupt handler they install.                      *)
(*                                                                           *)
(* A call of the sketch is the sequence of the assignments and register      *)
(* writes it makes (todo); an interrupt may come between any two of them and *)
(* then runs to its end, callback included, before the sketch goes on.       *)
(*                                                                           *)
(* Assumed of the sketch while Shared is FALSE: one timer has one user.  The *)
(* tone timer is left to tone(); setPeriodTime and the like are not called   *)
(* on a timer that makes PWM, and analogWrite not for a pin whose PWM object *)
(* has an interrupt attached (its own object dies with the call).            *)
EXTENDS Integers, Sequences, FiniteSets, FiniteSetsExt

CONSTANTS
    Timers,         \* the timers
    ToneTimer,      \* TIMER_TONE
    Advanced,       \* the timers with a repetition counter and two interrupts
    PinTimers,      \* the timers with pins the sketch uses for PWM
    PinChannels,    \* the channels of those pins, on the chip
    Clock,          \* timer clock in Hz
    Times,          \* periods the sketch asks for
    Formats,        \* their formats
    Cycles,         \* PWM cycles the sketch asks for
    Tones,          \* frequencies for tone
    Lasts,          \* durations for tone, in ms
    Shared,         \* the sketch gives one timer to several users
    MaxCalls        \* bound: calls of the sketch

ASSUME TimersAssumption ==
    /\ ToneTimer \in Timers /\ Advanced \subseteq Timers
    /\ PinTimers \subseteq Timers /\ PinChannels \subseteq 0..3
    /\ Formats \subseteq {"tick", "us", "ms", "s", "hz"}
    /\ Clock \in Nat /\ Clock % 1000000 = 0 /\ Clock > 0
    /\ Times \subseteq Nat \ {0} /\ Cycles \subseteq Nat
    /\ Tones \subseteq Nat /\ Lasts \subseteq Nat
    /\ \A f \in Tones : f < 65536
    /\ \A d \in Lasts : d <= 16000      \* the product has 32 bits

VARIABLES
    reg,        \* the registers of each timer
    chan,       \* the compare channels of each timer
    irqs,       \* interrupt lines that are enabled
    hwObj,      \* hardwaretimerObj: the object of each timer
    pwmObj,     \* pwmObj: the object of each channel
    tone,       \* TimerTone_pinInfo and the level of its pin
    todo,       \* what is left of the sketch's call
    calls,      \* counter for the bound
    timing,     \* history: who set the period of each timer last, and to what
    fresh,      \* history: events since their callback was assigned
    called      \* history: the last callback an interrupt called

vars == <<reg, chan, irqs, hwObj, pwmObj, tone, todo, calls, timing, fresh, called>>

Channels == 0..3
Up       == 255                 \* the update event; attachInterrupt's default
Events   == Channels \cup {Up}
Pins     == PinTimers \X PinChannels
None     == "none"
Callbacks == {"plain", "once"}  \* "once" detaches itself
Word(n)  == n % 65536           \* the registers have 16 bits

Reset    == [on |-> FALSE, psc |-> 0, car |-> 65535, rep |-> 0, ie |-> {}, flags |-> {}, due |-> {}]
Silent   == [mode |-> "off", pulse |-> 0, out |-> FALSE]
NoObject == [made |-> FALSE, cb |-> [e \in Events |-> None]]
NoPwm    == [made |-> FALSE, alive |-> FALSE, cb |-> None, active |-> FALSE,
             period |-> 0, cycle |-> 0, format |-> "us"]
Quiet    == [pin |-> None, count |-> 0, level |-> 0, asked |-> 0, toggles |-> 0, over |-> FALSE]
Nobody   == [by |-> "nobody", time |-> 0, format |-> "us"]

UpIrq(t) == IF t \in Advanced THEN <<t, "up">> ELSE <<t, "all">>
CcIrq(t) == IF t \in Advanced THEN <<t, "channel">> ELSE <<t, "all">>

\* PinMap_PWM's entries are made with GD_PIN_FUNCTION5, which has no channel.
ChannelOf(pin) == 0

-----------------------------------------------------------------------------
(* Prescaler, period and repetition for a time in a format.                  *)

Registers(psc, car, rep) == [psc |-> Word(psc), car |-> Word(car), rep |-> rep]

HzRegisters(time) ==
    LET cycles == Clock \div time
        factor == cycles \div 65536 + 1
    IN  Registers(factor - 1, cycles \div factor, 0)

PeriodRegisters(time, format) ==
    CASE format = "tick" -> Registers(0, time - 1, 0)
      [] format = "us"   -> Registers(Clock \div 1000000 - 1, time - 1, 0)
      [] format = "ms"   -> Registers(Clock \div 10000 - 1, time * 10 - 1, 0)
      [] format = "s"    -> Registers(Clock \div 10000 - 1, time * 40 - 1, 250)
      [] format = "hz"   -> HzRegisters(time)

\* PWM_setPeriodCycle: as above, but one more for seconds.
PwmRegisters(time, format) ==
    IF format = "s" THEN Registers(Clock \div 10000 - 1, time * 40, 250)
    ELSE PeriodRegisters(time, format)

\* The compare value of a cycle, before the one that both callers subtract.
CompareValue(cycle, format, car) ==
    CASE format = "us" -> cycle
      [] format = "ms" -> cycle * 10
      [] format = "s"  -> cycle * 40
      [] format = "hz" -> (cycle * (car + 1)) \div 100

-----------------------------------------------------------------------------
(* The register writes of the firmware library, one each.                    *)

Op(name, t)         == [op |-> name, t |-> t, e |-> Up, v |-> None]
EventOp(name, t, e) == [op |-> name, t |-> t, e |-> e, v |-> None]
ValueOp(name, t, e, v) == [op |-> name, t |-> t, e |-> e, v |-> v]

\* A reset of the whole peripheral: what other users set is gone as well.
Deinit(o) ==
    /\ o.op = "deinit"
    /\ reg' = [reg EXCEPT ![o.t] = Reset]
    /\ chan' = [chan EXCEPT ![o.t] = [c \in Channels |-> Silent]]
    /\ UNCHANGED <<irqs, hwObj, pwmObj, tone, timing, fresh>>

\* Writing the base registers ends with an update event, which sets its flag.
Base(o) ==
    /\ o.op = "base"
    /\ reg' = [reg EXCEPT ![o.t].psc = o.v.psc, ![o.t].car = o.v.car, ![o.t].rep = o.v.rep,
                          ![o.t].flags = @ \cup {Up}]
    /\ fresh' = [fresh EXCEPT ![o.t] = @ \cup {Up}]
    /\ UNCHANGED <<chan, irqs, hwObj, pwmObj, tone, timing>>

\* timer_enable, timer_disable, and the two writes of the base registers that
\* generate an update event: TIMER_PSC_RELOAD_NOW and timer_event_software.
Switch(o) ==
    /\ o.op \in {"on", "off"}
    /\ reg' = [reg EXCEPT ![o.t].on = (o.op = "on")]
    /\ UNCHANGED <<chan, irqs, hwObj, pwmObj, tone, timing, fresh>>

Update(o) ==
    /\ o.op \in {"refresh", "prescaler"}
    /\ reg' = [reg EXCEPT ![o.t].flags = @ \cup {Up},
                          ![o.t].psc = IF o.op = "prescaler" THEN Word(o.v - 1) ELSE @]
    /\ fresh' = [fresh EXCEPT ![o.t] = @ \cup {Up}]
    /\ UNCHANGED <<chan, irqs, hwObj, pwmObj, tone, timing>>

Reload(o) ==
    /\ o.op = "reload"
    /\ reg' = [reg EXCEPT ![o.t].car = Word(o.v - 1)]
    /\ UNCHANGED <<chan, irqs, hwObj, pwmObj, tone, timing, fresh>>

\* timer_flag_clear, timer_interrupt_enable and timer_interrupt_disable.
Flag(o) ==
    /\ o.op \in {"clear", "enable", "disable"}
    /\ reg' = [reg EXCEPT
         ![o.t].flags = IF o.op = "clear" THEN @ \ {o.e} ELSE @,
         ![o.t].ie = IF o.op = "enable" THEN @ \cup {o.e}
                     ELSE IF o.op = "disable" THEN @ \ {o.e} ELSE @]
    /\ UNCHANGED <<chan, irqs, hwObj, pwmObj, tone, timing, fresh>>

\* The channel's mode, its compare value and its output.
Channel(o) ==
    /\ o.op \in {"mode", "pulse", "out"}
    /\ chan' = [chan EXCEPT ![o.t][o.e] =
         CASE o.op = "mode"  -> [@ EXCEPT !.mode = o.v]
           [] o.op = "pulse" -> [@ EXCEPT !.pulse = Word(o.v)]
           [] o.op = "out"   -> [@ EXCEPT !.out = o.v]]
    /\ UNCHANGED <<reg, irqs, hwObj, pwmObj, tone, timing, fresh>>

\* eclic_irq_enable.
Line(o) ==
    /\ o.op = "line"
    /\ irqs' = irqs \cup {o.v}
    /\ UNCHANGED <<reg, chan, hwObj, pwmObj, tone, timing, fresh>>

-----------------------------------------------------------------------------
(* The assignments to the objects.                                           *)

Construct(o) ==
    /\ o.op = "construct"
    /\ hwObj' = [hwObj EXCEPT ![o.t] = [NoObject EXCEPT !.made = TRUE]]
    /\ UNCHANGED <<reg, chan, irqs, pwmObj, tone, timing, fresh>>

Callback(o) ==
    /\ o.op = "callback"
    /\ hwObj' = [hwObj EXCEPT ![o.t].cb[o.e] = o.v]
    /\ fresh' = [fresh EXCEPT ![o.t] = @ \ {o.e}]
    /\ UNCHANGED <<reg, chan, irqs, pwmObj, tone, timing>>

\* An object of PWM as a whole.
PwmField(o) ==
    /\ o.op = "pwm"
    /\ pwmObj' = [pwmObj EXCEPT ![o.t][o.e] = o.v]
    /\ fresh' = [fresh EXCEPT ![o.t] = IF o.v.cb # pwmObj[o.t][o.e].cb THEN @ \ {o.e} ELSE @]
    /\ UNCHANGED <<reg, chan, irqs, hwObj, tone, timing>>

Timed(o) ==
    /\ o.op = "timing"
    /\ timing' = [timing EXCEPT ![o.t] = o.v]
    /\ UNCHANGED <<reg, chan, irqs, hwObj, pwmObj, tone, fresh>>

ToneField(o) ==
    /\ o.op = "tone"
    /\ tone' = o.v
    /\ UNCHANGED <<reg, chan, irqs, hwObj, pwmObj, timing, fresh>>

\* An enabled event is pending: the interrupt comes before anything else.
Pending(t) ==
    {e \in reg[t].flags \cap reg[t].ie : (IF e = Up THEN UpIrq(t) ELSE CcIrq(t)) \in irqs}

Preempted == \E t \in Timers : Pending(t) # {}

Step ==
    /\ todo # <<>> /\ ~Preempted
    /\ todo' = Tail(todo)
    /\ LET o == Head(todo) IN
         \/ Deinit(o) \/ Base(o) \/ Switch(o) \/ Update(o) \/ Reload(o) \/ Flag(o)
         \/ Channel(o) \/ Line(o) \/ Construct(o) \/ Callback(o) \/ PwmField(o)
         \/ Timed(o) \/ ToneField(o)
    /\ UNCHANGED <<calls, called>>

-----------------------------------------------------------------------------
(* The calls of HardwareTimer.                                               *)

Call(ops) ==
    /\ todo = <<>> /\ ~Preempted
    /\ calls < MaxCalls /\ calls' = calls + 1
    /\ todo' = ops
    /\ UNCHANGED <<reg, chan, irqs, hwObj, pwmObj, tone, timing, fresh, called>>

HasPwm(t) == \E c \in Channels : pwmObj[t][c].made

\* The timers whose base a HardwareTimer of the sketch may set.
Free(t) == Shared \/ (t # ToneTimer /\ ~HasPwm(t))

\* Timer_init: the constructor's format is always 1 ms.
TimerInit(t) ==
    <<ValueOp("line", t, Up, UpIrq(t)), ValueOp("line", t, Up, CcIrq(t)), Op("deinit", t),
      ValueOp("base", t, Up, PeriodRegisters(1, "ms"))>>

NewTimer(t) ==
    /\ Free(t)
    /\ Call(<<Op("construct", t), ValueOp("timing", t, Up, [by |-> "timer", time |-> 1, format |-> "ms"])>>
            \o TimerInit(t))

\* Timer_setPeriodTime resets the peripheral first: it stops, with no
\* interrupt enabled.
SetPeriodOps(t, time, format) ==
    <<ValueOp("timing", t, Up, [by |-> "timer", time |-> time, format |-> format]), Op("deinit", t),
      ValueOp("base", t, Up, PeriodRegisters(time, format))>>

SetPeriodTime(t) ==
    /\ hwObj[t].made /\ Free(t)
    /\ \E time \in Times, format \in Formats : Call(SetPeriodOps(t, time, format))

EnableStale(t, e) == <<EventOp("enable", t, e)>>                \* mutant

\* Timer_enableUpdateIT and Timer_enableCaptureIT.
EnableIT(t, e) == <<EventOp("clear", t, e), EventOp("enable", t, e)>>

DisableIT(t, e) == <<EventOp("clear", t, e), EventOp("disable", t, e)>>

AttachOps(t, e, cb) == <<ValueOp("callback", t, e, cb)>> \o EnableIT(t, e)
DetachOps(t, e)     == <<ValueOp("callback", t, e, None)>> \o DisableIT(t, e)

AttachInterrupt(t) ==
    /\ hwObj[t].made /\ (Shared \/ t # ToneTimer)
    /\ \E e \in {0, Up}, cb \in Callbacks : Call(AttachOps(t, e, cb))

DetachInterrupt(t) ==
    /\ hwObj[t].made /\ (Shared \/ t # ToneTimer)
    /\ \E e \in {0, Up} : Call(DetachOps(t, e))

StartStop(t) ==
    /\ hwObj[t].made /\ Free(t)
    /\ Call(<<Op("on", t)>>) \/ Call(<<Op("off", t)>>)

Refresh(t) ==
    /\ hwObj[t].made /\ Free(t)
    /\ Call(<<Op("refresh", t)>>)

\* setPrescaler and setReloadValue take the period out of setPeriodTime's hands.
SetRegister(t) ==
    /\ hwObj[t].made /\ Free(t)
    /\ \E name \in {"prescaler", "reload"}, v \in Times :
         Call(<<ValueOp("timing", t, Up, Nobody), ValueOp(name, t, Up, v)>>)

SetCaptureMode(t) ==
    /\ hwObj[t].made /\ Free(t)
    /\ \E c \in PinChannels : Call(<<ValueOp("mode", t, c, "capture")>>)

-----------------------------------------------------------------------------
(* The calls of PWM; o is the object after the call's assignments.           *)

Object(pin) == pwmObj[pin[1]][ChannelOf(pin)]

PwmOp(pin, o) == ValueOp("pwm", pin[1], ChannelOf(pin), o)

\* PWM_init: the timer's period becomes 9999 us for all its channels.
PwmInit(pin) ==
    LET t == pin[1] c == ChannelOf(pin) IN
    <<ValueOp("line", t, Up, CcIrq(t)),
      ValueOp("base", t, Up, Registers(Clock \div 1000000 - 1, 9999, reg[t].rep)),
      ValueOp("timing", t, Up, [by |-> "pwm", time |-> 9999, format |-> "us"]),
      ValueOp("out", t, c, FALSE), ValueOp("pulse", t, c, 4999), ValueOp("mode", t, c, "pwm"),
      Op("on", t), ValueOp("out", t, c, FALSE)>>

Constructed(alive) ==
    [NoPwm EXCEPT !.made = TRUE, !.alive = alive, !.period = 9999, !.cycle = 4999]

PwmPeriod(pin, period, cycle, format) ==
    LET t == pin[1] r == PwmRegisters(period, format) IN
    <<ValueOp("timing", t, Up, [by |-> "pwm", time |-> period, format |-> format]),
      ValueOp("base", t, Up, r),
      ValueOp("pulse", t, ChannelOf(pin), CompareValue(cycle, format, r.car) - 1)>>

PwmOut(pin, on) == ValueOp("out", pin[1], ChannelOf(pin), on)

MayMakePwm(pin) == Shared \/ ~hwObj[pin[1]].made

NewPwm(pin) ==
    /\ MayMakePwm(pin)
    /\ Call(<<PwmOp(pin, Constructed(TRUE))>> \o PwmInit(pin))

PwmSetPeriodCycle(pin) ==
    /\ Object(pin).alive
    /\ \E period \in Times, cycle \in Cycles, format \in Formats \ {"tick"} :
         Call(<<PwmOp(pin, [Object(pin) EXCEPT !.period = period, !.cycle = cycle, !.format = format])>>
              \o PwmPeriod(pin, period, cycle, format))

PwmWriteCycleValue(pin) ==
    /\ Object(pin).alive
    /\ \E cycle \in Cycles, format \in Formats \ {"tick"} :
         Call(<<PwmOp(pin, [Object(pin) EXCEPT !.cycle = cycle, !.format = format]),
                ValueOp("pulse", pin[1], ChannelOf(pin),
                        CompareValue(cycle, format, reg[pin[1]].car) - 1)>>)

PwmStartStop(pin) ==
    /\ Object(pin).alive
    /\ \E on \in BOOLEAN :
         Call(<<PwmOut(pin, on), PwmOp(pin, [Object(pin) EXCEPT !.active = on])>>)

PwmAttach(pin) ==
    /\ Object(pin).alive
    /\ Call(<<PwmOp(pin, [Object(pin) EXCEPT !.cb = "plain"])>> \o EnableIT(pin[1], ChannelOf(pin)))

PwmDetach(pin) ==
    /\ Object(pin).alive
    /\ Call(<<PwmOp(pin, [Object(pin) EXCEPT !.cb = None])>> \o DisableIT(pin[1], ChannelOf(pin)))

\* set_pwm_value: an object on the stack, left in pwmObj when it is gone.
AnalogWrite(pin) ==
    /\ MayMakePwm(pin)
    /\ Shared \/ (pwmObj[pin[1]][ChannelOf(pin)].cb = None /\ ~pwmObj[pin[1]][ChannelOf(pin)].alive)
    /\ \E cycle \in Cycles :
         LET o == [Constructed(TRUE) EXCEPT !.period = 1000, !.cycle = cycle] IN
         Call(<<PwmOp(pin, Constructed(TRUE))>> \o PwmInit(pin)
              \o <<PwmOp(pin, o)>> \o PwmPeriod(pin, 1000, cycle, "us")
              \o <<PwmOut(pin, TRUE), PwmOp(pin, [o EXCEPT !.active = TRUE, !.alive = FALSE])>>)

-----------------------------------------------------------------------------
(* tone() and noTone().                                                      *)

\* The number of half periods; -1 for no end.
ToneCount(frequency, duration) ==
    IF duration = 0 THEN -1 ELSE (2 * frequency * duration) \div 1000

ToneOps(pin, frequency, count) ==
    LET q == [Quiet EXCEPT !.pin = pin, !.level = tone.level, !.count = count, !.asked = count] IN
    <<ValueOp("tone", ToneTimer, Up, q)>> \o SetPeriodOps(ToneTimer, 2 * frequency, "hz")
    \o AttachOps(ToneTimer, Up, "tone") \o <<Op("on", ToneTimer)>>

\* pin never becomes NC again: a second pin is not served.
Tone(pin) ==
    /\ tone.pin \in {None, pin}
    /\ \E frequency \in Tones, duration \in Lasts :
         IF frequency = 0 THEN Call(<<Op("off", ToneTimer)>>)
         ELSE Call(ToneOps(pin, frequency, ToneCount(frequency, duration)))

NoTone(pin) ==
    /\ tone.pin = pin
    /\ Call(<<Op("off", ToneTimer)>>)

CountsLate ==                                                   \* mutant
    tone' = IF tone.count < 0 THEN [tone EXCEPT !.level = 1 - @]
            ELSE IF tone.count = 0 THEN [tone EXCEPT !.level = 0, !.over = TRUE]
            ELSE [tone EXCEPT !.count = IF tone.toggles = 0 THEN @ ELSE @ - 1,
                              !.level = 1 - @, !.toggles = @ + 1]

\* tonePeriodElapsedCallback.
TonePeriodElapsed ==
    tone' = IF tone.count < 0 THEN [tone EXCEPT !.level = 1 - @]
            ELSE IF tone.count = 0 THEN [tone EXCEPT !.level = 0, !.over = TRUE]
            ELSE [tone EXCEPT !.count = @ - 1, !.level = 1 - @, !.toggles = @ + 1]

-----------------------------------------------------------------------------
(* The timers and their interrupt.                                           *)

\* A period ends.  Periods are long against the handler: the interrupts that
\* are enabled have been served.
Overflow(t) ==
    /\ reg[t].on /\ ~Preempted /\ reg[t].due = {}
    /\ reg' = [reg EXCEPT ![t].flags = @ \cup {Up},
                          ![t].due = {c \in Channels : chan[t][c].mode # "off"}]
    /\ fresh' = [fresh EXCEPT ![t] = @ \cup {Up}]
    /\ UNCHANGED <<chan, irqs, hwObj, pwmObj, tone, todo, calls, timing, called>>

\* The counter meets a compare value, or an edge is captured.
Match(t) ==
    /\ reg[t].on
    /\ \E c \in reg[t].due :
         /\ reg' = [reg EXCEPT ![t].flags = @ \cup {c}, ![t].due = @ \ {c}]
         /\ fresh' = [fresh EXCEPT ![t] = @ \cup {c}]
    /\ UNCHANGED <<chan, irqs, hwObj, pwmObj, tone, todo, calls, timing, called>>

\* timerinterrupthandle looks at the flags in this order and serves one.
First(S) == IF Up \in S THEN Up ELSE Min(S)

\* The flag is cleared before the callbacks; "once" then detaches itself.
Served(t, e) ==
    [reg EXCEPT ![t].flags = @ \ {e},
                ![t].ie = IF hwObj[t].cb[e] = "once" THEN @ \ {e} ELSE @]

Interrupt(t) ==
    /\ Pending(t) # {}
    /\ LET e  == First(reg[t].flags \cap reg[t].ie)
           cb == IF hwObj[t].made THEN hwObj[t].cb[e] ELSE None
           p  == IF e = Up THEN None ELSE pwmObj[t][e].cb
       IN  /\ reg' = Served(t, e)
           /\ called' = [t |-> t, e |-> e, timer |-> cb, pwm |-> p,
                         fresh |-> e \in fresh[t], alive |-> e = Up \/ pwmObj[t][e].alive]
           /\ hwObj' = IF cb = "once" THEN [hwObj EXCEPT ![t].cb[e] = None] ELSE hwObj
           /\ IF cb = "tone" THEN TonePeriodElapsed ELSE UNCHANGED tone
    /\ UNCHANGED <<chan, irqs, pwmObj, todo, calls, timing, fresh>>

-----------------------------------------------------------------------------
\* TimerTone is constructed before the sketch runs.
Init ==
    /\ reg = [t \in Timers |-> IF t = ToneTimer
                THEN [Reset EXCEPT !.psc = PeriodRegisters(1, "ms").psc,
                                   !.car = PeriodRegisters(1, "ms").car, !.flags = {Up}]
                ELSE Reset]
    /\ chan = [t \in Timers |-> [c \in Channels |-> Silent]]
    /\ irqs = {UpIrq(ToneTimer), CcIrq(ToneTimer)}
    /\ hwObj = [t \in Timers |-> [NoObject EXCEPT !.made = (t = ToneTimer)]]
    /\ pwmObj = [t \in Timers |-> [c \in Channels |-> NoPwm]]
    /\ tone = Quiet /\ todo = <<>> /\ calls = 0
    /\ timing = [t \in Timers |-> Nobody]
    /\ fresh = [t \in Timers |-> {}]
    /\ called = [t |-> ToneTimer, e |-> Up, timer |-> None, pwm |-> None, fresh |-> TRUE, alive |-> TRUE]

TimerCall(t) ==
    \/ NewTimer(t) \/ SetPeriodTime(t) \/ AttachInterrupt(t) \/ DetachInterrupt(t)
    \/ StartStop(t) \/ Refresh(t) \/ SetRegister(t) \/ SetCaptureMode(t)

PwmCall(pin) ==
    \/ NewPwm(pin) \/ PwmSetPeriodCycle(pin) \/ PwmWriteCycleValue(pin) \/ PwmStartStop(pin)
    \/ PwmAttach(pin) \/ PwmDetach(pin) \/ AnalogWrite(pin)

Next ==
    \/ Step
    \/ \E t \in Timers : TimerCall(t) \/ Overflow(t) \/ Match(t) \/ Interrupt(t)
    \/ \E pin \in Pins : PwmCall(pin)
    \/ \E pin \in {"speaker", "buzzer"} : Tone(pin) \/ NoTone(pin)

\* Interrupts are taken, and between two of them the sketch gets to run.
Spec == Init /\ [][Next]_vars /\ SF_vars(Step) /\ \A t \in Timers : WF_vars(Interrupt(t))

-----------------------------------------------------------------------------
(* Properties.                                                               *)

\* A callback is only called for an event that came after it was assigned,
\* whatever the timer did before and whenever the interrupt comes, and PWM's
\* only through an object that still exists (timer.c:510, 538; pwm.cpp:157).
CallsFresh ==
    /\ (called.timer # None \/ called.pwm # None) => called.fresh
    /\ called.pwm # None => called.alive

Ticks(t) ==
    (reg[t].psc + 1) * (reg[t].car + 1) * (IF t \in Advanced THEN reg[t].rep + 1 ELSE 1)

\* Clock ticks of a time in a format.
InTicks(time, format) ==
    CASE format = "tick" -> time
      [] format = "us"   -> time * (Clock \div 1000000)
      [] format = "ms"   -> time * (Clock \div 1000)
      [] format = "s"    -> time * Clock
      [] format = "hz"   -> Clock \div time

Distance(a, b) == IF a > b THEN a - b ELSE b - a

\* Between calls, a timer that a HardwareTimer set last has the period that
\* was asked for; a frequency within two counts of the counter
\* (timer.c:442-484).
PeriodAsAsked ==
    \A t \in Timers :
        (todo = <<>> /\ timing[t].by = "timer") =>
            Distance(Ticks(t), InTicks(timing[t].time, timing[t].format))
                <= IF timing[t].format = "hz" THEN 2 * (reg[t].psc + 1) ELSE 0

\* How many ticks of a period the pin is high: PWM0 mode, counting up.
High(pin) ==
    LET k == chan[pin[1]][pin[2]] r == reg[pin[1]] IN
    IF k.out /\ k.mode = "pwm" /\ r.on
    THEN (IF k.pulse > r.car THEN r.car + 1 ELSE k.pulse) * (r.psc + 1) ELSE 0

AskedHigh(pin) ==
    LET o == Object(pin) IN
    IF o.format = "hz" THEN (Ticks(pin[1]) * o.cycle) \div 100 ELSE InTicks(o.cycle, o.format)

\* Between calls, the wave on a pin is the one its object asks for, high for
\* the cycle's time within two counts, when its period is still the
\* timer's and no longer than that (timer.c:593-735, pwm.cpp:39-113).
OutputAsAsked ==
    \A pin \in Pins :
        LET o == Object(pin) t == pin[1] IN
        (todo = <<>> /\ o.made /\ timing[t] = [by |-> "pwm", time |-> o.period, format |-> o.format]
           /\ (o.format = "hz" \/ o.cycle <= o.period)) =>
            Distance(High(pin), IF o.active THEN AskedHigh(pin) ELSE 0) <= 2 * (reg[t].psc + 1)

\* A tone of n half periods turns its pin n times and no more, however its
\* interrupts fall into later calls, and leaves it low (Tone.cpp:20-38).
ToneLength ==
    /\ tone.asked >= 0 => tone.toggles + tone.count = tone.asked
    /\ tone.over => tone.level = 0

\* Every call returns: the interrupts of the timers leave the sketch time.
CallsReturn == (todo # <<>>) ~> (todo = <<>>)

\* A timer, a PWM pin and a tone do what their last call asked for.
PinsAsAsked == PeriodAsAsked /\ OutputAsAsked /\ ToneLength
=============================================================================

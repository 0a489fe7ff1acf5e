---------------------------- MODULE PinInterrupts ----------------------------
(* attachInterrupt() and detachInterrupt() (WInterrupts.cpp) on the EXTI lines *)
(* (gpio_interrupt.c): the lines 5 to 9, and 10 to 15, share an interrupt and  *)
(* its handler.  A call of the sketch is the steps it makes; the interrupt     *)
(* may come between two of them, and then runs to its end while pins go on     *)
(* changing.  EXTI and the interrupt controller are external.                  *)
(*                                                                            *)
(* Assumed: the pins are of port A, as nothing selects another port for a      *)
(* line; a callback detaches pins but does not attach any.                     *)
EXTENDS Naturals, Sequences

CONSTANTS
    PinLines,       \* the lines, and pins, that the sketch uses
    PinModes        \* the modes it attaches with

ASSUME PinAssumption ==
    PinLines \subseteq 0..15 /\ PinModes \subseteq {"CHANGE", "FALLING", "LOW", "RISING", "HIGH"}

VARIABLES
    exti,       \* per line: the trigger of EXTI, its pending flag
    pinCall,    \* gpio_exti_infor: the callback of each line
    irqs,       \* interrupts that are enabled
    level,      \* of each pin
    step,       \* what is left of the sketch's call
    serving,    \* lines the handler has still to look at
    calling,    \* the line whose callback runs
    asked,      \* history: the mode of each line that is attached
    owed,       \* history: lines with an edge since, and no call since that
    stray       \* history: an attached callback was called without

pinVars == <<exti, pinCall, irqs, level, step, serving, calling, asked, owed, stray>>

NoCall == "NULL"
NoLine == 16
Lines == 0..15

IrqNum(l) == IF l < 5 THEN <<l, l>> ELSE IF l < 10 THEN <<5, 9>> ELSE <<10, 15>>
LinesOf(irq) == {l \in PinLines : IrqNum(l) = irq}

PinInit ==
    /\ exti = [l \in PinLines |-> [trigger |-> "none", flag |-> FALSE]]
    /\ pinCall = [l \in PinLines |-> NoCall]
    /\ irqs = {} /\ level = [l \in PinLines |-> 0]
    /\ step = <<>> /\ serving = <<>> /\ calling = NoLine
    /\ asked = [l \in PinLines |-> "none"] /\ owed = {} /\ stray = FALSE

Trigger(mode) ==
    CASE mode = "CHANGE" -> "BOTH"
      [] mode \in {"FALLING", "LOW"} -> "FALLING"
      [] OTHER -> "RISING"

-----------------------------------------------------------------------------
(* The calls of the sketch.                                                  *)

Idle == step = <<>> /\ serving = <<>> /\ calling = NoLine
SketchRuns == step # <<>> /\ serving = <<>> /\ calling = NoLine

\* While a call is made for a line, the sketch can rely on nothing for it.
Unasked(l) == asked' = [asked EXCEPT ![l] = "none"] /\ owed' = owed \ {l}

Attach(l, mode, callback) ==
    /\ Idle
    /\ pinCall' = [pinCall EXCEPT ![l] = callback]
    /\ step' = << <<"enable", l, mode>>, <<"init", l, mode>>, <<"clear", l, mode>> >>
    /\ Unasked(l)
    /\ UNCHANGED <<exti, irqs, level, serving, calling, stray>>

Detach(l) ==
    /\ Idle
    /\ pinCall' = [pinCall EXCEPT ![l] = NoCall]
    /\ step' = << <<"look", l, "none">> >>
    /\ Unasked(l)
    /\ UNCHANGED <<exti, irqs, level, serving, calling, stray>>

NoneElse(l, calls) == TRUE                                      \* mutant

\* No other line of the interrupt has a callback.
NoneLeft(l, calls) == \A i \in LinesOf(IrqNum(l)) : calls[i] = NoCall

AttachStep ==
    /\ SketchRuns /\ step' = Tail(step)
    /\ LET kind == Head(step)[1] l == Head(step)[2] mode == Head(step)[3]
       IN  \/ /\ kind = "enable" /\ irqs' = irqs \union {IrqNum(l)}
              /\ UNCHANGED <<exti, asked>>
           \/ /\ kind = "init" /\ exti' = [exti EXCEPT ![l].trigger = Trigger(mode)]
              /\ UNCHANGED <<irqs, asked>>
           \/ /\ kind = "clear" /\ exti' = [exti EXCEPT ![l].flag = FALSE]
              /\ asked' = IF pinCall[l] = NoCall THEN asked ELSE [asked EXCEPT ![l] = mode]
              /\ UNCHANGED irqs
    /\ UNCHANGED <<pinCall, level, serving, calling, owed, stray>>

\* The look at the table, and then eclic_irq_disable.
DetachStep ==
    /\ SketchRuns
    /\ LET kind == Head(step)[1] l == Head(step)[2]
       IN  \/ /\ kind = "look"
              /\ step' = IF NoneLeft(l, pinCall) THEN << <<"off", l, "none">> >> ELSE <<>>
              /\ UNCHANGED irqs
           \/ /\ kind = "off" /\ irqs' = irqs \ {IrqNum(l)} /\ step' = <<>>
    /\ UNCHANGED <<exti, pinCall, level, serving, calling, asked, owed, stray>>

-----------------------------------------------------------------------------
(* Pins, and the handlers.                                                   *)

Sees(trigger, rising) ==
    trigger = "BOTH" \/ trigger = (IF rising THEN "RISING" ELSE "FALLING")

\* What the sketch means by a mode.
Means(mode, rising) ==
    mode = "CHANGE" \/ mode \in IF rising THEN {"RISING", "HIGH"} ELSE {"FALLING", "LOW"}

Edge(l) ==
    LET rising == level[l] = 0
    IN  /\ level' = [level EXCEPT ![l] = 1 - @]
        /\ exti' = [exti EXCEPT ![l].flag = @ \/ Sees(exti[l].trigger, rising)]
        /\ owed' = IF Means(asked[l], rising) THEN owed \union {l} ELSE owed
        /\ UNCHANGED <<pinCall, irqs, step, serving, calling, asked, stray>>

Enter(irq) ==
    /\ serving = <<>> /\ calling = NoLine /\ irq \in irqs
    /\ \E l \in LinesOf(irq) : exti[l].flag
    /\ serving' = SelectSeq([n \in 1..16 |-> n - 1], LAMBDA l : l \in LinesOf(irq))
    /\ UNCHANGED <<exti, pinCall, irqs, level, step, calling, asked, owed, stray>>

ClearsAfter(flag) == flag                                       \* mutant

\* exti_interrupt_flag_clear, before the callback.
Cleared(flag) == FALSE

\* exti_callbackHandler.
Serve ==
    LET l == Head(serving)
    IN  /\ serving # <<>> /\ calling = NoLine /\ serving' = Tail(serving)
        /\ exti' = [exti EXCEPT ![l].flag = Cleared(@)]
        /\ IF exti[l].flag /\ pinCall[l] # NoCall
           THEN /\ calling' = l /\ owed' = owed \ {l}
                /\ stray' = (stray \/ (asked[l] # "none" /\ l \notin owed))
           ELSE UNCHANGED <<calling, owed, stray>>
        /\ UNCHANGED <<pinCall, irqs, level, step, asked>>

\* The callback returns; "once" has detached its pin.
Return ==
    LET l    == calling
        left == [pinCall EXCEPT ![l] = NoCall]
    IN  /\ calling # NoLine /\ calling' = NoLine
        /\ IF pinCall[l] = "once"
           THEN /\ pinCall' = left /\ Unasked(l)
                /\ irqs' = IF NoneLeft(l, left) THEN irqs \ {IrqNum(l)} ELSE irqs
           ELSE UNCHANGED <<pinCall, irqs, asked, owed>>
        /\ UNCHANGED <<exti, level, step, serving, stray>>

PinNext ==
    \/ \E l \in PinLines :
         \/ \E mode \in PinModes, callback \in {"plain", "once"} : Attach(l, mode, callback)
         \/ Detach(l) \/ Edge(l) \/ Enter(IrqNum(l))
    \/ AttachStep \/ DetachStep \/ Serve \/ Return

PinSpec == PinInit /\ [][PinNext]_pinVars

-----------------------------------------------------------------------------
(* Properties.                                                               *)

\* From attachInterrupt()'s return on, an edge of the pin that its mode means
\* will call its callback, whatever is attached and detached on other lines of
\* the interrupt and however edges fall into the handler; and it is called for
\* nothing else (gpio_interrupt.c:29-66).  Before the return it may be called
\* for an edge from an earlier time.
EdgesCalled ==
    /\ ~stray
    /\ \A l \in owed :
         exti[l].flag /\ pinCall[l] # NoCall /\ IrqNum(l) \in irqs
=============================================================================

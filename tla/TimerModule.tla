---------------------------- MODULE TimerModule ----------------------------
(***************************************************************************)
(* The timer (src/src/hardware/timermodule.cpp), advanced by every step of *)
(* the clock: the divider DIV and the counter TIMA, with the registers TMA *)
(* and TAC that a game writes between two steps, at both clock speeds.     *)
(***************************************************************************)
EXTENDS Integers

CONSTANTS
    REGISTER,        \* 256: the values of DIV and TIMA, fewer in a small instance
    RTC_INCREMENT,   \* ticks of an increment of DIV
    TIMEOUTS,        \* TIMEOUT_MAP: ticks of an increment of TIMA, per frequency
    Steps,           \* the numbers of ticks cycle() is given
    Modulos,         \* the values a game writes to TMA and TIMA
    MaxElapsed       \* bound: ticks counted by the history variable

ASSUME TimerAssumption ==
    /\ REGISTER \in Nat \ {0} /\ Modulos \subseteq 0..(REGISTER - 1) /\ Modulos # {}
    /\ TIMEOUTS # {} /\ MaxElapsed \in Nat
    /\ \A t \in TIMEOUTS \cup {RTC_INCREMENT} : t \in Nat /\ t >= 2 /\ t % 2 = 0
    /\ Steps \subseteq Nat \ {0}
    /\ \A s \in Steps : 2 * s < RTC_INCREMENT     \* a step is a byte, RTC_INCREMENT 512

VARIABLES
    divider, counter, modulo,   \* DIV, TIMA, TMA
    enabled, frequency,         \* TAC: TIMER_ENABLE, and the timeout its other bits select
    speed,                      \* m_speed: 0 normal, 1 double
    ticks, rtc,                 \* m_ticks, m_rtc
    rtcReset,                   \* MappedIO: a write to DIV has requested its reset
    raised,                     \* the timer bit of the interrupt flags
    base, elapsed, increments   \* history: since TAC, TIMA or the speed changed: m_ticks then,
                                \* the ticks counted (up to MaxElapsed), the increments made

registers == <<counter, modulo, enabled, frequency, speed>>
history == <<base, elapsed, increments>>
vars == <<divider, registers, ticks, rtc, rtcReset, raised, history>>

\* reset().
Init ==
    /\ divider = 0 /\ counter = 0 /\ modulo = 0
    /\ enabled = FALSE /\ frequency \in TIMEOUTS /\ speed = 0
    /\ ticks = 0 /\ rtc = 0 /\ rtcReset = FALSE /\ raised = FALSE
    /\ base = 0 /\ elapsed = 0 /\ increments = 0

\* A number of ticks at the current speed.
AtSpeed(t) == IF speed = 1 THEN t \div 2 ELSE t

-----------------------------------------------------------------------------
\* Slip: the counter is reloaded one increment late.
CountLate(n) ==
    LET after[i \in 0..n] ==
          IF i = 0 THEN [counter |-> counter, overflow |-> FALSE]
          ELSE IF after[i - 1].counter = REGISTER - 1 THEN [counter |-> modulo, overflow |-> i = n]
          ELSE [after[i - 1] EXCEPT !.counter = @ + 1]
    IN after[n]

\* The loop of cycle(): n increments of TIMA, and whether one of them overflowed.
Count(n) ==
    LET after[i \in 0..n] ==
          IF i = 0 THEN [counter |-> counter, overflow |-> FALSE]
          ELSE IF after[i - 1].counter = REGISTER - 1 THEN [counter |-> modulo, overflow |-> TRUE]
          ELSE [after[i - 1] EXCEPT !.counter = @ + 1]
    IN after[n]

\* Slip: the reset leaves the ticks towards the next increment.
CountDividerKeep(t) ==
    LET total == rtc + t
    IN /\ divider' = ((IF rtcReset THEN 0 ELSE divider) + total \div AtSpeed(RTC_INCREMENT)) % REGISTER
       /\ rtc' = total % AtSpeed(RTC_INCREMENT)
       /\ rtcReset' = FALSE

\* The divider: a requested reset first, and then the ticks.
CountDivider(t) ==
    LET start == IF rtcReset THEN 0 ELSE rtc
        total == start + t
    IN /\ divider' = ((IF rtcReset THEN 0 ELSE divider) + total \div AtSpeed(RTC_INCREMENT)) % REGISTER
       /\ rtc' = total % AtSpeed(RTC_INCREMENT)
       /\ rtcReset' = FALSE

\* Slip: m_ticks is cleared by an increment.
CycleClears ==
    \E t \in Steps :
        /\ CountDivider(t)
        /\ IF enabled
              THEN LET total == ticks + t
                       n == total \div AtSpeed(frequency)
                   IN /\ ticks' = IF n = 0 THEN total ELSE 0
                      /\ counter' = Count(n).counter
                      /\ raised' = (raised \/ Count(n).overflow)
                      /\ elapsed + t <= MaxElapsed
                      /\ elapsed' = elapsed + t /\ increments' = increments + n
              ELSE UNCHANGED <<ticks, counter, raised, elapsed, increments>>
        /\ UNCHANGED <<modulo, enabled, frequency, speed, base>>

\* cycle(): the divider always runs, the counter while it is enabled.  The ticks left over
\* from a slower frequency count for a faster one.
Cycle ==
    \E t \in Steps :
        /\ CountDivider(t)
        /\ IF enabled
              THEN LET total == ticks + t
                       n == total \div AtSpeed(frequency)
                   IN /\ ticks' = total % AtSpeed(frequency)
                      /\ counter' = Count(n).counter
                      /\ raised' = (raised \/ Count(n).overflow)
                      /\ elapsed + t <= MaxElapsed
                      /\ elapsed' = elapsed + t /\ increments' = increments + n
              ELSE UNCHANGED <<ticks, counter, raised, elapsed, increments>>
        /\ UNCHANGED <<modulo, enabled, frequency, speed, base>>

-----------------------------------------------------------------------------
(* What the game does between two steps of the clock.                      *)

StartHistory == base' = ticks /\ elapsed' = 0 /\ increments' = 0

WriteControl ==
    /\ enabled' \in BOOLEAN /\ frequency' \in TIMEOUTS
    /\ StartHistory
    /\ UNCHANGED <<divider, counter, modulo, speed, ticks, rtc, rtcReset, raised>>

WriteCounter ==
    /\ counter' \in Modulos /\ StartHistory
    /\ UNCHANGED <<divider, modulo, enabled, frequency, speed, ticks, rtc, rtcReset, raised>>

WriteModulo ==
    /\ modulo' \in Modulos
    /\ UNCHANGED <<divider, counter, enabled, frequency, speed, ticks, rtc, rtcReset, raised, history>>

\* MappedIO::write() leaves the reset of DIV to the next cycle().
WriteDivider ==
    /\ rtcReset' = TRUE
    /\ UNCHANGED <<divider, registers, ticks, rtc, raised, history>>

\* Processor::stop() switches the speed.
SwitchSpeed ==
    /\ speed' = 1 - speed /\ StartHistory
    /\ UNCHANGED <<divider, counter, modulo, enabled, frequency, ticks, rtc, rtcReset, raised>>

\* The processor serves the interrupt.
Serve ==
    /\ raised /\ raised' = FALSE
    /\ UNCHANGED <<divider, registers, ticks, rtc, rtcReset, history>>

Next ==
    \/ Cycle \/ WriteControl \/ WriteCounter \/ WriteModulo \/ WriteDivider
    \/ SwitchSpeed \/ Serve

Spec == Init /\ [][Next]_vars

-----------------------------------------------------------------------------
(* Properties                                                              *)

\* The registers keep their widths, and no remainder reaches a full period.
TypeOK ==
    /\ {divider, counter, modulo} \subseteq 0..(REGISTER - 1)
    /\ enabled \in BOOLEAN /\ frequency \in TIMEOUTS /\ speed \in {0, 1}
    /\ \E t \in TIMEOUTS : ticks < t
    /\ rtc \in 0..(RTC_INCREMENT - 1) /\ rtcReset \in BOOLEAN /\ raised \in BOOLEAN
    /\ ticks \in Nat /\ base \in Nat /\ elapsed \in 0..MaxElapsed /\ increments \in Nat

\* No tick is lost or counted twice, however the steps fall on the periods and whatever was
\* left over from before: the ticks given since the last change of the timer's registers are
\* its increments and its remainder (cycle()).
NoTickLost == base + elapsed = increments * AtSpeed(frequency) + ticks

\* A step of the clock counts TIMA up, and whenever that passes the end of the register, be it
\* once or several times after a change of frequency, to a lower value or to the same one, it
\* goes on from TMA each time and the interrupt is raised, as it is in no other step (cycle()).
OverflowRaises ==
    [][Cycle =>
          LET past == counter + (increments' - increments) - REGISTER   \* increments after the
          IN IF past < 0                                                \* first overflow
                THEN counter' = counter + (increments' - increments) /\ raised' = raised
                ELSE raised' /\ counter' = modulo + (past % (REGISTER - modulo))]_vars

\* The divider is a clock of its own: it goes on by one, or by two at the most when the speed
\* has been doubled late in its period, and after a write to DIV it starts from 0 with a whole
\* period ahead (cycle(), MappedIO::write()).
DividerRuns ==
    [][divider' # divider =>
          IF rtcReset
             THEN divider' = 0
             ELSE divider' \in {(divider + i) % REGISTER : i \in 1..(1 + speed)}]_vars
=============================================================================

------------------------- MODULE TimerModule_proofs -------------------------
(***************************************************************************)
(* Proofs of NoTickLost, DividerRuns and OverflowRaises of TimerModule,    *)
(* for every period, every width of the registers and every step shorter   *)
(* than half a period of the divider.                                      *)
(***************************************************************************)
EXTENDS TimerModule, WellFoundedInduction, TLAPS

\* What the arithmetic needs of the types: neither the counter nor the flags.
TimeInv ==
    /\ divider \in 0..(REGISTER - 1) /\ rtc \in 0..(RTC_INCREMENT - 1)
    /\ frequency \in TIMEOUTS /\ speed \in {0, 1} /\ enabled \in BOOLEAN
    /\ ticks \in Nat /\ base \in Nat /\ elapsed \in Nat /\ increments \in Nat

Inv == TimeInv /\ NoTickLost

-----------------------------------------------------------------------------
\* The quotient and the remainder of cycle() make up the ticks.
LEMMA Division ==
    \A n \in Nat, d \in Nat \ {0} :
        /\ n \div d \in Nat /\ n % d \in 0..(d - 1) /\ n % d \in Nat
        /\ n = (n \div d) * d + (n % d)
  OBVIOUS

\* A divider step counts at most as many increments as periods fit into it.
LEMMA SmallQuotient ==
    ASSUME NEW n \in Nat, NEW d \in Nat \ {0}
    PROVE  /\ n < d => n \div d = 0
           /\ n < 2 * d => n \div d \in {0, 1}
           /\ n < 3 * d => n \div d \in {0, 1, 2}
  BY Division

\* The periods are even, so that double speed halves them exactly (rtc >> m_speed).
LEMMA HalfPeriod ==
    ASSUME NEW t \in Nat, t >= 2, t % 2 = 0
    PROVE  t \div 2 \in Nat \ {0} /\ t = 2 * (t \div 2)
  OBVIOUS

\* Every period is positive at both speeds.
LEMMA PeriodType ==
    ASSUME speed \in {0, 1}, NEW t \in TIMEOUTS \cup {RTC_INCREMENT}
    PROVE  AtSpeed(t) \in Nat \ {0} /\ t = (1 + speed) * AtSpeed(t)
<1>1. t \in Nat /\ t >= 2 /\ t % 2 = 0
  BY TimerAssumption
<1>2. t \div 2 \in Nat \ {0} /\ t = 2 * (t \div 2)
  BY <1>1, HalfPeriod
<1>3. CASE speed = 0
  BY <1>1, <1>3 DEF AtSpeed
<1>4. CASE speed = 1
  BY <1>2, <1>4 DEF AtSpeed
<1>5. QED
  BY <1>3, <1>4

\* The divider keeps its width and its remainder its period.
LEMMA DividerType ==
    ASSUME TimeInv, NEW t \in Steps, CountDivider(t)
    PROVE  divider' \in 0..(REGISTER - 1) /\ rtc' \in 0..(RTC_INCREMENT - 1)
<1> DEFINE period == AtSpeed(RTC_INCREMENT)
           total == (IF rtcReset THEN 0 ELSE rtc) + t
           start == IF rtcReset THEN 0 ELSE divider
<1>1. period \in Nat \ {0} /\ period <= RTC_INCREMENT
  <2>1. period \in Nat \ {0} /\ RTC_INCREMENT = (1 + speed) * period
    BY PeriodType DEF TimeInv
  <2> HIDE DEF period
  <2>2. QED
    BY <2>1 DEF TimeInv
<1>2. total \in Nat /\ start \in Nat /\ REGISTER \in Nat \ {0} /\ RTC_INCREMENT \in Nat
  BY TimerAssumption DEF TimeInv
<1>3. divider' = (start + total \div period) % REGISTER /\ rtc' = total % period
  BY DEF CountDivider
<1> HIDE DEF period, total, start
<1>4. total \div period \in Nat /\ total % period \in 0..(period - 1)
  BY <1>1, <1>2, Division
<1>5. start + total \div period \in Nat
  BY <1>2, <1>4
<1>6. (start + total \div period) % REGISTER \in 0..(REGISTER - 1)
  BY <1>2, <1>5, Division
<1>7. QED
  BY <1>1, <1>2, <1>3, <1>4, <1>6

-----------------------------------------------------------------------------
\* A timer that is reset has nothing to account for.
LEMMA InitInv ==
    ASSUME Init
    PROVE  Inv
<1> RTC_INCREMENT \in Nat /\ RTC_INCREMENT >= 2 /\ REGISTER \in Nat \ {0}
  BY TimerAssumption
<1>1. TimeInv
  <2>1. /\ divider \in 0..(REGISTER - 1) /\ rtc \in 0..(RTC_INCREMENT - 1)
        /\ ticks \in Nat /\ base \in Nat /\ elapsed \in Nat /\ increments \in Nat
        /\ frequency \in TIMEOUTS /\ speed \in {0, 1}
    BY DEF Init
  <2>2. enabled \in BOOLEAN
    BY DEF Init
  <2>3. QED
    BY <2>1, <2>2 DEF TimeInv
<1>2. AtSpeed(frequency) \in Nat
  BY <1>1, PeriodType DEF TimeInv
<1>3. NoTickLost
  BY <1>2 DEF Init, NoTickLost
<1>4. QED
  BY <1>1, <1>3 DEF Inv

\* The account of the ticks is kept by every step; cycle() moves ticks into increments.
LEMMA InvNext ==
    ASSUME Inv, [Next]_vars
    PROVE  Inv'
<1> USE DEF Inv, TimeInv, NoTickLost
<1>1. CASE Cycle
  <2>1. PICK t \in Steps :
           /\ CountDivider(t)
           /\ IF enabled
                 THEN /\ ticks' = (ticks + t) % AtSpeed(frequency)
                      /\ elapsed' = elapsed + t
                      /\ increments' = increments + ((ticks + t) \div AtSpeed(frequency))
                 ELSE UNCHANGED <<ticks, elapsed, increments>>
    BY <1>1 DEF Cycle
  <2>2. UNCHANGED <<enabled, frequency, speed, base>>
    BY <1>1 DEF Cycle
  <2>3. divider' \in 0..(REGISTER - 1) /\ rtc' \in 0..(RTC_INCREMENT - 1)
    BY <2>1, DividerType
  <2>4. CASE ~enabled
    BY <2>1, <2>2, <2>3, <2>4 DEF AtSpeed
  <2>5. CASE enabled
    <3> DEFINE period == AtSpeed(frequency)
               n == (ticks + t) \div period
               rest == (ticks + t) % period
    <3>1. period \in Nat \ {0} /\ period' = period
      BY <2>2, PeriodType DEF AtSpeed
    <3>2. ticks + t \in Nat /\ t \in Nat
      BY TimerAssumption
    <3>3. n \in Nat /\ rest \in Nat /\ ticks + t = n * period + rest
      <4> HIDE DEF period, Inv, TimeInv, NoTickLost
      <4>1. QED
        BY <3>1, <3>2, Division
    <3>4. ticks' = rest /\ elapsed' = elapsed + t /\ increments' = increments + n
      BY <2>1, <2>5
    <3>5. base + elapsed = increments * period + ticks
      OBVIOUS
    <3> HIDE DEF period, n, rest
    <3>6. (increments + n) * period = increments * period + n * period
      BY <3>1, <3>3
    <3>7. increments * period \in Nat /\ n * period \in Nat
      BY <3>1, <3>3
    <3>8. base + elapsed' = increments' * period + ticks'
      BY <3>2, <3>3, <3>4, <3>5, <3>6, <3>7
    <3>9. base' + elapsed' = increments' * AtSpeed(frequency)' + ticks'
      BY <2>2, <3>1, <3>8 DEF period
    <3>10. QED
      BY <2>2, <2>3, <3>2, <3>3, <3>4, <3>9
  <2>6. QED
    BY <2>4, <2>5
<1>2. ASSUME StartHistory, UNCHANGED <<divider, rtc, ticks>>, frequency' \in TIMEOUTS,
             speed' \in {0, 1}, enabled' \in BOOLEAN
      PROVE  Inv'
  <2>1. AtSpeed(frequency)' \in Nat
    <3>1. frequency' \in Nat /\ frequency' >= 2 /\ frequency' % 2 = 0
      BY <1>2, TimerAssumption
    <3>2. frequency' \div 2 \in Nat
      BY <3>1, HalfPeriod
    <3>3. QED
      BY <3>1, <3>2 DEF AtSpeed
  <2>2. base' + elapsed' = increments' * AtSpeed(frequency)' + ticks'
    BY <1>2, <2>1 DEF StartHistory
  <2>3. QED
    BY <1>2, <2>2 DEF StartHistory
<1>3. CASE WriteControl
  BY <1>2, <1>3 DEF WriteControl
<1>4. CASE WriteCounter
  BY <1>2, <1>4 DEF WriteCounter, registers
<1>5. CASE SwitchSpeed
  BY <1>2, <1>5 DEF SwitchSpeed
<1>6. CASE WriteModulo \/ WriteDivider \/ Serve \/ UNCHANGED vars
  BY <1>6 DEF WriteModulo, WriteDivider, Serve, vars, registers, history, AtSpeed
<1>7. QED
  BY <1>1, <1>3, <1>4, <1>5, <1>6 DEF Next

\* No tick is lost or counted twice, whatever the steps and the changes of TAC, TIMA and the
\* speed (TimerModule::cycle()).
THEOREM NoTickIsLost == Spec => []NoTickLost
<1>1. Init => Inv
  BY InitInv
<1>2. Inv /\ [Next]_vars => Inv'
  BY InvNext
<1>3. Inv => NoTickLost
  BY DEF Inv
<1>4. QED
  BY <1>1, <1>2, <1>3, PTL DEF Spec

-----------------------------------------------------------------------------
\* A step of the divider counts one period at the most, two after a change to double speed,
\* and none right after its reset.
LEMMA DividerStep ==
    ASSUME TimeInv, NEW t \in Steps, CountDivider(t), divider' # divider
    PROVE  IF rtcReset THEN divider' = 0
           ELSE divider' \in {(divider + i) % REGISTER : i \in 1..(1 + speed)}
<1> DEFINE period == AtSpeed(RTC_INCREMENT)
           total == (IF rtcReset THEN 0 ELSE rtc) + t
<1>1. period \in Nat \ {0} /\ RTC_INCREMENT = (1 + speed) * period /\ speed \in {0, 1}
  BY PeriodType DEF TimeInv
<1>2. t \in Nat /\ 2 * t < RTC_INCREMENT /\ REGISTER \in Nat \ {0}
  BY TimerAssumption
<1>3. rtc \in Nat /\ rtc < RTC_INCREMENT /\ divider \in 0..(REGISTER - 1)
  BY <1>1, <1>2, TimerAssumption DEF TimeInv
<1>4. divider' = ((IF rtcReset THEN 0 ELSE divider) + total \div period) % REGISTER
  BY DEF CountDivider
<1>5. CASE rtcReset
  <2>1. total = t /\ total \in Nat /\ total < period
    <3> HIDE DEF period
    <3>1. QED
      BY <1>1, <1>2, <1>5
  <2>2. total \div period = 0
    <3> HIDE DEF period, total
    <3>1. QED
      BY <1>1, <2>1, SmallQuotient
  <2>3. QED
    BY <1>2, <1>4, <1>5, <2>2
<1>6. CASE ~rtcReset
  <2>1. total \in Nat /\ (speed = 0 => total < 2 * period) /\ (speed = 1 => total < 3 * period)
    <3> HIDE DEF period
    <3>1. QED
      BY <1>1, <1>2, <1>3, <1>6
  <2>2. (speed = 0 => total \div period \in {0, 1}) /\ (speed = 1 => total \div period \in {0, 1, 2})
    <3> HIDE DEF period, total
    <3>1. QED
      BY <1>1, <2>1, SmallQuotient
  <2>3. divider' = (divider + total \div period) % REGISTER
    BY <1>4, <1>6
  <2>4. total \div period # 0
    <3>1. divider % REGISTER = divider /\ divider + 0 = divider
      BY <1>2, <1>3
    <3> HIDE DEF period, total
    <3>2. QED
      BY <2>3, <3>1
  <2>5. total \div period \in 1..(1 + speed)
    <3> HIDE DEF period, total
    <3>1. QED
      BY <1>1, <2>2, <2>4
  <2>6. QED
    BY <1>6, <2>3, <2>5
<1>7. QED
  BY <1>5, <1>6

\* DIV is a clock of its own, which only its reset disturbs (cycle(), MappedIO::write()).
THEOREM DividerKeepsRunning == Spec => DividerRuns
<1>1. Init => Inv
  BY InitInv
<1>2. Inv /\ [Next]_vars => Inv'
  BY InvNext
<1>3. Inv /\ [Next]_vars =>
         [divider' # divider =>
             IF rtcReset
                THEN divider' = 0
                ELSE divider' \in {(divider + i) % REGISTER : i \in 1..(1 + speed)}]_vars
  <2> SUFFICES ASSUME Inv, Next, divider' # divider
               PROVE  IF rtcReset
                         THEN divider' = 0
                         ELSE divider' \in {(divider + i) % REGISTER : i \in 1..(1 + speed)}
    OBVIOUS
  <2>1. PICK t \in Steps : CountDivider(t)
    BY DEF Next, Cycle, WriteControl, WriteCounter, WriteModulo, WriteDivider, SwitchSpeed, Serve
  <2>2. QED
    BY <2>1, DividerStep DEF Inv
<1>4. QED
  BY <1>1, <1>2, <1>3, PTL DEF Spec, DividerRuns

-----------------------------------------------------------------------------
(* What the loop of cycle() computes, by induction over its turns.         *)

\* Induction: the natural numbers are contained in every set that has 0 and successors.
LEMMA SetInduction ==
    ASSUME NEW S, 0 \in S, \A n \in Nat : n \in S => n + 1 \in S
    PROVE  Nat \subseteq S
<1>1. SUFFICES ASSUME Nat \ S # {} PROVE FALSE
  OBVIOUS
<1>2. PICK x \in Nat \ S : \A y \in Nat \ S : ~(<<y, x>> \in OpToRel(<, Nat))
  BY <1>1, NatLessThanWellFounded, WFMin
<1>3. \A y \in Nat : y < x => y \in S
  BY <1>2 DEF OpToRel
<1>4. x \in Nat /\ x \notin S /\ x # 0
  BY <1>2
<1>5. x - 1 \in Nat /\ x - 1 < x /\ (x - 1) + 1 = x
  BY <1>4
<1>6. x - 1 \in S
  BY <1>3, <1>5
<1>7. QED
  BY <1>4, <1>5, <1>6

\* The values of a loop of n turns, the i-th of which makes s[<<i, x>>] of x.
Runs(g, n, first, s) == g[0] = first /\ \A i \in 1..n : g[i] = s[<<i, g[i - 1]>>]

\* Iteration: a loop of n turns, the i-th of which makes s[<<i, x>>] of x, has a result.
LEMMA Iteration ==
    ASSUME NEW n \in Nat, NEW X, NEW first \in X, NEW s \in [((1..n) \X X) -> X]
    PROVE  \E g \in [0..n -> X] : Runs(g, n, first, s)
<1> DEFINE Turns(g, m) == g[0] = first /\ \A i \in 1..m : g[i] = s[<<i, g[i - 1]>>]
           S == {m \in Nat : m <= n => \E g \in [0..m -> X] : Turns(g, m)}
<1>1. 0 \in S
  <2> DEFINE g == [i \in 0..0 |-> first]
  <2>1. g \in [0..0 -> X] /\ Turns(g, 0)
    OBVIOUS
  <2>2. QED
    BY <2>1
<1>2. ASSUME NEW m \in Nat, m \in S PROVE m + 1 \in S
  <2> SUFFICES ASSUME m + 1 <= n PROVE \E h \in [0..(m + 1) -> X] : Turns(h, m + 1)
    OBVIOUS
  <2>1. PICK g \in [0..m -> X] : Turns(g, m)
    BY <1>2
  <2> DEFINE h == [i \in 0..(m + 1) |-> IF i = m + 1 THEN s[<<m + 1, g[m]>>] ELSE g[i]]
  <2>2. h \in [0..(m + 1) -> X]
    <3>1. g[m] \in X
      BY <2>1
    <3>2. s[<<m + 1, g[m]>>] \in X
      BY <3>1
    <3>3. QED
      BY <2>1, <3>2
  <2>3. Turns(h, m + 1)
    <3>1. h[0] = first
      BY <2>1
    <3>2. ASSUME NEW i \in 1..(m + 1) PROVE h[i] = s[<<i, h[i - 1]>>]
      <4>1. h[i - 1] = g[i - 1]
        BY <2>1
      <4>2. CASE i = m + 1
        <5>1. i - 1 = m
          BY <4>2
        <5>2. h[i] = s[<<i, g[i - 1]>>]
          BY <4>2, <5>1
        <5>3. QED
          BY <4>1, <5>2
      <4>3. CASE i # m + 1
        <5>1. i \in 1..m
          BY <4>3
        <5>2. h[i] = g[i]
          BY <4>3
        <5>3. QED
          BY <2>1, <4>1, <5>1, <5>2
      <4>4. QED
        BY <4>2, <4>3
    <3>3. QED
      BY <3>1, <3>2
  <2> HIDE DEF h
  <2>4. QED
    BY <2>2, <2>3
<1>3. n \in S
  BY <1>1, <1>2, SetInduction
<1>4. QED
  BY <1>3 DEF Runs

\* CountTurns: the counter after every turn of the loop.
LEMMA CountTurns ==
    ASSUME NEW n \in Nat, counter \in 0..(REGISTER - 1), modulo \in 0..(REGISTER - 1)
    PROVE  \E after \in [0..n -> [counter : 0..(REGISTER - 1), overflow : BOOLEAN]] :
              /\ Count(n) = after[n]
              /\ after[0] = [counter |-> counter, overflow |-> FALSE]
              /\ \A i \in 1..n :
                    after[i] = IF after[i - 1].counter = REGISTER - 1
                                  THEN [counter |-> modulo, overflow |-> TRUE]
                                  ELSE [after[i - 1] EXCEPT !.counter = @ + 1]
<1> DEFINE X == [counter : 0..(REGISTER - 1), overflow : BOOLEAN]
           first == [counter |-> counter, overflow |-> FALSE]
           Turn(x) == IF x.counter = REGISTER - 1
                         THEN [counter |-> modulo, overflow |-> TRUE]
                         ELSE [x EXCEPT !.counter = @ + 1]
           after[i \in 0..n] == IF i = 0 THEN first ELSE Turn(after[i - 1])
           s == [p \in (1..n) \X X |-> Turn(p[2])]
<1>1. Count(n) = after[n]
  BY Zenon DEF Count
<1>2. first \in X
  OBVIOUS
<1>3. \A x \in X : Turn(x) \in X
  <2> SUFFICES ASSUME NEW x \in X PROVE Turn(x) \in X
    OBVIOUS
  <2>1. CASE x.counter = REGISTER - 1
    BY <2>1
  <2>2. CASE x.counter # REGISTER - 1
    <3>1. x.counter + 1 \in 0..(REGISTER - 1)
      BY <2>2, TimerAssumption
    <3>2. QED
      BY <2>2, <3>1
  <2>3. QED
    BY <2>1, <2>2
<1> HIDE DEF X, first, Turn, after
<1>4. s \in [((1..n) \X X) -> X]
  BY <1>3
<1>5. \A i \in 1..n, x \in X : s[<<i, x>>] = Turn(x)
  OBVIOUS
<1> HIDE DEF s
<1>6. \E g \in [0..n -> X] : Runs(g, n, first, s)
  BY <1>2, <1>4, Iteration
<1>7. PICK g \in [0..n -> X] : g[0] = first /\ \A i \in 1..n : g[i] = s[<<i, g[i - 1]>>]
  BY <1>6 DEF Runs
<1>8. \A i \in 1..n : g[i - 1] \in X /\ g[i] = Turn(g[i - 1])
  <2>1. ASSUME NEW i \in 1..n PROVE g[i - 1] \in X /\ g[i] = Turn(g[i - 1])
    <3>1. g[i - 1] \in X
      BY <1>7
    <3>2. QED
      BY <1>5, <1>7, <3>1
  <2>2. QED
    BY <2>1
<1>9. g = [i \in 0..n |-> IF i = 0 THEN first ELSE Turn(g[i - 1])]
  <2>1. \A i \in 0..n : i # 0 => i \in 1..n
    OBVIOUS
  <2>2. \A i \in 0..n : g[i] = IF i = 0 THEN first ELSE Turn(g[i - 1])
    BY <1>7, <1>8, <2>1
  <2>3. QED
    BY <2>2
<1>10. after = [i \in 0..n |-> IF i = 0 THEN first ELSE Turn(after[i - 1])]
  BY <1>9, Zenon DEF after
<1> DEFINE S == {i \in Nat : i <= n => after[i] = g[i]}
<1>11. 0 \in S
  BY <1>7, <1>10
<1>12. ASSUME NEW i \in Nat, i \in S PROVE i + 1 \in S
  <2>1. SUFFICES ASSUME i + 1 <= n PROVE after[i + 1] = g[i + 1]
    OBVIOUS
  <2>2. i + 1 \in 1..n /\ (i + 1) - 1 = i /\ i <= n /\ i + 1 \in 0..n /\ i + 1 # 0
    BY <2>1
  <2>3. after[i + 1] = Turn(after[i])
    BY <1>10, <2>2
  <2>4. g[i + 1] = Turn(g[i])
    BY <1>8, <2>2
  <2>5. QED
    BY <1>12, <2>2, <2>3, <2>4
<1>13. \A i \in Nat : i <= n => after[i] = g[i]
  BY <1>11, <1>12, SetInduction
<1>14. Count(n) = g[n]
  BY <1>1, <1>13
<1>15. QED
  BY <1>7, <1>8, <1>14 DEF X, first, Turn

\* NextRemainder: remainders go up by one and around.
LEMMA NextRemainder ==
    ASSUME NEW x \in Nat, NEW d \in Nat \ {0}
    PROVE  (x + 1) % d = IF x % d = d - 1 THEN 0 ELSE (x % d) + 1
<1> DEFINE q == x \div d
           r == x % d
           s == (x + 1) \div d
           t == (x + 1) % d
           z == s - q
<1>1. /\ q \in Int /\ r \in 0..(d - 1) /\ x = q * d + r
      /\ s \in Int /\ t \in 0..(d - 1) /\ x + 1 = s * d + t
  BY Division
<1>2. z \in Int /\ z * d = s * d - q * d
  <2> HIDE DEF q, s
  <2>1. QED
    BY <1>1
<1>3. /\ z * d \in Int /\ (z >= 1 => z * d >= d) /\ (z <= 0 - 1 => z * d <= 0 - d)
      /\ (z = 0 => z * d = 0)
  <2>1. z \in Int
    BY <1>2
  <2> HIDE DEF z
  <2>2. QED
    BY <2>1
<1>4. z * d = r + 1 - t
  <2> DEFINE a == s * d
             b == q * d
  <2>1. z * d = a - b /\ x = b + r /\ x + 1 = a + t /\ a \in Int /\ b \in Int
    BY <1>1, <1>2
  <2> HIDE DEF a, b, z, r, t
  <2>2. QED
    BY <1>1, <2>1
<1> HIDE DEF q, r, s, t, z
<1>5. t = IF r = d - 1 THEN 0 ELSE r + 1
  BY <1>1, <1>2, <1>3, <1>4
<1>6. QED
  BY <1>5 DEF r, t

\* The increments of n that come after the first overflow, less than none if there is none.
Past(n) == counter + n - REGISTER

\* Counted: until it overflows the counter goes up by the turns, and then around from TMA.
LEMMA Counted ==
    ASSUME NEW n \in Nat, counter \in 0..(REGISTER - 1), modulo \in 0..(REGISTER - 1)
    PROVE  /\ Count(n).counter \in 0..(REGISTER - 1) /\ Count(n).overflow \in BOOLEAN
           /\ Past(n) < 0 => ~Count(n).overflow /\ Count(n).counter = counter + n
           /\ Past(n) >= 0 => /\ Count(n).overflow
                              /\ Count(n).counter = modulo + (Past(n) % (REGISTER - modulo))
<1>1. PICK after \in [0..n -> [counter : 0..(REGISTER - 1), overflow : BOOLEAN]] :
         /\ Count(n) = after[n]
         /\ after[0] = [counter |-> counter, overflow |-> FALSE]
         /\ \A i \in 1..n :
               after[i] = IF after[i - 1].counter = REGISTER - 1
                             THEN [counter |-> modulo, overflow |-> TRUE]
                             ELSE [after[i - 1] EXCEPT !.counter = @ + 1]
  BY CountTurns
<1> DEFINE Good(i) == /\ Past(i) < 0 => ~after[i].overflow /\ after[i].counter = counter + i
                      /\ Past(i) >= 0 =>
                             /\ after[i].overflow
                             /\ after[i].counter = modulo + (Past(i) % (REGISTER - modulo))
           S == {i \in Nat : i <= n => Good(i)}
<1>2. \A i \in 0..n : after[i] \in [counter : 0..(REGISTER - 1), overflow : BOOLEAN]
  BY <1>1
<1>8. /\ REGISTER \in Nat \ {0} /\ REGISTER - modulo \in Nat \ {0}
      /\ counter \in Nat /\ modulo \in Nat /\ counter < REGISTER
  BY TimerAssumption
<1>3. 0 \in S
  <2>1. Past(0) < 0 /\ ~(Past(0) >= 0)
    BY <1>8 DEF Past
  <2>2. ~after[0].overflow /\ after[0].counter = counter + 0
    BY <1>1, <1>8
  <2>3. Good(0)
    BY <2>1, <2>2
  <2> HIDE DEF Good
  <2>4. QED
    BY <2>3
<1>4. ASSUME NEW i \in Nat, i \in S PROVE i + 1 \in S
  <2>1. SUFFICES ASSUME i + 1 <= n PROVE Good(i + 1)
    OBVIOUS
  <2>2. i + 1 \in 1..n /\ (i + 1) - 1 = i /\ i <= n /\ i \in 0..n /\ i \in Nat
    BY <1>4, <2>1
  <2>3. after[i] \in [counter : 0..(REGISTER - 1), overflow : BOOLEAN] /\ Good(i)
    BY <1>2, <1>4, <2>2
  <2>4. Past(i) \in Int /\ Past(i + 1) = Past(i) + 1 /\ Past(i) = counter + i - REGISTER
    BY <1>8, <2>2 DEF Past
  <2>5. /\ after[i].counter = REGISTER - 1 =>
              after[i + 1].counter = modulo /\ after[i + 1].overflow
        /\ after[i].counter # REGISTER - 1 => /\ after[i + 1].counter = after[i].counter + 1
                                              /\ after[i + 1].overflow <=> after[i].overflow
    <3>1. CASE after[i].counter = REGISTER - 1
      <4>1. after[i + 1] = [counter |-> modulo, overflow |-> TRUE]
        BY <1>1, <2>2, <3>1
      <4>2. QED
        BY <3>1, <4>1
    <3>2. CASE after[i].counter # REGISTER - 1
      <4>1. after[i + 1] = [after[i] EXCEPT !.counter = @ + 1]
        BY <1>1, <2>2, <3>2
      <4>2. QED
        BY <2>3, <3>2, <4>1
    <3>3. QED
      BY <3>1, <3>2
  <2>6. CASE Past(i) < 0
    <3>1. after[i].counter = counter + i /\ ~after[i].overflow
      BY <2>3, <2>6
    <3>2. CASE Past(i) = 0 - 1
      <4>1. after[i].counter = REGISTER - 1 /\ Past(i + 1) = 0
        <5>1. Past(i + 1) = 0 /\ counter + i - REGISTER = 0 - 1
          BY <2>4, <3>2
        <5>2. counter + i = REGISTER - 1
          BY <1>8, <2>2, <5>1
        <5>3. QED
          BY <3>1, <5>1, <5>2
      <4>2. 0 % (REGISTER - modulo) = 0
        <5> DEFINE d == REGISTER - modulo
        <5>1. d \in Nat \ {0}
          BY <1>8
        <5> HIDE DEF d
        <5>2. 0 % d = 0
          BY <5>1
        <5>3. QED
          BY <5>2 DEF d
      <4>3. after[i + 1].overflow /\ after[i + 1].counter = modulo
        BY <2>5, <4>1
      <4>4. modulo + (Past(i + 1) % (REGISTER - modulo)) = modulo
        <5>1. Past(i + 1) % (REGISTER - modulo) = 0
          BY <4>1, <4>2, Zenon
        <5>2. QED
          BY <1>8, <5>1
      <4>5. ~(Past(i + 1) < 0)
        BY <4>1
      <4>6. QED
        BY <4>3, <4>4, <4>5
    <3>3. CASE Past(i) # 0 - 1
      <4>1. after[i].counter # REGISTER - 1 /\ Past(i + 1) < 0
        BY <1>8, <2>2, <2>4, <2>6, <3>1, <3>3
      <4>2. after[i + 1].counter = counter + (i + 1) /\ ~after[i + 1].overflow
        BY <1>8, <2>2, <2>5, <3>1, <4>1
      <4>3. ~(Past(i + 1) >= 0)
        BY <2>4, <4>1
      <4>4. QED
        BY <4>1, <4>2, <4>3
    <3>4. QED
      BY <3>2, <3>3
  <2>7. CASE Past(i) >= 0
    <3> DEFINE d == REGISTER - modulo
               x == Past(i)
               r == x % d
    <3>1. after[i].counter = modulo + r /\ after[i].overflow /\ x \in Nat /\ d \in Nat \ {0}
      BY <1>8, <2>3, <2>4, <2>7
    <3>2. (x + 1) % d = (IF r = d - 1 THEN 0 ELSE r + 1) /\ r \in 0..(d - 1)
      <4>1. x \in Nat /\ d \in Nat \ {0}
        BY <3>1
      <4> HIDE DEF x, d
      <4>2. QED
        BY <4>1, NextRemainder, Division
    <3>3. Past(i + 1) = x + 1 /\ Past(i + 1) >= 0 /\ ~(Past(i + 1) < 0)
      BY <2>4, <2>7
    <3>4. after[i].counter = REGISTER - 1 <=> r = d - 1
      <4>1. d = REGISTER - modulo
        OBVIOUS
      <4> HIDE DEF d, r, x
      <4>2. QED
        BY <1>8, <3>1, <3>2, <4>1
    <3>5. after[i + 1].overflow /\ after[i + 1].counter = modulo + ((x + 1) % d)
      <4> HIDE DEF d, r, x
      <4>1. CASE r = d - 1
        BY <1>8, <2>5, <3>2, <3>4, <4>1
      <4>2. CASE r # d - 1
        <5>1. after[i + 1].counter = (modulo + r) + 1 /\ after[i + 1].overflow
          BY <2>5, <3>1, <3>4, <4>2
        <5>2. (x + 1) % d = r + 1 /\ r \in Int
          BY <3>1, <3>2, <4>2
        <5>3. QED
          BY <1>8, <5>1, <5>2
      <4>3. QED
        BY <4>1, <4>2
    <3>6. modulo + (Past(i + 1) % (REGISTER - modulo)) = modulo + ((x + 1) % d)
      BY <3>3, Zenon
    <3>7. QED
      <4> HIDE DEF x, d, r
      <4>1. QED
        BY <3>3, <3>5, <3>6
  <2>8. QED
    BY <2>4, <2>6, <2>7
<1>5. n \in S
  BY <1>3, <1>4, SetInduction
<1>6. Good(n) /\ n \in 0..n
  BY <1>5
<1>7. QED
  BY <1>1, <1>2, <1>6

\* The registers of the counter keep their widths.
CountInv ==
    /\ TimeInv /\ raised \in BOOLEAN
    /\ counter \in 0..(REGISTER - 1) /\ modulo \in 0..(REGISTER - 1)

\* The increments of a step are a number.
LEMMA Increments ==
    ASSUME TimeInv, NEW t \in Steps
    PROVE  (ticks + t) \div AtSpeed(frequency) \in Nat
<1>1. AtSpeed(frequency) \in Nat \ {0}
  BY PeriodType DEF TimeInv
<1>2. ticks + t \in Nat
  BY TimerAssumption DEF TimeInv
<1>3. QED
  BY <1>1, <1>2, Division

LEMMA CountInvNext ==
    ASSUME Inv, CountInv, [Next]_vars
    PROVE  CountInv'
<1>1. TimeInv'
  BY InvNext DEF Inv
<1>2. counter' \in 0..(REGISTER - 1) /\ modulo' \in 0..(REGISTER - 1)
  <2>1. CASE Cycle
    <3>1. PICK t \in Steps :
             IF enabled THEN counter' = Count((ticks + t) \div AtSpeed(frequency)).counter
             ELSE counter' = counter
      BY <2>1 DEF Cycle
    <3>2. (ticks + t) \div AtSpeed(frequency) \in Nat
      BY Increments DEF Inv
    <3>3. counter' \in 0..(REGISTER - 1)
      BY <3>1, <3>2, Counted DEF CountInv
    <3>4. modulo' = modulo
      BY <2>1 DEF Cycle
    <3>5. QED
      BY <3>3, <3>4 DEF CountInv
  <2>2. CASE WriteCounter \/ WriteModulo
    BY <2>2, TimerAssumption DEF CountInv, WriteCounter, WriteModulo
  <2>3. CASE WriteControl \/ WriteDivider \/ SwitchSpeed \/ Serve \/ UNCHANGED vars
    BY <2>3 DEF CountInv, WriteControl, WriteDivider, SwitchSpeed, Serve, vars, registers
  <2>4. QED
    BY <2>1, <2>2, <2>3 DEF Next
<1>3. raised' \in BOOLEAN
  <2>1. CASE Cycle
    <3>1. PICK t \in Steps :
             raised' = (raised \/ Count((ticks + t) \div AtSpeed(frequency)).overflow)
             \/ raised' = raised
      BY <2>1 DEF Cycle
    <3>2. QED
      BY <3>1 DEF CountInv
  <2>2. CASE ~Cycle
    BY <2>2 DEF CountInv, Next, WriteControl, WriteCounter, WriteModulo, WriteDivider, SwitchSpeed,
                Serve, vars
  <2>3. QED
    BY <2>1, <2>2
<1>4. QED
  BY <1>1, <1>2, <1>3 DEF CountInv

\* However many periods one step covers, the counter goes up by them and around from TMA, and
\* the interrupt is raised exactly if it came around (TimerModule::cycle()).
THEOREM OverflowsRaise == Spec => OverflowRaises
<1>1. Init => Inv /\ CountInv
  <2> SUFFICES ASSUME Init PROVE Inv /\ CountInv
    OBVIOUS
  <2>1. Inv
    BY InitInv
  <2>2. counter \in 0..(REGISTER - 1) /\ modulo \in 0..(REGISTER - 1)
    BY TimerAssumption DEF Init
  <2>3. raised \in BOOLEAN
    BY DEF Init
  <2>4. QED
    BY <2>1, <2>2, <2>3 DEF Inv, CountInv
<1>2. Inv /\ CountInv /\ [Next]_vars => Inv' /\ CountInv'
  BY InvNext, CountInvNext
<1>3. ASSUME Inv, CountInv, Cycle
      PROVE  IF Past(increments' - increments) < 0
                THEN counter' = counter + (increments' - increments) /\ raised' = raised
                ELSE /\ raised'
                     /\ counter' = modulo + (Past(increments' - increments) % (REGISTER - modulo))
  <2>1. counter \in 0..(REGISTER - 1) /\ modulo \in 0..(REGISTER - 1) /\ increments \in Nat
        /\ counter \in Nat /\ REGISTER \in Nat /\ counter < REGISTER
    BY <1>3, TimerAssumption DEF CountInv, TimeInv
  <2>2. CASE enabled
    <3>1. PICK t \in Steps :
             /\ counter' = Count((ticks + t) \div AtSpeed(frequency)).counter
             /\ raised' = (raised \/ Count((ticks + t) \div AtSpeed(frequency)).overflow)
             /\ increments' = increments + ((ticks + t) \div AtSpeed(frequency))
      BY <1>3, <2>2 DEF Cycle
    <3> DEFINE n == (ticks + t) \div AtSpeed(frequency)
    <3>2. n \in Nat
      BY <1>3, Increments DEF Inv
    <3>3. counter' = Count(n).counter /\ raised' = (raised \/ Count(n).overflow)
          /\ increments' = increments + n
      BY <3>1
    <3> HIDE DEF n
    <3>4. increments' - increments = n /\ Past(n) \in Int
      BY <2>1, <3>2, <3>3 DEF Past
    <3>5. CASE Past(n) < 0
      <4>1. ~Count(n).overflow /\ Count(n).counter = counter + n
        BY <2>1, <3>2, <3>5, Counted
      <4>2. raised' = raised
        BY <1>3, <3>3, <4>1 DEF CountInv
      <4>3. QED
        BY <3>3, <3>4, <3>5, <4>1, <4>2
    <3>6. CASE Past(n) >= 0
      <4>1. Count(n).overflow /\ Count(n).counter = modulo + (Past(n) % (REGISTER - modulo))
        BY <2>1, <3>2, <3>6, Counted
      <4>2. Past(increments' - increments) = Past(n) /\ ~(Past(n) < 0)
        BY <3>4, <3>6
      <4>3. raised' /\ counter' = modulo + (Past(n) % (REGISTER - modulo))
        BY <3>3, <4>1, Zenon
      <4>4. modulo + (Past(increments' - increments) % (REGISTER - modulo))
              = modulo + (Past(n) % (REGISTER - modulo))
        BY <4>2, Zenon
      <4>5. ~(Past(increments' - increments) < 0)
        BY <4>2, Zenon
      <4>6. QED
        BY <4>3, <4>4, <4>5, Zenon
    <3>7. QED
      BY <3>4, <3>5, <3>6
  <2>3. CASE ~enabled
    <3>1. UNCHANGED <<counter, raised, increments>>
      BY <1>3, <2>3 DEF Cycle
    <3>2. increments' - increments = 0 /\ Past(0) < 0 /\ counter + 0 = counter
      BY <2>1, <3>1 DEF Past
    <3>3. QED
      BY <3>1, <3>2
  <2>4. QED
    BY <2>2, <2>3
<1>4. Inv /\ CountInv =>
         [Cycle =>
             LET past == counter + (increments' - increments) - REGISTER
             IN IF past < 0
                   THEN counter' = counter + (increments' - increments) /\ raised' = raised
                   ELSE raised' /\ counter' = modulo + (past % (REGISTER - modulo))]_vars
  BY <1>3 DEF Past
<1>5. QED
  BY <1>1, <1>2, <1>4, PTL DEF Spec, OverflowRaises
=============================================================================

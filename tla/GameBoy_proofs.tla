-------------------------- MODULE GameBoy_proofs ---------------------------
(***************************************************************************)
(* Proofs of the safety properties of GameBoy for every interval length,   *)
(* every instruction length, every width of m_ticks and every set of       *)
(* settings the client may change.                                         *)
(***************************************************************************)
EXTENDS GameBoy, TLAPS

\* The operations that run in the scope of a Halt.
HaltTasks == ConfigKeys \cup {"access"}

\* What each label of the client says of the operation under way and of the threads.
ClientInv ==
    /\ client \in {"pause", "await.cpu", "pause.timer", "await.timer", "section", "relink"} =>
          task \in HaltTasks
    /\ client \in {"stop.run", "stop.link", "join.cpu", "join.timer", "stopped"} => task = "stop"
    /\ client = "start" => runTimer
    /\ client \in {"join.timer", "stopped"} => cpu = "none"
    /\ client = "stopped" => timer = "none"
    /\ client = "dead" <=> cpu = "fault"
    /\ timer = "dead" => client = "dead"

\* The pause flags are raised exactly between the two stores of the client.
FlagInv ==
    client # "dead" =>
        /\ pauseCpu = (client = "await.cpu" \/ HoldsCpu)
        /\ pauseTimer = (client = "await.timer" \/ HoldsTimer)

\* An acknowledgement that was not raised when the pause began is given by a parked thread.
AckInv ==
    /\ client # "dead" /\ pauseCpu /\ cpuPaused /\ "cpu" \notin stale => cpu \in Parked
    /\ client # "dead" /\ pauseTimer /\ timerPaused /\ "timer" \notin stale => timer \in Parked

\* As long as no acknowledgement was old, what the CPU thread has tested stays true.
TestedInv ==
    /\ "cpu" \in stale => tainted
    /\ ~tainted /\ cpu \in {"wait", "asleep", "modulo"} => speed # 0
    /\ ~tainted /\ cpu \in {"link", "answer"} => link # "none"

\* From a change of the speed to the resume() that clears m_ticks.
Unsettled == task # "stop" /\ client \in {"relink", "resume.ticks"}

\* What a wait() that began without m_ready adds to the ticks of an interval.
Slack == CycleTicks + IF ready THEN 0 ELSE speed + CycleTicks

\* What the hardware was given since the timer's last signal, by where the CPU thread is in
\* the interval: with m_ready raised the interval has not ended since that signal.
PaceInv ==
    ~tainted /\ speed # 0 /\ ~Unsettled =>
        /\ cpu \notin {"wait", "asleep", "modulo"} =>
              /\ ticks < speed
              /\ fed + (IF cpu = "hardware" THEN burst ELSE 0) <= ticks + Slack
        /\ cpu \in {"wait", "asleep"} => fed < speed + Slack
        /\ cpu = "modulo" => fed < speed + CycleTicks /\ (ready => fed = 0)

\* A change of the settings that has not reached the link yet.
RelinkPending ==
    /\ client \in {"pause", "await.cpu", "pause.timer", "await.timer", "section"}
    /\ task \in {"LINK_MASTER", "LINK_TYPE", "LINK_ENABLE"}

LinkInv ==
    /\ link = "running" /\ client # "dead" =>
          RelinkPending \/ (config.enable /\ config.type = "SOCKET")
    /\ client = "relink" => link = "none"

Inv ==
    /\ TypeOK
    /\ ClientInv
    /\ FlagInv
    /\ AckInv
    /\ CpuHaltIsExclusive
    /\ TimerHaltIsExclusive
    /\ TestedInv
    /\ NoFault
    /\ PaceInv
    /\ TimerOutlivesCpu
    /\ LinkInv

-----------------------------------------------------------------------------
(* Lemmas about the helpers.                                               *)

\* Clock::tick(): a remainder is smaller than its divisor and no larger than its dividend.
LEMMA RemainderBound ==
    ASSUME NEW n \in Nat, NEW d \in Nat \ {0}
    PROVE  n % d \in 0..(d - 1) /\ n % d <= n
  OBVIOUS

\* readSpeed() has three outcomes.
LEMMA SpeedOfType ==
    ASSUME NEW c \in Configs
    PROVE  SpeedOf(c) \in Speeds
  BY DEF SpeedOf, Speeds, Configs

\* Clock::m_ticks stays in its width when it is reset, wraps or is reduced by the speed.
LEMMA CounterType ==
    /\ 0 \in Counter
    /\ \A n \in Nat : n % Modulus \in Counter
    /\ \A n \in Counter, d \in Speeds : d # 0 => n % d \in Counter
<1>1. \A d \in Speeds : d # 0 => d \in Nat \ {0}
  BY GameBoyAssumption DEF Speeds
<1>2. ASSUME NEW n \in Counter, NEW d \in Speeds, d # 0 PROVE n % d \in Counter
  <2>1. n \in Nat /\ d \in Nat \ {0}
    BY <1>1, <1>2, GameBoyAssumption DEF Counter
  <2>2. n % d \in Nat /\ n % d <= n
    BY <2>1, RemainderBound
  <2>3. QED
    BY <2>2, GameBoyAssumption DEF Counter
<1>3. QED
  BY <1>2, GameBoyAssumption, RemainderBound DEF Counter

\* A speed other than TICKS_FREE is a positive number of ticks.
LEMMA SpeedsType == \A d \in Speeds : d \in Nat
  BY GameBoyAssumption DEF Speeds

\* The history is a bounded number of ticks.
LEMMA EnoughType == Enough \in Nat /\ 0 \in 0..Enough /\ 0 \in 0..CycleTicks
  BY GameBoyAssumption DEF Enough

\* A paced interval and the Clock::tick at its end fit into m_ticks, so it does not wrap.
LEMMA IntervalFits ==
    ASSUME NEW d \in Speeds, d # 0, NEW n \in 0..(d - 1), NEW t \in 0..CycleTicks
    PROVE  (n + t) % Modulus = n + t
<1>1. n + t \in 0..(Modulus - 1)
  BY GameBoyAssumption DEF Speeds
<1>2. QED
  BY <1>1, GameBoyAssumption

\* Configuration::update() keeps the settings well typed, and only the settings of the
\* link can change whether a socket link is asked for.
LEMMA UpdatesType ==
    ASSUME NEW c \in Configs, NEW key \in ConfigKeys, NEW d \in Updates(c, key)
    PROVE  /\ d \in Configs
           /\ key \notin {"LINK_TYPE", "LINK_ENABLE"} => d.type = c.type /\ d.enable = c.enable
  BY DEF Updates, Configs, ConfigKeys

-----------------------------------------------------------------------------
(* The inductive step, one lemma for each part of the invariant.           *)

\* Every step goes from a label to a label.
LEMMA LabelNext ==
    ASSUME LabelsOK, [Next]_vars
    PROVE  LabelsOK'
<1> USE DEF LabelsOK, CpuLabels, TimerLabels, ClientLabels, vars,
        threadVars, clockVars, flagVars, cycleVars, clientVars, ClientGoes, Fault, LinkFault
<1>1. CASE TimerSignal
  BY <1>1 DEF TimerSignal
<1>2. CASE ClientSection
  BY <1>2 DEF ClientSection
<1>3. CASE CpuReset \/ CpuRun \/ CpuPause \/ CpuAck \/ CpuUnack \/ CpuTick \/ CpuCycled
           \/ CpuWait \/ CpuSpuriousWakeup \/ CpuModulo \/ CpuHardware \/ CpuLink \/ CpuAnswer
  BY <1>3 DEF CpuReset, CpuRun, CpuPause, CpuAck, CpuUnack, CpuTick, CpuCycled, CpuWait,
      CpuSpuriousWakeup, CpuModulo, CpuHardware, CpuLink, CpuAnswer
<1>4. CASE TimerRun \/ TimerPause \/ TimerAck \/ TimerUnack
  BY <1>4 DEF TimerRun, TimerPause, TimerAck, TimerUnack
<1>5. CASE ClientStart \/ ClientUpdate \/ ClientAccess \/ ClientStop \/ ClientReplace
           \/ Crashed
  BY <1>5 DEF ClientStart, ClientUpdate, ClientAccess, ClientStop, ClientReplace, Crashed
<1>6. CASE ClientStartTimer \/ ClientPauseCpu \/ ClientAwaitCpu \/ ClientPauseTimer
           \/ ClientAwaitTimer \/ ClientRelink \/ ClientResumeTicks \/ ClientResumeCpu
           \/ ClientResumeTimer \/ ClientStopRun \/ ClientStopLink \/ ClientJoinCpu
           \/ ClientJoinTimer
  BY <1>6 DEF ClientStartTimer, ClientPauseCpu, ClientAwaitCpu, ClientPauseTimer,
      ClientAwaitTimer, ClientRelink, ClientResumeTicks, ClientResumeCpu, ClientResumeTimer,
      ClientStopRun, ClientStopLink, ClientJoinCpu, ClientJoinTimer
<1>7. CASE UNCHANGED vars
  BY <1>7
<1>8. QED
  BY <1>1, <1>2, <1>3, <1>4, <1>5, <1>6, <1>7
     DEF Next, CpuStep, TimerStep, ClientCall, ClientStep

\* Every step keeps the types of the data.
LEMMA DataNext ==
    ASSUME DataOK, [Next]_vars
    PROVE  DataOK'
<1> USE GameBoyAssumption DEF DataOK, vars, threadVars, clockVars, flagVars, clientVars,
        cycleVars, ClientGoes, Fault, LinkFault
<1>1. CASE CpuUnack
  BY <1>1 DEF CpuUnack
<1>2. CASE CpuTick
  BY <1>2, CounterType DEF CpuTick, Counter
<1>3. CASE CpuModulo
  BY <1>3, CounterType DEF CpuModulo
<1>4. CASE ClientUpdate
  BY <1>4, UpdatesType DEF ClientUpdate, ConfigKeys
<1>5. CASE ClientReplace
  BY <1>5, SpeedOfType, CounterType, EnoughType DEF ClientReplace, InitLink
<1>6. CASE ClientResumeTicks
  BY <1>6, CounterType, EnoughType DEF ClientResumeTicks
<1>7. CASE ClientPauseCpu
  BY <1>7 DEF ClientPauseCpu
<1>8. CASE ClientPauseTimer
  BY <1>8 DEF ClientPauseTimer
<1>9. CASE ClientSection
  BY <1>9, SpeedOfType DEF ClientSection
<1>10. CASE ClientRelink
  BY <1>10 DEF ClientRelink, InitLink
<1>11. CASE ClientStopLink
  BY <1>11 DEF ClientStopLink
<1>12. CASE CpuReset \/ CpuRun \/ CpuPause \/ CpuAck \/ CpuCycled \/ CpuWait
            \/ CpuSpuriousWakeup \/ CpuLink \/ CpuAnswer
  BY <1>12 DEF CpuReset, CpuRun, CpuPause, CpuAck, CpuCycled, CpuWait, CpuSpuriousWakeup,
      CpuLink, CpuAnswer
<1>13. CASE TimerRun \/ TimerPause \/ TimerAck \/ TimerUnack \/ TimerSignal
  BY <1>13, EnoughType DEF TimerRun, TimerPause, TimerAck, TimerUnack, TimerSignal
<1>14. CASE ClientStart \/ ClientAccess \/ ClientStop \/ Crashed
  BY <1>14 DEF ClientStart, ClientAccess, ClientStop, Crashed
<1>15. CASE ClientStartTimer \/ ClientAwaitCpu \/ ClientAwaitTimer \/ ClientResumeCpu
            \/ ClientResumeTimer \/ ClientStopRun \/ ClientJoinCpu \/ ClientJoinTimer
  BY <1>15 DEF ClientStartTimer, ClientAwaitCpu, ClientAwaitTimer, ClientResumeCpu,
      ClientResumeTimer, ClientStopRun, ClientJoinCpu, ClientJoinTimer
<1>16. CASE UNCHANGED vars
  BY <1>16
<1>17. CASE CpuHardware
  BY <1>17, EnoughType DEF CpuHardware
<1>18. QED
  BY <1>1, <1>2, <1>3, <1>4, <1>5, <1>6, <1>7, <1>8, <1>9, <1>10, <1>11, <1>12, <1>13, <1>14,
     <1>15, <1>16, <1>17
     DEF Next, CpuStep, TimerStep, ClientCall, ClientStep

\* Every step keeps the flags Boolean.
LEMMA FlagTypeNext ==
    ASSUME FlagsOK, [Next]_vars
    PROVE  FlagsOK'
<1> USE DEF FlagsOK, vars, threadVars, clockVars, flagVars, clientVars,
        cycleVars, ClientGoes, Fault, LinkFault
<1>1. CASE CpuReset \/ CpuRun \/ CpuPause \/ CpuAck \/ CpuUnack \/ CpuTick \/ CpuCycled
           \/ CpuWait \/ CpuSpuriousWakeup \/ CpuModulo \/ CpuHardware \/ CpuLink \/ CpuAnswer
  BY <1>1 DEF CpuReset, CpuRun, CpuPause, CpuAck, CpuUnack, CpuTick, CpuCycled, CpuWait,
      CpuSpuriousWakeup, CpuModulo, CpuHardware, CpuLink, CpuAnswer
<1>2. CASE TimerRun \/ TimerPause \/ TimerAck \/ TimerUnack \/ TimerSignal
  BY <1>2 DEF TimerRun, TimerPause, TimerAck, TimerUnack, TimerSignal
<1>3. CASE ClientStart \/ ClientUpdate \/ ClientAccess \/ ClientStop \/ ClientReplace
           \/ Crashed
  BY <1>3 DEF ClientStart, ClientUpdate, ClientAccess, ClientStop, ClientReplace, Crashed
<1>4. CASE ClientStartTimer \/ ClientPauseCpu \/ ClientAwaitCpu \/ ClientPauseTimer
           \/ ClientAwaitTimer \/ ClientSection \/ ClientRelink \/ ClientResumeTicks
           \/ ClientResumeCpu \/ ClientResumeTimer \/ ClientStopRun \/ ClientStopLink
           \/ ClientJoinCpu \/ ClientJoinTimer
  BY <1>4 DEF ClientStartTimer, ClientPauseCpu, ClientAwaitCpu, ClientPauseTimer,
      ClientAwaitTimer, ClientSection, ClientRelink, ClientResumeTicks, ClientResumeCpu,
      ClientResumeTimer, ClientStopRun, ClientStopLink, ClientJoinCpu, ClientJoinTimer
<1>5. CASE UNCHANGED vars
  BY <1>5
<1>6. QED
  BY <1>1, <1>2, <1>3, <1>4, <1>5
     DEF Next, CpuStep, TimerStep, ClientCall, ClientStep

\* The client's labels and the pause flags agree.
LEMMA ClientNext ==
    ASSUME LabelsOK, DataOK, ClientInv, FlagInv, [Next]_vars
    PROVE  ClientInv' /\ FlagInv'
<1> USE GameBoyAssumption DEF LabelsOK, DataOK, ClientInv, FlagInv, HoldsCpu, HoldsTimer,
        HaltTasks, ConfigKeys, ClientLabels, vars, threadVars, clockVars, flagVars,
        cycleVars, clientVars, ClientGoes, Fault, LinkFault
<1>1. CASE ClientStart
  BY <1>1 DEF ClientStart
<1>2. CASE ClientUpdate
  BY <1>2 DEF ClientUpdate
<1>3. CASE ClientPauseCpu
  BY <1>3 DEF ClientPauseCpu
<1>4. CASE ClientAwaitCpu
  BY <1>4 DEF ClientAwaitCpu
<1>5. CASE ClientPauseTimer
  BY <1>5 DEF ClientPauseTimer
<1>6. CASE ClientAwaitTimer
  BY <1>6 DEF ClientAwaitTimer
<1>7. CASE ClientResumeCpu
  BY <1>7 DEF ClientResumeCpu
<1>8. CASE ClientResumeTimer
  BY <1>8 DEF ClientResumeTimer
<1>9. CASE ClientJoinCpu
  BY <1>9 DEF ClientJoinCpu
<1>10. CASE ClientJoinTimer
  BY <1>10 DEF ClientJoinTimer
<1>11. CASE CpuReset \/ CpuRun \/ CpuPause \/ CpuAck \/ CpuUnack \/ CpuTick \/ CpuCycled
            \/ CpuWait \/ CpuSpuriousWakeup \/ CpuModulo \/ CpuHardware \/ CpuLink \/ CpuAnswer
  BY <1>11 DEF CpuReset, CpuRun, CpuPause, CpuAck, CpuUnack, CpuTick, CpuCycled, CpuWait,
      CpuSpuriousWakeup, CpuModulo, CpuHardware, CpuLink, CpuAnswer
<1>12. CASE TimerRun \/ TimerPause \/ TimerAck \/ TimerUnack \/ TimerSignal
  BY <1>12 DEF TimerRun, TimerPause, TimerAck, TimerUnack, TimerSignal
<1>13. CASE ClientAccess \/ ClientStop \/ ClientReplace \/ Crashed
  BY <1>13 DEF ClientAccess, ClientStop, ClientReplace, Crashed
<1>14. CASE ClientStartTimer \/ ClientSection \/ ClientRelink \/ ClientResumeTicks
            \/ ClientStopRun \/ ClientStopLink
  BY <1>14 DEF ClientStartTimer, ClientSection, ClientRelink, ClientResumeTicks,
      ClientStopRun, ClientStopLink
<1>15. CASE UNCHANGED vars
  BY <1>15
<1>16. QED
  BY <1>1, <1>2, <1>3, <1>4, <1>5, <1>6, <1>7, <1>8, <1>9, <1>10, <1>11, <1>12, <1>13, <1>14,
     <1>15
     DEF Next, CpuStep, TimerStep, ClientCall, ClientStep

\* A parked CPU stays parked while the client holds it.
LEMMA CpuHaltNext ==
    ASSUME LabelsOK, DataOK, FlagInv, ClientInv, AckInv, CpuHaltIsExclusive, [Next]_vars
    PROVE  AckInv' /\ CpuHaltIsExclusive'
<1> USE GameBoyAssumption DEF LabelsOK, DataOK, FlagInv, ClientInv, AckInv,
        CpuHaltIsExclusive, Parked, HoldsCpu, HoldsTimer, HaltTasks, ConfigKeys, vars,
        threadVars, clockVars, flagVars, cycleVars, clientVars, ClientGoes, Fault, LinkFault
<1>1. CASE CpuPause
  BY <1>1 DEF CpuPause
<1>2. CASE CpuAck
  BY <1>2 DEF CpuAck
<1>3. CASE CpuUnack
  BY <1>3 DEF CpuUnack
<1>4. CASE TimerPause
  BY <1>4 DEF TimerPause
<1>5. CASE TimerAck
  BY <1>5 DEF TimerAck
<1>6. CASE TimerUnack
  BY <1>6 DEF TimerUnack
<1>7. CASE ClientStart
  BY <1>7 DEF ClientStart
<1>8. CASE ClientStartTimer
  BY <1>8 DEF ClientStartTimer
<1>9. CASE ClientPauseCpu
  BY <1>9 DEF ClientPauseCpu
<1>10. CASE ClientAwaitCpu
  BY <1>10 DEF ClientAwaitCpu
<1>11. CASE ClientPauseTimer
  BY <1>11 DEF ClientPauseTimer
<1>12. CASE ClientResumeCpu
  BY <1>12 DEF ClientResumeCpu
<1>13. CASE ClientResumeTimer
  BY <1>13 DEF ClientResumeTimer
<1>14. CASE CpuReset \/ CpuRun \/ CpuTick \/ CpuCycled \/ CpuWait \/ CpuSpuriousWakeup
            \/ CpuModulo \/ CpuHardware \/ CpuLink \/ CpuAnswer
  BY <1>14 DEF CpuReset, CpuRun, CpuTick, CpuCycled, CpuWait, CpuSpuriousWakeup, CpuModulo,
      CpuHardware, CpuLink, CpuAnswer
<1>15. CASE TimerRun \/ TimerSignal
  BY <1>15 DEF TimerRun, TimerSignal
<1>16. CASE ClientUpdate \/ ClientAccess \/ ClientStop \/ ClientReplace \/ Crashed
  BY <1>16 DEF ClientUpdate, ClientAccess, ClientStop, ClientReplace, Crashed
<1>17. CASE ClientAwaitTimer \/ ClientSection \/ ClientRelink \/ ClientResumeTicks
            \/ ClientStopRun \/ ClientStopLink \/ ClientJoinCpu \/ ClientJoinTimer
  BY <1>17 DEF ClientAwaitTimer, ClientSection, ClientRelink, ClientResumeTicks,
      ClientStopRun, ClientStopLink, ClientJoinCpu, ClientJoinTimer
<1>18. CASE UNCHANGED vars
  BY <1>18
<1>19. QED
  BY <1>1, <1>2, <1>3, <1>4, <1>5, <1>6, <1>7, <1>8, <1>9, <1>10, <1>11, <1>12, <1>13, <1>14,
     <1>15, <1>16, <1>17, <1>18
     DEF Next, CpuStep, TimerStep, ClientCall, ClientStep

\* A parked timer stays parked while the client holds it.
LEMMA TimerHaltNext ==
    ASSUME LabelsOK, DataOK, FlagInv, ClientInv, AckInv, TimerHaltIsExclusive, [Next]_vars
    PROVE  TimerHaltIsExclusive'
<1> USE GameBoyAssumption DEF LabelsOK, DataOK, FlagInv, ClientInv, AckInv,
        TimerHaltIsExclusive, Parked, HoldsTimer, HoldsCpu, HaltTasks, ConfigKeys, vars,
        threadVars, clockVars, flagVars, cycleVars, clientVars, ClientGoes, Fault, LinkFault
<1>1. CASE TimerPause
  BY <1>1 DEF TimerPause
<1>2. CASE ClientStartTimer
  BY <1>2 DEF ClientStartTimer
<1>3. CASE ClientPauseTimer
  BY <1>3 DEF ClientPauseTimer
<1>4. CASE ClientAwaitTimer
  BY <1>4 DEF ClientAwaitTimer
<1>5. CASE ClientResumeTimer
  BY <1>5 DEF ClientResumeTimer
<1>6. CASE CpuReset \/ CpuRun \/ CpuPause \/ CpuAck \/ CpuUnack \/ CpuTick \/ CpuCycled
           \/ CpuWait \/ CpuSpuriousWakeup \/ CpuModulo \/ CpuHardware \/ CpuLink \/ CpuAnswer
  BY <1>6 DEF CpuReset, CpuRun, CpuPause, CpuAck, CpuUnack, CpuTick, CpuCycled, CpuWait,
      CpuSpuriousWakeup, CpuModulo, CpuHardware, CpuLink, CpuAnswer
<1>7. CASE TimerRun \/ TimerAck \/ TimerUnack \/ TimerSignal
  BY <1>7 DEF TimerRun, TimerAck, TimerUnack, TimerSignal
<1>8. CASE ClientStart \/ ClientUpdate \/ ClientAccess \/ ClientStop \/ ClientReplace
           \/ Crashed
  BY <1>8 DEF ClientStart, ClientUpdate, ClientAccess, ClientStop, ClientReplace, Crashed
<1>9. CASE ClientPauseCpu \/ ClientAwaitCpu \/ ClientSection \/ ClientRelink
           \/ ClientResumeTicks \/ ClientResumeCpu \/ ClientStopRun \/ ClientStopLink
           \/ ClientJoinCpu \/ ClientJoinTimer
  BY <1>9 DEF ClientPauseCpu, ClientAwaitCpu, ClientSection, ClientRelink, ClientResumeTicks,
      ClientResumeCpu, ClientStopRun, ClientStopLink, ClientJoinCpu, ClientJoinTimer
<1>10. CASE UNCHANGED vars
  BY <1>10
<1>11. QED
  BY <1>1, <1>2, <1>3, <1>4, <1>5, <1>6, <1>7, <1>8, <1>9, <1>10
     DEF Next, CpuStep, TimerStep, ClientCall, ClientStep

\* The speed and the link change only while the CPU is parked.
LEMMA TestedNext ==
    ASSUME LabelsOK, DataOK, ClientInv, CpuHaltIsExclusive, TestedInv, NoFault, [Next]_vars
    PROVE  TestedInv' /\ NoFault'
<1> USE GameBoyAssumption DEF LabelsOK, DataOK, ClientInv, CpuHaltIsExclusive, TestedInv,
        NoFault, Parked, HoldsCpu, HaltTasks, ConfigKeys, vars, threadVars,
        clockVars, flagVars, cycleVars, clientVars, ClientGoes, Fault, LinkFault
<1>1. CASE CpuTick
  BY <1>1 DEF CpuTick
<1>2. CASE CpuWait
  BY <1>2 DEF CpuWait
<1>3. CASE CpuModulo
  BY <1>3 DEF CpuModulo
<1>4. CASE CpuHardware
  BY <1>4 DEF CpuHardware
<1>5. CASE CpuLink \/ CpuAnswer
  BY <1>5 DEF CpuLink, CpuAnswer
<1>6. CASE ClientReplace
  BY <1>6 DEF ClientReplace
<1>7. CASE ClientPauseCpu
  BY <1>7 DEF ClientPauseCpu
<1>8. CASE ClientPauseTimer
  BY <1>8 DEF ClientPauseTimer
<1>9. CASE ClientSection
  BY <1>9 DEF ClientSection
<1>10. CASE ClientRelink
  BY <1>10 DEF ClientRelink
<1>11. CASE ClientResumeTicks
  BY <1>11 DEF ClientResumeTicks
<1>12. CASE ClientStopLink
  BY <1>12 DEF ClientStopLink
<1>13. CASE CpuReset \/ CpuRun \/ CpuPause \/ CpuAck \/ CpuUnack \/ CpuCycled
            \/ CpuSpuriousWakeup
  BY <1>13 DEF CpuReset, CpuRun, CpuPause, CpuAck, CpuUnack, CpuCycled, CpuSpuriousWakeup
<1>14. CASE TimerRun \/ TimerPause \/ TimerAck \/ TimerUnack \/ TimerSignal
  BY <1>14 DEF TimerRun, TimerPause, TimerAck, TimerUnack, TimerSignal
<1>15. CASE ClientStart \/ ClientUpdate \/ ClientAccess \/ ClientStop \/ Crashed
  BY <1>15 DEF ClientStart, ClientUpdate, ClientAccess, ClientStop, Crashed
<1>16. CASE ClientStartTimer \/ ClientAwaitCpu \/ ClientAwaitTimer \/ ClientResumeCpu
            \/ ClientResumeTimer \/ ClientStopRun \/ ClientJoinCpu \/ ClientJoinTimer
  BY <1>16 DEF ClientStartTimer, ClientAwaitCpu, ClientAwaitTimer, ClientResumeCpu,
      ClientResumeTimer, ClientStopRun, ClientJoinCpu, ClientJoinTimer
<1>17. CASE UNCHANGED vars
  BY <1>17
<1>18. QED
  BY <1>1, <1>2, <1>3, <1>4, <1>5, <1>6, <1>7, <1>8, <1>9, <1>10, <1>11, <1>12, <1>13, <1>14,
     <1>15, <1>16, <1>17
     DEF Next, CpuStep, TimerStep, ClientCall, ClientStep

\* The CPU thread ends an interval only with a signal of the timer.
LEMMA PaceNext ==
    ASSUME LabelsOK, DataOK, ClientInv, CpuHaltIsExclusive, TestedInv, PaceInv, FlagsOK, FlagInv,
           [Next]_vars
    PROVE  PaceInv'
<1>1. speed \in Nat /\ fed \in Nat /\ burst \in 0..CycleTicks /\ ticks \in Nat
  BY EnoughType, SpeedsType, GameBoyAssumption DEF DataOK, Counter
<1>2. ~tainted /\ Unsettled => cpu \in Parked
  BY DEF TestedInv, CpuHaltIsExclusive, HoldsCpu, Unsettled
<1> USE <1>1, <1>2, GameBoyAssumption DEF PaceInv, Slack, FlagsOK
<1>3. CASE CpuTick
  <2>1. SUFFICES ASSUME ~tainted, speed # 0 PROVE PaceInv'
    BY <1>3 DEF CpuTick, clientVars
  <2>2. cpu = "cycle" /\ ~Unsettled
    BY <1>3, <2>1 DEF CpuTick, Parked
  <2>3. ticks \in 0..(speed - 1) /\ fed <= ticks + Slack
    BY <2>1, <2>2
  <2>4. PICK t \in 1..left : burst' = t /\ ticks' = (ticks + t) % Modulus
                             /\ cpu' = IF ticks' >= speed THEN "wait" ELSE "hardware"
    BY <1>3, <2>1 DEF CpuTick
  <2>5. t \in 0..CycleTicks
    BY DEF DataOK
  <2>6. ticks' = ticks + t
    BY <2>1, <2>3, <2>4, <2>5, IntervalFits DEF DataOK
  <2>7. fed' = fed /\ speed' = speed /\ ready' = ready
    BY <1>3 DEF CpuTick
  <2>8. QED
    BY <2>1, <2>3, <2>4, <2>5, <2>6, <2>7
<1>4. CASE CpuWait
  BY <1>4 DEF CpuWait, cycleVars, clientVars, Unsettled, Parked
<1>5. CASE CpuModulo
  <2>1. CASE speed = 0
    BY <1>5, <2>1 DEF CpuModulo
  <2>2. CASE speed # 0
    <3>1. PICK m \in 0..(speed - 1) : ticks' = m
      BY <1>5, <2>2, RemainderBound DEF CpuModulo
    <3>2. cpu = "modulo" /\ cpu' = "hardware" /\ UNCHANGED <<fed, burst, speed, ready, tainted>>
      BY <1>5, <2>2 DEF CpuModulo, cycleVars
    <3>3. Unsettled' = Unsettled
      BY <1>5, <2>2 DEF CpuModulo, Unsettled
    <3>4. QED
      BY <2>2, <3>1, <3>2, <3>3
  <2>3. QED
    BY <2>1, <2>2
<1>6. CASE CpuHardware
  <2>1. fed' \in Nat /\ fed' <= fed + burst
    BY <1>6, EnoughType DEF CpuHardware
  <2>2. QED
    BY <1>6, <2>1 DEF CpuHardware, clockVars, clientVars, Unsettled, Parked
<1>7. CASE CpuLink \/ CpuAnswer
  BY <1>7 DEF CpuLink, CpuAnswer, LinkFault, Fault, cycleVars, clockVars, Unsettled, Parked
<1>8. CASE TimerSignal
  BY <1>8 DEF TimerSignal, clientVars, Unsettled
<1>9. CASE ClientResumeTicks
  <2>1. CASE task = "stop"
    BY <1>9, <2>1 DEF ClientResumeTicks, ClientGoes, Unsettled
  <2>2. CASE task # "stop"
    BY <1>9, <2>2 DEF ClientResumeTicks, ClientGoes, Unsettled, Parked
  <2>3. QED
    BY <2>1, <2>2
<1>10. CASE ClientReplace
  <2>1. speed' \in Nat
    BY <1>10, SpeedOfType, SpeedsType DEF ClientReplace, DataOK
  <2>2. cpu' = "none"
    BY <1>10 DEF ClientReplace, ClientGoes, ClientInv
  <2>3. QED
    BY <1>10, <2>1, <2>2 DEF ClientReplace
<1>11. CASE ClientSection
  BY <1>11 DEF ClientSection, ClientInv, HaltTasks, ConfigKeys, Unsettled
<1>12. CASE CpuReset \/ CpuRun \/ CpuPause \/ CpuAck \/ CpuUnack \/ CpuCycled
            \/ CpuSpuriousWakeup
  BY <1>12 DEF CpuReset, CpuRun, CpuPause, CpuAck, CpuUnack, CpuCycled, CpuSpuriousWakeup,
      cycleVars, clockVars, clientVars, Unsettled
<1>13. CASE TimerRun \/ TimerPause \/ TimerAck \/ TimerUnack
  BY <1>13 DEF TimerRun, TimerPause, TimerAck, TimerUnack, cycleVars, clockVars, clientVars,
      Unsettled
<1>14. CASE ClientStart \/ ClientUpdate \/ ClientAccess \/ ClientStop \/ Crashed
  BY <1>14 DEF ClientStart, ClientUpdate, ClientAccess, ClientStop, Crashed, ClientGoes, vars,
      threadVars, cycleVars, clockVars, clientVars, Unsettled
<1>15. CASE ClientStartTimer \/ ClientPauseCpu \/ ClientAwaitCpu \/ ClientPauseTimer
            \/ ClientAwaitTimer \/ ClientRelink \/ ClientResumeCpu \/ ClientResumeTimer
            \/ ClientStopRun \/ ClientStopLink \/ ClientJoinCpu \/ ClientJoinTimer
  BY <1>15 DEF ClientStartTimer, ClientPauseCpu, ClientAwaitCpu, ClientPauseTimer,
      ClientAwaitTimer, ClientRelink, ClientResumeCpu, ClientResumeTimer, ClientStopRun,
      ClientStopLink, ClientJoinCpu, ClientJoinTimer, ClientGoes, threadVars, cycleVars,
      clockVars, Unsettled
<1>16. CASE UNCHANGED vars
  BY <1>16 DEF vars, threadVars, cycleVars, clockVars, clientVars, Unsettled
<1>17. QED
  BY <1>3, <1>4, <1>5, <1>6, <1>7, <1>8, <1>9, <1>10, <1>11, <1>12, <1>13, <1>14, <1>15, <1>16
     DEF Next, CpuStep, TimerStep, ClientCall, ClientStep

\* The run flag of the timer is cleared only after the CPU thread is joined.
LEMMA OutliveNext ==
    ASSUME LabelsOK, DataOK, ClientInv, TimerOutlivesCpu, [Next]_vars
    PROVE  TimerOutlivesCpu'
<1> USE GameBoyAssumption DEF LabelsOK, DataOK, ClientInv, TimerOutlivesCpu, vars,
        threadVars, clockVars, flagVars, cycleVars, clientVars, ClientGoes, Fault, LinkFault
<1>1. CASE TimerRun
  BY <1>1 DEF TimerRun
<1>2. CASE ClientStart
  BY <1>2 DEF ClientStart
<1>3. CASE ClientStartTimer
  BY <1>3 DEF ClientStartTimer
<1>4. CASE ClientJoinCpu
  BY <1>4 DEF ClientJoinCpu
<1>5. CASE ClientJoinTimer
  BY <1>5 DEF ClientJoinTimer
<1>6. CASE CpuReset \/ CpuRun \/ CpuPause \/ CpuAck \/ CpuUnack \/ CpuTick \/ CpuCycled
           \/ CpuWait \/ CpuSpuriousWakeup \/ CpuModulo \/ CpuHardware \/ CpuLink \/ CpuAnswer
  BY <1>6 DEF CpuReset, CpuRun, CpuPause, CpuAck, CpuUnack, CpuTick, CpuCycled, CpuWait,
      CpuSpuriousWakeup, CpuModulo, CpuHardware, CpuLink, CpuAnswer
<1>7. CASE TimerPause \/ TimerAck \/ TimerUnack \/ TimerSignal
  BY <1>7 DEF TimerPause, TimerAck, TimerUnack, TimerSignal
<1>8. CASE ClientUpdate \/ ClientAccess \/ ClientStop \/ ClientReplace \/ Crashed
  BY <1>8 DEF ClientUpdate, ClientAccess, ClientStop, ClientReplace, Crashed
<1>9. CASE ClientPauseCpu \/ ClientAwaitCpu \/ ClientPauseTimer \/ ClientAwaitTimer
           \/ ClientSection \/ ClientRelink \/ ClientResumeTicks \/ ClientResumeCpu
           \/ ClientResumeTimer \/ ClientStopRun \/ ClientStopLink
  BY <1>9 DEF ClientPauseCpu, ClientAwaitCpu, ClientPauseTimer, ClientAwaitTimer,
      ClientSection, ClientRelink, ClientResumeTicks, ClientResumeCpu, ClientResumeTimer,
      ClientStopRun, ClientStopLink
<1>10. CASE UNCHANGED vars
  BY <1>10
<1>11. QED
  BY <1>1, <1>2, <1>3, <1>4, <1>5, <1>6, <1>7, <1>8, <1>9, <1>10
     DEF Next, CpuStep, TimerStep, ClientCall, ClientStep

\* A change of the link's settings reaches the link before the call returns.
LEMMA LinkNext ==
    ASSUME LabelsOK, DataOK, ClientInv, LinkInv, [Next]_vars
    PROVE  LinkInv'
<1> USE GameBoyAssumption DEF LabelsOK, DataOK, ClientInv, LinkInv, RelinkPending, HaltTasks,
        ConfigKeys, vars, threadVars, clockVars, flagVars, cycleVars, clientVars,
        ClientGoes, Fault, LinkFault
<1>1. CASE CpuModulo
  BY <1>1 DEF CpuModulo
<1>2. CASE CpuLink \/ CpuAnswer
  BY <1>2 DEF CpuLink, CpuAnswer
<1>3. CASE ClientUpdate
  BY <1>3, UpdatesType DEF ClientUpdate
<1>4. CASE ClientReplace
  BY <1>4 DEF ClientReplace, InitLink
<1>5. CASE ClientSection
  BY <1>5 DEF ClientSection, RestartsLink
<1>6. CASE ClientRelink
  BY <1>6 DEF ClientRelink, GetBool, InitLink
<1>7. CASE ClientStopLink
  BY <1>7 DEF ClientStopLink
<1>8. CASE CpuReset \/ CpuRun \/ CpuPause \/ CpuAck \/ CpuUnack \/ CpuTick \/ CpuCycled
           \/ CpuWait \/ CpuSpuriousWakeup \/ CpuHardware
  BY <1>8 DEF CpuReset, CpuRun, CpuPause, CpuAck, CpuUnack, CpuTick, CpuCycled, CpuWait,
      CpuSpuriousWakeup, CpuHardware
<1>9. CASE TimerRun \/ TimerPause \/ TimerAck \/ TimerUnack \/ TimerSignal
  BY <1>9 DEF TimerRun, TimerPause, TimerAck, TimerUnack, TimerSignal
<1>10. CASE ClientStart \/ ClientAccess \/ ClientStop \/ Crashed
  BY <1>10 DEF ClientStart, ClientAccess, ClientStop, Crashed
<1>11. CASE ClientStartTimer \/ ClientPauseCpu \/ ClientAwaitCpu \/ ClientPauseTimer
            \/ ClientAwaitTimer \/ ClientResumeTicks \/ ClientResumeCpu \/ ClientResumeTimer
            \/ ClientStopRun \/ ClientJoinCpu \/ ClientJoinTimer
  BY <1>11 DEF ClientStartTimer, ClientPauseCpu, ClientAwaitCpu, ClientPauseTimer,
      ClientAwaitTimer, ClientResumeTicks, ClientResumeCpu, ClientResumeTimer, ClientStopRun,
      ClientJoinCpu, ClientJoinTimer
<1>12. CASE UNCHANGED vars
  BY <1>12
<1>13. QED
  BY <1>1, <1>2, <1>3, <1>4, <1>5, <1>6, <1>7, <1>8, <1>9, <1>10, <1>11, <1>12
     DEF Next, CpuStep, TimerStep, ClientCall, ClientStep

-----------------------------------------------------------------------------
(* The theorems.                                                           *)

LEMMA InitInv == Init => Inv
<1> SUFFICES ASSUME Init PROVE Inv
  OBVIOUS
<1>1. TypeOK
  <2>1. FlagsOK
    BY DEF Init, FlagsOK
  <2>2. LabelsOK
    BY DEF Init, LabelsOK, CpuLabels, TimerLabels, ClientLabels
  <2>3. config \in Configs
    BY DEF Init, DefaultConfig, Configs
  <2>4. DataOK
    BY <2>3, GameBoyAssumption, SpeedOfType, CounterType, EnoughType
       DEF Init, DataOK, InitLink
  <2>5. QED
    BY <2>1, <2>2, <2>4 DEF TypeOK
<1>2. ClientInv /\ FlagInv /\ AckInv
  BY DEF Init, ClientInv, FlagInv, AckInv, HoldsCpu, HoldsTimer, Parked
<1>3. CpuHaltIsExclusive /\ TimerHaltIsExclusive /\ TimerOutlivesCpu
  BY DEF Init, CpuHaltIsExclusive, TimerHaltIsExclusive, HoldsCpu, HoldsTimer, TimerOutlivesCpu
<1>4. TestedInv /\ NoFault /\ PaceInv /\ LinkInv
  BY DEF Init, TestedInv, NoFault, PaceInv, SpeedOf, LinkInv, InitLink, DefaultConfig
<1>5. QED
  BY <1>1, <1>2, <1>3, <1>4 DEF Inv

LEMMA NextInv == Inv /\ [Next]_vars => Inv'
  BY LabelNext, DataNext, FlagTypeNext, ClientNext, CpuHaltNext, TimerHaltNext, TestedNext,
     PaceNext, OutliveNext, LinkNext
  DEF Inv, TypeOK

\* The conjunction is inductive.
THEOREM Invariance == Spec => []Inv
  BY InitInv, NextInv, PTL DEF Spec

\* Type correctness of the console (the declarations of gameboy.h).
THEOREM TypeCorrectness == Spec => []TypeOK
<1>1. Inv => TypeOK
  BY DEF Inv
<1>2. QED
  BY <1>1, Invariance, PTL

\* A Halt whose acknowledgements are new excludes both threads (GameBoy::pause, step,
\* executeTimer).
THEOREM HaltExclusion == Spec => []HaltsAreExclusive
<1>1. Inv => HaltsAreExclusive
  BY DEF Inv, HaltsAreExclusive
<1>2. QED
  BY <1>1, Invariance, PTL

\* Without an old acknowledgement the process divides by no zero speed and calls through no
\* reset link (Clock::tick, onConfigChange).
THEOREM FaultFreedom == Spec => []NoFault
<1>1. Inv => NoFault
  BY DEF Inv
<1>2. QED
  BY <1>1, Invariance, PTL

\* Between two signals of the timer thread the hardware is given less than two intervals and
\* what two Clock::tick overshoot (Clock::tick, wait, executeTimer).
THEOREM Pacing == Spec => []PacedHardware
<1>1. Inv => PacedHardware
  <2> SUFFICES ASSUME Inv, speed # 0, ~tainted, cpu \notin Parked
               PROVE  fed < 2 * (speed + CycleTicks)
    BY DEF PacedHardware
  <2>1. speed \in Nat \ {0} /\ fed \in Nat /\ burst \in Nat /\ ticks \in Nat
    BY EnoughType, SpeedsType, GameBoyAssumption DEF Inv, TypeOK, DataOK, Counter
  <2>2. ~Unsettled
    BY DEF Inv, TestedInv, CpuHaltIsExclusive, HoldsCpu, Unsettled
  <2>3. CASE cpu \in {"wait", "asleep"}
    BY <2>1, <2>2, <2>3, GameBoyAssumption DEF Inv, PaceInv, Slack
  <2>4. CASE cpu = "modulo"
    BY <2>1, <2>2, <2>4, GameBoyAssumption DEF Inv, PaceInv
  <2>5. CASE cpu \notin {"wait", "asleep", "modulo"}
    BY <2>1, <2>2, <2>5, GameBoyAssumption DEF Inv, PaceInv, Slack
  <2>6. QED
    BY <2>3, <2>4, <2>5
<1>2. QED
  BY <1>1, Invariance, PTL

\* The timer thread runs for as long as the CPU thread may wait for it (start, stop).
THEOREM StopOrder == Spec => []TimerOutlivesCpu
<1>1. Inv => TimerOutlivesCpu
  BY DEF Inv
<1>2. QED
  BY <1>1, Invariance, PTL

\* No link runs against the settings between two calls (onConfigChange, initLink).
THEOREM LinkConformity == Spec => []LinkObeysConfig
<1>1. Inv => LinkObeysConfig
  BY DEF Inv, LinkInv, RelinkPending, LinkObeysConfig
<1>2. QED
  BY <1>1, Invariance, PTL
=============================================================================

------------------------------ MODULE GameBoy ------------------------------
(***************************************************************************)
(* The GameBoy class (src/src/hardware/gameboy.cpp): one emulated console  *)
(* with a CPU thread, a timer thread that paces it, and the thread of the  *)
(* user interface, here the client, that starts, stops, halts and          *)
(* reconfigures it.  Every label of a program counter is a point between   *)
(* two accesses to state another thread can see; the comment at each       *)
(* action gives the function it is a step of.                              *)
(*                                                                         *)
(* Abstracted: what an instruction computes (an m_cpu.cycle() is a number  *)
(* of calls of Clock::tick), the sleeps, the socket link behind m_link     *)
(* (present or not, stopped or not), and the value of a port or address.   *)
(***************************************************************************)
EXTENDS Integers

CONSTANTS
    TicksNormal,   \* TICKS_NORMAL: ticks per timer interval at normal speed
    CycleTicks,    \* the most ticks one m_cpu.cycle() hands to Clock::tick
    Modulus,       \* m_ticks is unsigned and wraps here (2^32 in the code)
    Keys           \* the settings the client changes

ConfigKeys == {"ROM", "LINK_MASTER", "SPEED", "LINK_PORT", "LINK_TYPE",
               "LINK_ADDR", "LINK_ENABLE"}

ASSUME GameBoyAssumption ==
    /\ TicksNormal \in Nat \ {0}
    /\ CycleTicks \in Nat
    /\ Modulus \in Nat \ {0}
    /\ Modulus >= 2 * TicksNormal + CycleTicks   \* an interval does not wrap
    /\ Keys \subseteq ConfigKeys

VARIABLES
    cpu,          \* where the CPU thread is (m_thread)
    left,         \* ticks the current m_cpu.cycle() has still to hand to Clock::tick
    burst,        \* the argument of the current Clock::tick, 0 once the hardware has it
    timer,        \* where the timer thread is (m_timer)
    client,       \* where the client thread is
    task,         \* the public operation the client is executing
    config,       \* the settings of the Configuration singleton
    ticks,        \* Clock::m_ticks
    speed,        \* Clock::m_speed, 0 (TICKS_FREE) when not paced
    ready,        \* m_ready, only accessed under m_lock
    runCpu, runTimer, pauseCpu, pauseTimer, cpuPaused, timerPaused,
    link,         \* m_link: "none", "running", or "stopped" and not yet reset
    stale,        \* history: threads whose m_...Paused was already raised
                  \* when the pause() of the call under way asked for it
    tainted,      \* history: some pause() of this console found the CPU's
                  \* flag already raised
    fed           \* history: ticks handed to the hardware at a paced speed since the
                  \* timer's last signal or the last resume(), counted up to Enough
                  \* and not once the console is tainted

cycleVars  == <<left, burst, fed>>
threadVars == <<cpu, cycleVars, timer>>
clockVars  == <<ticks, speed, ready>>
flagVars   == <<runCpu, runTimer, pauseCpu, pauseTimer, cpuPaused, timerPaused>>
clientVars == <<client, task, config, link, stale, tainted>>
vars == <<threadVars, clockVars, flagVars, clientVars>>

CpuLabels ==
    {"none", "reset", "run", "pause", "ack", "unack", "cycle", "wait",
     "asleep", "modulo", "hardware", "link", "answer", "done", "fault"}
TimerLabels ==
    {"none", "run", "pause", "ack", "unack", "signal", "done", "dead"}
ClientLabels ==
    {"idle", "start", "pause", "await.cpu", "pause.timer", "await.timer",
     "section", "relink", "resume.ticks", "resume.cpu", "resume.timer",
     "stop.run", "stop.link", "join.cpu", "join.timer", "stopped", "dead"}

Configs == [speed: {"NORMAL", "2X", "FREE"}, master: BOOLEAN,
            type: {"SOCKET", "PIPE"}, enable: BOOLEAN]

\* The values of Clock::m_speed and of Clock::m_ticks.
Speeds == {0, TicksNormal, 2 * TicksNormal}
Counter == 0..(Modulus - 1)

\* Twice the longest interval and, at the end of each, one more Clock::tick.
Enough == 2 * (2 * TicksNormal + CycleTicks)

DefaultConfig == [speed |-> "FREE", master |-> TRUE, type |-> "SOCKET", enable |-> FALSE]

\* readSpeed(): the interval of the speed setting.
SpeedOf(c) == IF c.speed = "FREE" THEN 0
              ELSE IF c.speed = "2X" THEN 2 * TicksNormal
              ELSE TicksNormal

\* initLink(): only an enabled socket link is constructed; a pipe is a null pointer.
InitLink(c) == IF c.enable /\ c.type = "SOCKET" THEN "running" ELSE "none"

\* Configuration::getBool(key), through the toBool() of the setting's type: an
\* IntValue is true when it is 0 (SOCKET is 0, a port is not), a StringValue never.
GetBool(c, key) == \/ key = "LINK_MASTER" /\ c.master
                   \/ key = "LINK_ENABLE" /\ c.enable
                   \/ key = "LINK_TYPE" /\ c.type = "SOCKET"

\* The settings that updating key can leave behind.
Updates(c, key) ==
    {d \in Configs : /\ key # "SPEED" => d.speed = c.speed
                     /\ key # "LINK_MASTER" => d.master = c.master
                     /\ key # "LINK_TYPE" => d.type = c.type
                     /\ key # "LINK_ENABLE" => d.enable = c.enable}

\* Slip: a change of the type of the link is forgotten.
RestartsLinkNotType(c, key) ==
    \/ key \in {"LINK_MASTER", "LINK_ENABLE"}
    \/ key \in {"LINK_PORT", "LINK_ADDR"} /\ c.type = "SOCKET"

\* onConfigChange(): does a change of key reach the code that restarts the link?
RestartsLink(c, key) ==
    \/ key \in {"LINK_MASTER", "LINK_TYPE", "LINK_ENABLE"}
    \/ key \in {"LINK_PORT", "LINK_ADDR"} /\ c.type = "SOCKET"

-----------------------------------------------------------------------------
\* GameBoy::GameBoy() under the default configuration: both ...Paused flags are
\* raised although there are no threads yet.
Init ==
    /\ config = DefaultConfig
    /\ cpu = "none" /\ timer = "none" /\ left = 0 /\ burst = 0
    /\ client = "idle" /\ task = "none"
    /\ ticks = 0 /\ speed = SpeedOf(config) /\ ready = FALSE
    /\ runCpu = FALSE /\ runTimer = FALSE
    /\ pauseCpu = FALSE /\ pauseTimer = FALSE
    /\ cpuPaused = TRUE /\ timerPaused = TRUE
    /\ link = InitLink(config)
    /\ stale = {} /\ tainted = FALSE /\ fed = 0

-----------------------------------------------------------------------------
(* The CPU thread: run(), step(), Clock::tick() and wait().                *)

CpuReset ==                                          \* run(): m_cpu.reset()
    /\ cpu = "reset"
    /\ cpu' = "run"
    /\ UNCHANGED <<cycleVars, timer, clockVars, flagVars, clientVars>>

CpuRun ==                                            \* run(): while (m_runCpu)
    /\ cpu = "run"
    /\ cpu' = IF runCpu THEN "pause" ELSE "done"
    /\ UNCHANGED <<cycleVars, timer, clockVars, flagVars, clientVars>>

CpuPause ==                                          \* step(): while (m_pauseCpu)
    /\ cpu = "pause"
    /\ cpu' = IF pauseCpu THEN "ack" ELSE "unack"
    /\ UNCHANGED <<cycleVars, timer, clockVars, flagVars, clientVars>>

\* Slip: "if (m_pauseCpu)" for "while (m_pauseCpu)".
CpuAckOnce ==
    /\ cpu = "ack"
    /\ cpu' = "unack"
    /\ cpuPaused' = TRUE
    /\ UNCHANGED <<cycleVars, timer, clockVars, runCpu, runTimer, pauseCpu, pauseTimer,
                   timerPaused, clientVars>>

CpuAck ==                                            \* step(): m_cpuPaused = true
    /\ cpu = "ack"
    /\ cpu' = "pause"
    /\ cpuPaused' = TRUE
    /\ UNCHANGED <<cycleVars, timer, clockVars, runCpu, runTimer, pauseCpu, pauseTimer,
                   timerPaused, clientVars>>

CpuUnack ==                                          \* step(): m_cpuPaused = false
    /\ cpu = "unack"
    /\ cpu' = "cycle"
    /\ left' \in 0..CycleTicks
    /\ cpuPaused' = FALSE
    /\ UNCHANGED <<burst, fed, timer, clockVars, runCpu, runTimer, pauseCpu, pauseTimer,
                   timerPaused, clientVars>>

\* Slip: the end of the interval is not waited for.
CpuTickUnpaced ==
    /\ cpu = "cycle"
    /\ \E t \in 1..left :
          /\ burst' = t /\ left' = left - t
          /\ ticks' = (ticks + t) % Modulus
          /\ cpu' = IF speed # 0 /\ ticks' >= speed THEN "modulo" ELSE "hardware"
    /\ UNCHANGED <<fed, timer, speed, ready, flagVars, clientVars>>

\* Slip: a counter that does not wrap.
CpuTickUnbounded ==
    /\ cpu = "cycle"
    /\ \E t \in 1..left :
          /\ burst' = t /\ left' = left - t
          /\ ticks' = ticks + t
          /\ cpu' = IF speed # 0 /\ ticks' >= speed THEN "wait" ELSE "hardware"
    /\ UNCHANGED <<fed, timer, speed, ready, flagVars, clientVars>>

CpuTick ==                                           \* tick(): up to the wait()
    /\ cpu = "cycle"
    /\ \E t \in 1..left :
          /\ burst' = t /\ left' = left - t
          /\ ticks' = (ticks + t) % Modulus
          /\ cpu' = IF speed # 0 /\ ticks' >= speed THEN "wait" ELSE "hardware"
    /\ UNCHANGED <<fed, timer, speed, ready, flagVars, clientVars>>

CpuCycled ==                                         \* step() returns to run()
    /\ cpu = "cycle" /\ left = 0
    /\ cpu' = "run"
    /\ UNCHANGED <<cycleVars, timer, clockVars, flagVars, clientVars>>

CpuWait ==                                           \* wait(): the predicate of m_cv.wait
    /\ cpu = "wait"
    /\ cpu' = IF ready THEN "modulo" ELSE "asleep"
    /\ ready' = FALSE
    /\ UNCHANGED <<cycleVars, timer, ticks, speed, flagVars, clientVars>>

CpuSpuriousWakeup ==                                 \* wait(): m_cv may wake by itself
    /\ cpu = "asleep"
    /\ cpu' = "wait"
    /\ UNCHANGED <<cycleVars, timer, clockVars, flagVars, clientVars>>

\* An integer division by zero or a call through a null pointer ends every thread.
Fault == cpu' = "fault" /\ timer' = "dead" /\ client' = "dead"

CpuModulo ==                                         \* tick(): m_ticks %= m_speed
    /\ cpu = "modulo"
    /\ \/ /\ speed # 0
          /\ cpu' = "hardware"
          /\ ticks' = ticks % speed
          /\ UNCHANGED <<timer, client>>
       \/ speed = 0 /\ Fault /\ UNCHANGED ticks
    /\ UNCHANGED <<cycleVars, speed, ready, flagVars, task, config, link, stale, tainted>>

CpuHardware ==                                       \* tick(): timer, gpu, joypad; if (m_link)
    /\ cpu = "hardware"
    /\ cpu' = IF link # "none" THEN "link" ELSE "cycle"
    /\ burst' = 0
    /\ fed' = IF speed = 0 \/ tainted THEN 0
              ELSE IF fed + burst < Enough THEN fed + burst ELSE Enough
    /\ UNCHANGED <<left, timer, clockVars, flagVars, clientVars>>

\* A call through an m_link that onConfigChange() has reset.
LinkFault == link = "none" /\ Fault

CpuLink ==                                           \* tick(): m_link->cycle(), which blocks
    /\ cpu = "link"                                  \* in handlePending() while a transfer
    /\ \/ cpu' \in {"cycle", "answer"}               \* is pending
          /\ UNCHANGED <<timer, client>>
       \/ LinkFault
    /\ UNCHANGED <<cycleVars, clockVars, flagVars, task, config, link, stale, tainted>>

\* handlePending(): the answer is there, or the link thread found the connection lost.
\* Whether that ever happens is up to the peer and to the link thread (SerialLink).
CpuAnswer ==
    /\ cpu = "answer"
    /\ \/ cpu' = "cycle" /\ UNCHANGED <<timer, client>>
       \/ LinkFault
    /\ UNCHANGED <<cycleVars, clockVars, flagVars, task, config, link, stale, tainted>>

CpuStep ==
    \/ CpuReset \/ CpuRun \/ CpuPause \/ CpuAck \/ CpuUnack \/ CpuTick
    \/ CpuCycled \/ CpuWait \/ CpuModulo \/ CpuHardware \/ CpuLink

-----------------------------------------------------------------------------
(* The timer thread: executeTimer().                                       *)

TimerRun ==                                          \* while (m_runTimer)
    /\ timer = "run"
    /\ timer' = IF runTimer THEN "pause" ELSE "done"
    /\ UNCHANGED <<cpu, cycleVars, clockVars, flagVars, clientVars>>

TimerPause ==                                        \* while (m_pauseTimer)
    /\ timer = "pause"
    /\ timer' = IF pauseTimer THEN "ack" ELSE "unack"
    /\ UNCHANGED <<cpu, cycleVars, clockVars, flagVars, clientVars>>

TimerAck ==                                          \* m_timerPaused = true
    /\ timer = "ack"
    /\ timer' = "pause"
    /\ timerPaused' = TRUE
    /\ UNCHANGED <<cpu, cycleVars, clockVars, runCpu, runTimer, pauseCpu, pauseTimer,
                   cpuPaused, clientVars>>

TimerUnack ==                                        \* m_timerPaused = false
    /\ timer = "unack"
    /\ timer' = "signal"
    /\ timerPaused' = FALSE
    /\ UNCHANGED <<cpu, cycleVars, clockVars, runCpu, runTimer, pauseCpu, pauseTimer,
                   cpuPaused, clientVars>>

\* Slip: the CPU thread is notified and m_ready is not set.
TimerSignalUnready ==
    /\ timer = "signal"
    /\ timer' = "run"
    /\ cpu' = IF cpu = "asleep" THEN "wait" ELSE cpu
    /\ fed' = 0
    /\ UNCHANGED <<left, burst, clockVars, flagVars, clientVars>>

TimerSignal ==                                       \* sleep_for(), m_ready = true, notify_one()
    /\ timer = "signal"
    /\ timer' = "run"
    /\ ready' = TRUE
    /\ cpu' = IF cpu = "asleep" THEN "wait" ELSE cpu
    /\ fed' = 0
    /\ UNCHANGED <<left, burst, ticks, speed, flagVars, clientVars>>

TimerStep ==
    TimerRun \/ TimerPause \/ TimerAck \/ TimerUnack \/ TimerSignal

-----------------------------------------------------------------------------
(* The client thread: start(), stop(), and the operations that run in the  *)
(* scope of a Halt, which is a pause() and, at its end, a resume().        *)

\* The client moves from one label to the next.
ClientGoes(from, to) == client = from /\ client' = to

ClientStart ==                                       \* start(): the flags, m_thread
    /\ cpu = "none"
    /\ ClientGoes("idle", "start")
    /\ cpu' = "reset" /\ runCpu' = TRUE /\ runTimer' = TRUE
    /\ UNCHANGED <<cycleVars, timer, clockVars, pauseCpu, pauseTimer, cpuPaused, timerPaused,
                   task, config, link, stale, tainted>>

ClientStartTimer ==                                  \* start(): m_timer
    /\ ClientGoes("start", "idle")
    /\ timer' = "run"
    /\ UNCHANGED <<cpu, cycleVars, clockVars, flagVars, task, config, link, stale, tainted>>

ClientUpdate ==                                      \* Configuration::update(): set, broadcast
    /\ ClientGoes("idle", "pause")
    /\ \E key \in Keys : task' = key /\ config' \in Updates(config, key)
    /\ UNCHANGED <<threadVars, clockVars, flagVars, link, stale, tainted>>

ClientAccess ==                                      \* read() or write() of m_memory
    /\ ClientGoes("idle", "pause")
    /\ task' = "access"
    /\ UNCHANGED <<threadVars, clockVars, flagVars, config, link, stale, tainted>>

\* Slip: the timer is asked to pause together with the CPU.
ClientPauseBoth ==
    /\ ClientGoes("pause", "await.cpu")
    /\ pauseCpu' = TRUE /\ pauseTimer' = TRUE
    /\ stale' = IF cpuPaused /\ cpu # "none" THEN {"cpu"} ELSE {}
    /\ tainted' = (tainted \/ stale' # {})
    /\ UNCHANGED <<threadVars, clockVars, runCpu, runTimer, cpuPaused,
                   timerPaused, task, config, link>>

ClientPauseCpu ==                                    \* pause(): m_pauseCpu = true
    /\ ClientGoes("pause", "await.cpu")
    /\ pauseCpu' = TRUE
    /\ stale' = IF cpuPaused /\ cpu # "none" THEN {"cpu"} ELSE {}
    /\ tainted' = (tainted \/ stale' # {})
    /\ UNCHANGED <<threadVars, clockVars, runCpu, runTimer, pauseTimer, cpuPaused,
                   timerPaused, task, config, link>>

\* Slip: the CPU is asked to pause and not waited for.
ClientAwaitNoCpu ==
    /\ ClientGoes("await.cpu", "pause.timer")
    /\ UNCHANGED <<threadVars, clockVars, flagVars, task, config, link, stale, tainted>>

ClientAwaitCpu ==                                    \* pause(): while (!m_cpuPaused)
    /\ cpuPaused
    /\ ClientGoes("await.cpu", "pause.timer")
    /\ UNCHANGED <<threadVars, clockVars, flagVars, task, config, link, stale, tainted>>

ClientPauseTimer ==                                  \* pause(): m_pauseTimer = true
    /\ ClientGoes("pause.timer", "await.timer")
    /\ pauseTimer' = TRUE
    /\ stale' = IF timerPaused /\ timer # "none" THEN stale \cup {"timer"} ELSE stale
    /\ UNCHANGED <<threadVars, clockVars, runCpu, runTimer, pauseCpu, cpuPaused,
                   timerPaused, task, config, link, tainted>>

ClientAwaitTimer ==                                  \* pause(): while (!m_timerPaused)
    /\ timerPaused
    /\ ClientGoes("await.timer", "section")
    /\ UNCHANGED <<threadVars, clockVars, flagVars, task, config, link, stale, tainted>>

ClientSection ==                                     \* onConfigChange(): m_clock.setSpeed(),
    /\ client = "section"                            \* or m_link->stop(), m_link.reset()
    /\ speed' = IF task = "SPEED" THEN SpeedOf(config) ELSE speed
    /\ IF RestartsLink(config, task)
          THEN link' = "none" /\ client' = "relink"
          ELSE link' = link /\ client' = "resume.ticks"
    /\ UNCHANGED <<threadVars, ticks, ready, flagVars, task, config, stale, tainted>>

ClientRelink ==                                      \* onConfigChange(): initLink()
    /\ ClientGoes("relink", "resume.ticks")
    /\ link' = IF GetBool(config, task) THEN InitLink(config) ELSE link
    /\ UNCHANGED <<threadVars, clockVars, flagVars, task, config, stale, tainted>>

ClientResumeTicks ==                                 \* resume(): m_clock.reset(); the store is
    /\ ClientGoes("resume.ticks", "resume.cpu")      \* lost when it races with m_ticks += ticks
    /\ \/ ticks' = 0                                 \* or m_ticks %= m_speed
       \/ cpu \in {"cycle", "modulo"} /\ ticks' = ticks
    /\ fed' = 0
    /\ UNCHANGED <<cpu, left, burst, timer, speed, ready, flagVars, task, config, link, stale,
                   tainted>>

ClientResumeCpu ==                                   \* resume(): m_pauseCpu = false
    /\ ClientGoes("resume.cpu", "resume.timer")
    /\ pauseCpu' = FALSE
    /\ UNCHANGED <<threadVars, clockVars, runCpu, runTimer, pauseTimer, cpuPaused,
                   timerPaused, task, config, link, stale, tainted>>

ClientResumeTimer ==                                 \* resume(): m_pauseTimer = false
    /\ \/ task = "stop" /\ ClientGoes("resume.timer", "stop.run") /\ UNCHANGED task
       \/ task # "stop" /\ ClientGoes("resume.timer", "idle") /\ task' = "none"
    /\ pauseTimer' = FALSE
    /\ stale' = {}
    /\ UNCHANGED <<threadVars, clockVars, runCpu, runTimer, pauseCpu, cpuPaused,
                   timerPaused, config, link, tainted>>

ClientStop ==                                        \* stop() begins with a resume()
    /\ cpu # "none"
    /\ ClientGoes("idle", "resume.ticks")
    /\ task' = "stop"
    /\ UNCHANGED <<threadVars, clockVars, flagVars, config, link, stale, tainted>>

ClientStopRun ==                                     \* stop(): m_runCpu = false
    /\ ClientGoes("stop.run", "stop.link")
    /\ runCpu' = FALSE
    /\ UNCHANGED <<threadVars, clockVars, runTimer, pauseCpu, pauseTimer, cpuPaused,
                   timerPaused, task, config, link, stale, tainted>>

ClientStopLink ==                                    \* stop(): m_link->stop()
    /\ ClientGoes("stop.link", "join.cpu")
    /\ link' = IF link = "none" THEN "none" ELSE "stopped"
    /\ UNCHANGED <<threadVars, clockVars, flagVars, task, config, stale, tainted>>

ClientJoinCpu ==                                     \* stop(): m_thread.join(),
    /\ cpu = "done"                                  \* m_runTimer = false
    /\ ClientGoes("join.cpu", "join.timer")
    /\ cpu' = "none"
    /\ runTimer' = FALSE
    /\ UNCHANGED <<cycleVars, timer, clockVars, runCpu, pauseCpu, pauseTimer, cpuPaused,
                   timerPaused, task, config, link, stale, tainted>>

ClientJoinTimer ==                                   \* stop(): m_timer.join()
    /\ timer = "done"
    /\ ClientGoes("join.timer", "stopped")
    /\ timer' = "none"
    /\ UNCHANGED <<cpu, cycleVars, clockVars, flagVars, task, config, link, stale, tainted>>

ClientReplace ==                                     \* Screen::reset(): a new GameBoy
    /\ ClientGoes("stopped", "idle")
    /\ left' = 0 /\ burst' = 0 /\ fed' = 0 /\ task' = "none"
    /\ ticks' = 0 /\ speed' = SpeedOf(config) /\ ready' = FALSE
    /\ runCpu' = FALSE /\ runTimer' = FALSE
    /\ pauseCpu' = FALSE /\ pauseTimer' = FALSE
    /\ cpuPaused' = TRUE /\ timerPaused' = TRUE
    /\ link' = InitLink(config)
    /\ stale' = {} /\ tainted' = FALSE
    /\ UNCHANGED <<cpu, timer, config>>

\* What the client does of its own accord, and what completes a call it has made.
ClientCall == ClientStart \/ ClientUpdate \/ ClientAccess \/ ClientStop \/ ClientReplace

ClientStep ==
    \/ ClientStartTimer \/ ClientPauseCpu \/ ClientAwaitCpu \/ ClientPauseTimer
    \/ ClientAwaitTimer \/ ClientSection \/ ClientRelink \/ ClientResumeTicks
    \/ ClientResumeCpu \/ ClientResumeTimer \/ ClientStopRun \/ ClientStopLink
    \/ ClientJoinCpu \/ ClientJoinTimer

-----------------------------------------------------------------------------
\* After a fault nothing happens any more.
Crashed == cpu = "fault" /\ UNCHANGED vars

Next ==
    \/ CpuStep \/ CpuSpuriousWakeup \/ CpuAnswer
    \/ TimerStep \/ ClientCall \/ ClientStep \/ Crashed

Spec == Init /\ [][Next]_vars

\* The scheduler runs every thread that can run; nothing obliges the client to make a call,
\* m_cv to wake spuriously, or the other console to answer a transfer.
Fairness ==
    /\ WF_vars(CpuStep)
    /\ WF_vars(TimerStep)
    /\ WF_vars(ClientStep)

FairSpec == Spec /\ Fairness

-----------------------------------------------------------------------------
(* Properties                                                              *)

FlagsOK ==
    /\ ready \in BOOLEAN /\ tainted \in BOOLEAN
    /\ runCpu \in BOOLEAN /\ runTimer \in BOOLEAN
    /\ pauseCpu \in BOOLEAN /\ pauseTimer \in BOOLEAN
    /\ cpuPaused \in BOOLEAN /\ timerPaused \in BOOLEAN

LabelsOK == cpu \in CpuLabels /\ timer \in TimerLabels /\ client \in ClientLabels

DataOK ==
    /\ task \in ConfigKeys \cup {"none", "access", "stop"}
    /\ config \in Configs
    /\ left \in 0..CycleTicks /\ burst \in 0..CycleTicks /\ fed \in 0..Enough
    /\ ticks \in Counter /\ speed \in Speeds
    /\ link \in {"none", "running", "stopped"}
    /\ stale \in SUBSET {"cpu", "timer"}

\* Every variable has the type the declarations of gameboy.h give it; in particular m_ticks
\* keeps its width.
TypeOK == FlagsOK /\ LabelsOK /\ DataOK

\* A thread that is here executes nothing but the polling loop of a pause.
Parked == {"none", "pause", "ack"}

\* From the return of a wait for a ...Paused flag to the store that resumes the thread.
HoldsCpu == task # "stop" /\
    client \in {"pause.timer", "await.timer", "section", "relink", "resume.ticks", "resume.cpu"}
HoldsTimer == task # "stop" /\
    client \in {"section", "relink", "resume.ticks", "resume.cpu", "resume.timer"}

\* While a Halt is in force the CPU thread executes no instruction and no reset, provided
\* the acknowledgement that pause() waited for was not already raised when it asked.
CpuHaltIsExclusive == HoldsCpu /\ "cpu" \notin stale => cpu \in Parked

\* The same for the timer thread: no signal is on its way while a Halt is in force.
TimerHaltIsExclusive == HoldsTimer /\ "timer" \notin stale => timer \in Parked

\* Both, whichever of the two threads the call pauses and in whatever order they answer.
HaltsAreExclusive == CpuHaltIsExclusive /\ TimerHaltIsExclusive

\* As long as no pause() has been answered by an old acknowledgement, the process neither
\* divides by a speed that became TICKS_FREE under wait() nor calls through an m_link that
\* onConfigChange() reset after Clock::tick tested it.
NoFault == ~tainted => cpu # "fault"

\* At a paced speed the timer thread holds the CPU thread back: after one of its signals the
\* hardware is given less than two intervals (the signal may come just before an interval
\* begins and end that one, too) before the next signal, apart from what each Clock::tick
\* overshoots.  Only a resume() starts the count again, as it clears m_ticks (Clock::tick,
\* wait, executeTimer).
PacedHardware == speed # 0 /\ ~tainted /\ cpu \notin Parked => fed < 2 * (speed + CycleTicks)

\* "We need to guarantee that the CPU thread is done before we start messing with the
\* timer" (stop()): as long as the CPU thread has code to run, the timer keeps running.
TimerOutlivesCpu ==
    cpu \notin {"none", "done", "fault"} /\ client # "start" =>
        runTimer /\ timer \notin {"none", "done"}

\* Between two calls a link runs only if the settings ask for a socket link
\* (onConfigChange(), initLink()).
LinkObeysConfig ==
    client = "idle" /\ link = "running" => config.enable /\ config.type = "SOCKET"

\* The CPU thread does not stay in handlePending() for ever.
TransfersEnd == []<>(cpu # "answer")

\* A call of the client returns unless a transfer blocks the CPU thread for ever: a pause(),
\* because the CPU, which may be blocked in wait(), is waited for before the timer that must
\* wake it is asked to pause, and a stop(), because it joins the timer thread last.
CallsReturn == TransfersEnd => (client # "idle" ~> client \in {"idle", "stopped", "dead"})

\* Every wait() comes to its end, across pauses, resumes, stops and spurious wakeups: the
\* timer thread keeps signalling, sets what the CPU thread tests and wakes it (wait(),
\* executeTimer()).
IntervalEnds == cpu \in {"wait", "asleep"} ~> cpu = "modulo"

\* What onConfigChange() says it does: "we need to make sure that we pause the execution
\* of these two threads before we make any changes to the configuration".
HaltIsExclusive == HoldsCpu => cpu \in Parked

\* What onConfigChange() says of a changed port or address of an active socket link:
\* "fall through and restart the interface".
LinkIsRestarted ==
    client = "idle" /\ config.enable /\ config.type = "SOCKET" => link = "running"
=============================================================================

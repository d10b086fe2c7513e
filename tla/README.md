# A TLA+ verification of gbemu

gbemu (`src/`) is a Game Boy emulator in C++: an emulated console with a CPU, a
GPU, timers, memory, a cartridge, a joypad and a serial link to a second console
over TCP, a Qt user interface, and a second front end that serves the screen to a
web browser.  This directory holds TLA+ models of its control logic, the TLC runs
that check them and TLAPS proofs of what matters most.

Every module is translated from the C++ sources; the comment at a definition names
the function it stands for and `PROJECT.json` (`map`) gives its lines.
`tlc -config X.cfg M` checks a run, `tlapm M_proofs.tla` checks the proofs.

## 1. Inventory

Threads.  A console has a *CPU thread* (`GameBoy::run`), a *timer thread*
(`GameBoy::executeTimer`), and, when a serial link is configured, a *link thread*
(`SocketLink::executeServer` or `executeClient`).  The *UI thread* (Qt, `Screen`)
or the *server thread* (`GameServer::run`) starts and stops the console, changes
settings, presses buttons and takes frames.  Everything the hardware does runs on
the CPU thread, from `Clock::tick`.

| part | source | state | operations | talks to |
|---|---|---|---|---|
| GameBoy | `hardware/gameboy.*` | run/pause/paused flags, `m_ready`, `m_ticks`, `m_speed`, `m_link` | start, stop, pause, resume, read, write, onConfigChange; run/step/tick/wait; executeTimer | owns every other hardware part; listener of Configuration |
| Processor | `hardware/processor.*`, `opcodes.cpp` | registers, flags, IME, HALT | reset, cycle, interrupt, execute, the operations on operands | memory (fetch, operands), Clock::tick after each access |
| TimerModule | `hardware/timermodule.*` | DIV and TIMA tick counters | reset, cycle | the DIV, TIMA, TMA, TAC registers; interrupt TIMER |
| Interrupts | `hardware/interrupt.h` | the IE and IF registers | set, clear, get | GPU, timer, link, joypad set; the processor clears |
| GPU | `hardware/gpu.*` | mode, tick counter, frame buffers, tile and sprite caches | reset, cycle, write, getColorMap | LY, STAT and LYC registers; interrupts VBLANK, LCD; the UI thread takes frames |
| JoyPad | `hardware/joypad.*` | the buttons held | set, clr (UI thread), cycle (CPU thread) | the JOYP register (it raises no interrupt) |
| ConsoleLink, SocketLink | `hardware/consolelink.*`, `serial/socketlink_linux.*` | transfer state, tx and rx slots, connection | transfer, cycle (CPU thread); serverLoop, accept/connect loops (link thread); stop | the SB, SC registers; interrupt SERIAL; the peer console through TCP |
| MemoryController and regions | `hardware/memorycontroller.*`, `memory/*` | the regions, BIOS overlay, banks | read, write, peek, setCartridge; DMA in MappedIO | everything |
| Cartridge | `hardware/cartridge.*`, `memory/removable.*` | MBC registers, RAM banks, `.sav` file, clock latch | constructor, read, write, write-through of RAM to the file | memory controller; the file system |
| Configuration | `utility/configuration.*` | the settings, the listeners | parse, save, update, register/unregister, broadcast | GameBoy, the UI, the file system |
| Screen (UI) | `ui/*` | settings properties, stopped flag, the console | start, stop, reset, setters, keys, onTimeout | GameBoy, Configuration |
| GameServer | `server/*` | sockets | http, handleEvent (HTTP thread); websocket, handshake, send (websocket thread) | GameBoy, the browser |
| The page | `server/html/*` | `_connected`, `_keypress`, `_busy`, `_queue`, the websocket | key, mouse and socket handlers, `_send` and its `loadend` | GameServer, over HTTP and a websocket |

What makes each part correct, and what is hard about it:

* **GameBoy.** Whoever holds a `Halt` has the console to itself; every `wait()` ends, and
  `pause()` and `stop()` do if transfers end; what the hardware is given is paced by the
  timer thread; the link that runs is the one the settings ask for.  Hard: three threads with flags,
  one condition variable, and calls from a fourth thread at any moment.
* **Serial link.** The bytes of a transfer are exchanged once, in order, between the two
  consoles; a pending transfer that the peer answers ends.  Hard: four threads, two slots with flags,
  connections that break, processes that leave and come back.
* **GPU.** Frames are complete when handed over, keep coming, and are not torn; each
  line shows the right pixels.  Hard: left-over ticks, registers changed between
  cycles, caches, 8 bit coordinates, a second thread.
* **Processor, timer.** Interrupts are not lost and not nested by accident; what returns, returns to where it came from; no tick is lost.  Hard: devices
  run *inside* an instruction; handlers come between any two; frequencies change while a
  remainder is pending.
* **Memory, cartridge.** Every address has one meaning; banks select what the game
  asked for; a saved game survives crashes.  Hard: sequences of register writes,
  a file that is truncated before it is rewritten.
* **Server and page.** What the game reads for a key is what the player last did with it;
  frames keep flowing.  Hard: a request at a time from a queue, a server that serves a
  connection at a time, connections that break, pages that are reloaded, an acknowledgement
  read in the wrong size.
* **Settings.** They survive the program, through a text format with separators, values
  written by hand, full disks and crashes; exactly the console that is shown obeys them.

The hazards, each with its source line and the properties aimed at it, are listed in
`PROJECT.json` (`hazards`).

## 2. Modules and plan

| module | models | status |
|---|---|---|
| `GameBoy`, `GameBoy_proofs` | threads, Halt, clock pacing, link life cycle, settings | checked, safety proved |
| `SerialLink` implements `SerialExchange`; `SerialLink_proofs` | two consoles, their CPU and link threads, TCP | checked, safety and refinement proved |
| `Gpu`, `Gpu_proofs` | mode machine, LY, interrupts, hand-off of frames | checked, safety proved |
| `Scanline` | background, window and sprites of one line | checked, proved in `Gpu_proofs` |
| `Processor`, `MCProcessor`, `Processor_proofs` | interrupts, HALT, jumps, calls, the stack, ticks within an instruction | checked, safety proved |
| `Alu` | the arithmetic and its flags, by the opcode tables | checked, proved in `Processor_proofs` |
| `TimerModule`, `TimerModule_proofs` | DIV, TIMA, TMA, TAC at both speeds | checked, safety proved |
| `Cartridge`, `MCCartridge`, `Cartridge_proofs` | header, MBC1, MBC3, `.sav` file, clock latch | checked, safety proved |
| `Memory`, `Memory_proofs` | dispatch, banks, echo, BIOS overlay, DMA | checked, safety proved |
| `JoyPad` | the two nibbles and the register composed from them | operators of `GameServer` |
| `GameServer` | HTTP and websocket threads, the page, the browser | checked in `FrontEnds` |
| `Configuration` | settings, their file, listeners; `Screen` | checked in `FrontEnds` |
| `FrontEnds`, `MCFrontEnds`, `FrontEnds_proofs` | the two programs: server with page, user interface with file | checked, safety proved |

`SerialExchange` is the abstract specification: two players, each of which offers its
n-th byte and receives the other's n-th byte.  `SerialLink` instantiates it with a
refinement mapping.  `GameServer` extends `JoyPad`, and `FrontEnds` instantiates
`GameServer` and `Configuration`, the two ways to start a console.  The other modules stand
alone: the parts they model meet only in calls on the CPU thread (`Clock::tick`), and each
module takes its neighbours as nondeterministic inputs that include all the code can give
it (the processor's devices raise any interrupt in any tick; the GPU and the timer are
given any number of ticks an instruction can take; `GameServer` takes a frame of the
console whenever it is ready).

What is left to do, in this order:

1. A composition of `GameBoy`'s Halt with the frame hand-off of `Gpu`, and an abstract
   specification of the clock ("so many ticks per interval") that `GameBoy` implements.
2. The palette ports of `MappedIO`, tile data banks in `Scanline`, loads of SP in
   `Processor`.

## 3. The modules and the code

**GameBoy.**  One program counter per thread (`cpu`, `timer`, `client`); a label stands
for the next shared access, so that every load, store, lock, wait and notify the
threads can interleave at is a step of its own.  The CPU thread's labels follow `run()`,
`step()`, `Clock::tick()` and `wait()`; the timer's follow `executeTimer()`; the client
is whichever of the UI's or the server's threads is calling `start`, `stop`, `read`,
`write`, or `Configuration::update()`, which ends in `onConfigChange()`.  The callers
are one thread in both front ends, so one client is enough.  The interval of the timer
is a step that may happen at any time (`TimerSignal`: the sleep, `m_ready` and the notify):
no assumption is made about real time.  `m_link->cycle()` returns (`CpuLink`) or blocks in
`handlePending()` (the label "answer") until `CpuAnswer`, which nothing obliges to happen: when
the other console answers is `SerialLink`'s matter.  History: `tainted` remembers that a
`pause()` was satisfied by an acknowledgement older than itself; `fed` counts the ticks the
hardware was given since the timer's last signal.

**SerialLink.**  Both consoles with their CPU thread (`transfer()`, `cycle()`, which
blocks until the answer is there) and their link thread (server: listen, accept, loop;
client: connect, loop).  The game on each console decides when to start a transfer; one that is
`Impatient` also writes SC while a transfer is in progress, with the transfer bit (`Transfer`
again) or without it (`Withdraw`: the bit is gone and the transfer goes on).  TCP is external: bytes arrive in order
or the connection breaks; a backlog lets a client connect before the server accepts;
`connect()` on a connected socket fails.  Processes may quit and come back.

**Gpu.**  `Cycle(t)` is `GPU::cycle`, with one action for each mode handler followed by
`next()`; a frame is the set of lines drawn into it.  The game's writes to LCDC, STAT and
LY and the UI thread's `getRGB()` are the other actions.

**Scanline.**  One execution of `GPU::draw`: `DrawPixel` is a turn of the background
loop with its caches, `RenderSprite` a turn of the loop over the sorted sprites.  The
geometry is scaled (tiles of 2 x 2, a screen of 4 x 3, coordinates modulo 16) and every
pixel remembers where it was copied from.  `Sorted` is the list of visible sprites in the
order `drawSprites()` sorts them into.

**Processor.**  `Cycle` serves an interrupt or fetches an instruction with its operands from
`Code`; an action per group of instructions executes it; one that modifies memory is two
steps with a tick between them, in which devices raise interrupts.  Distinguished are the
instructions that touch the interrupt state, the order of execution or the stack, with the
program counter, SP, one register pair and the bytes of the stack, in the width of the
machine (`BYTE`).  The flags are abstracted: a conditional instruction is taken or not.
History: `frames` holds what each handler, routine and saved word is to go back to.  A game
is assumed to keep to `Sensible`: it returns with an address on the stack and pops a word.
`MCProcessor` is a game of 19 addresses that may hold several instructions each, whose
routine calls itself and whose handlers can be interrupted.

**Alu.**  Each instruction is an operator on bytes and flags; the state machine applies any of
them to the accumulator.  `Weight` is the table of `1 << i`.  The properties are laws: addition
of 16 bit numbers through carries, BCD addition through DAA, comparison as subtraction,
rotations undoing each other.

**TimerModule.**  `Cycle` is one call of `cycle()`, with its loop over the overflows of
TIMA as a recursive function; the game's register writes are the other actions.

**Cartridge.**  `mbc`, `m_hasBattery` and `RAM_BANKS` are what the constructor makes of the
header's type and RAM size; then the bank registers, and `initRAM()` as four steps (read,
truncate, rewrite, running), with the program ending or the disk failing before each.

**Memory.**  `Find` is the search through the list of regions; `CellOf` is the byte an
address leads to under the current banks; the two DMA engines copy byte by byte through
them, as the loops in `MappedIO::write` do, with addresses that wrap around in 16 bits (`At`).

**JoyPad, GameServer.**  One action per handler of the page, which a browser runs one at a
time; `HandleRequest` and `EndConnection` are the HTTP thread in the connection it serves;
`Ws...` are the websocket thread from one blocking call to the next.  The connections to the
HTTP port are a queue (`http`): the first is the one `http()` has accepted, and the browser
uses, opens and closes them as it likes.  The bytes of acknowledgements are counted (`acks`),
because the server reads 3 where a browser sends 7; a count above `ManyAcks` is no longer
told apart.  A connection that breaks may break with a request the server has received or
not; `lost` keeps the keys this leaves open.

**Configuration, FrontEnds.**  The steps of one change are those a crash can come between:
`Update` (value set, file truncated), `Save` (file written), `Broadcast`.  `Construct` and
`Load` are `Screen::reset()` around them, with the old console unregistered after the new one
has registered.  A value is the sequence of its pieces between colons, which `Reread` turns
into what `split()` and `join()` make of it; a line written by hand may have any type.
`FrontEnds` chooses one of the two programs at the start.

## 4. The runs

| run | shows | bounds |
|---|---|---|
| `gameboy` | Halt excludes the threads that acknowledged it, no fault, pacing, the link follows the settings; every `wait()` ends, and every call if transfers end | intervals of 1 and 2 ticks, cycles of 2, a counter of 4 values; speed, type and use of the link change |
| `link` | while no connection broke, byte n meets byte n (refinement) and no byte is overwritten; the transfer bit is set only while something will clear it; every undisturbed exchange ends, and a CPU thread whose link thread is at work is freed when the connection is lost | 2 transfers a side, the client's restarted or taken back as well; 2 ends of processes; a server that is stopped |
| `gpu` | whole frames, one interrupt each, in order; a blank is repeated at most once; frames keep coming | 2 visible lines, 8 values of LY, steps that do not divide the modes |
| `scanline` | every pixel is the right one of its layer or sprite, and no sprite in front is missing | scaled geometry, all boundary positions, 2 sprites |
| `processor` | returns and pops restore, handlers run alone, no lost interrupt outside a read-modify-write, HALT ends | 2 sources, bytes of 6 values, handlers 2 deep, 2 calls or saved words, a stack of 4 words |
| `alu` | the arithmetic laws | all accumulators and flags, 28 boundary operands |
| `timer_module` | no tick lost, TIMA goes around and raises exactly when it does, DIV runs | 4 values a register, periods 2, 4, 8 |
| `cartridge` | selectable banks, progress kept | 5 headers: both controllers, with and without battery, 0, 1 and 4 RAM banks; 5 register values; 1 crash |
| `memory` | one byte per address, DMA copies | regions of 1 to 6 addresses, 3 banks of working RAM and a selection beyond them |
| `front_ends` | keys arrive, in order; a connected page reads frame after frame; settings survive; the console shown obeys | 2 keys of different groups, one also by mouse; 2 queued events, 2 spare connections, 2 frames in TCP's buffers, 1 fault; 3 paths, 4 lines by hand, 3 kinds of disk |

Every module with a specification of its own but `FrontEnds` has a type invariant `TypeOK`
(`LineTypeOK` in `Scanline`, `AluTypeOK` in `Alu`: the names of these two differ from those of
`Gpu` and `Processor`, so that a module of proofs can extend both); the runs check that of
`GameBoy`, whose counter could leave its width.  The others say no more than their declarations;
adding `TypeOK` to a cfg's INVARIANTS checks one.

Why these are enough.  Small periods and registers wrap and overflow within a few steps,
and steps that do not divide the periods leave every remainder.  Two transfers let a
slot be used, and reused before or after it was emptied.  Two ends of processes let a
connection be lost, replaced and lost again.  Two sprites are what a comparison
and an overlap need, and the coordinates contain each side of every comparison in the
code.  Two handlers nest, and two sources have a first and a last.  Two bytes of the values
0 to 5 carry and wrap, and the stack of the game reaches all of its words.  Two events in a
queue and one on its way can be overtaken, repeated and lost; two connections make one wait
for the other; the second of two frames in the buffers is what a client that does not keep
up leaves there.  In `GameServer` a player either uses the keys or watches (`playing`):
events and frames share nothing but the page, and one fault that hits both, a reload or a
reconnection, is explored with either.

Two runs end in a violation and show where the code departs from what its own comments
promise (`findings` in `PROJECT.json`):

| run | what happens |
|---|---|
| `gameboy_halt_race` | `m_cpuPaused` left over from an earlier pause satisfies the next one |
| `link_stop` | stopping a console during a transfer hangs in `join()` |

Further departures.  These definitions state what a comment or an assertion promises and
do not hold either; naming one in the INVARIANTS (for an action formula, the PROPERTIES) of the
module's cfg, with the constants given here, shows how.

| definition | what happens | constants |
|---|---|---|
| `GameBoy!LinkIsRestarted` | changing the port of a running link destroys it and starts none | `Keys = {"LINK_PORT", "LINK_ENABLE"}` |
| `SerialLink!EveryDropFrees` | a connection replaced between two polls of `m_connected` hides its loss; the link thread, with nothing to send, does not notice the loss of the new one either, and the CPU thread waits for ever | those of the run |
| `Gpu!WholeFrames` | the lock of `getColorMap()` ends before the frame is moved | those of the run |
| `Cartridge!AccessInRange` | `m_ramBank` may name a bank that `m_ram` does not have: an MBC1 takes 0 to 7, a small RAM has one or none | those of the run |
| `Cartridge!UpperBitsFollow` | upper bits of an MBC1 ROM bank can be set but not cleared | those of the run |
| `Cartridge!DayInNineBits` | the ninth bit of the day is taken from bit 7 | those of the run |
| `GameServer!WaitsForClient` | the stream is to go on "if the client can keep up" (`gameserver.cpp:116-119`), but one acknowledgement of 7 bytes is read as three | name `WaitsForClient == Web!WaitsForClient` in a module that extends `MCFrontEnds`; those of the run |
| `GameServer!PageReconnects` | a connection closed without an error is never opened again, `onError()` alone does that | the same way (`Web!` or `Ui!`) |
| `GameServer!NoStuckKey` | a page reloaded with a key down leaves it down in the console | the same way (`Web!` or `Ui!`) |
| `Configuration!ResetKeepsRom` | "reset" goes back to the ROM of the start, as `setROM()` does not set `m_rom` | the same way (`Web!` or `Ui!`) |
| `Configuration!NoSettingLost` | the end of the process within `save()` loses all settings | the same way (`Web!` or `Ui!`) |
| `Scanline!PriorityOnTop` | the sprite of the highest priority is drawn first, so below the others (`LastDrawnIsOnTop` states what the code does instead, and holds) | those of the run |
| `Scanline!BehindTheBackground` | priority over the background is judged from the display, sprites included | `Shades = {0, 1}` |
| `Memory!NeverUnhandled` | a DMA from the cartridge ends in the assertion of `FATAL` | `Pages = {0}` |
| `Memory!BankExists` | a bank register value above the last bank fails an assertion | those of the run |
| `Memory!EveryTransferCopies` | every second transfer into video RAM is dropped | those of the run |

Met while modelling, and not stated as a property:

* A transfer whose peer does not answer blocks the CPU thread for as long: `pause()`, and with
  it every access of the client and every change of a setting, waits for that
  (`GameBoy!TransfersEnd` is the premise of `CallsReturn`), and `link_stop` shows the case
  that never ends.
* `resume()` clears `m_ticks`, so a client that goes on calling lets the CPU start its interval
  again and again: `PacedHardware` counts from the last resume.
* A game that restarts a transfer before it is answered finds the answer to the first in the
  slot of a later one, and the consoles may stay a byte apart.
* A setting of another type in a file written by hand can never be changed again
  (`update()` refuses it); a path with an empty piece ("::") loses it when it is read.
* Two programs that share `gbemu.config` lose each other's changes: each saves all settings.
* With both groups of buttons selected the joypad register shows only the directions.
* RAM size bytes 4 and 5, which larger cartridges have, throw in `RAM_SIZES.at()`; 1 leaves
  no bank of RAM.
* `Processor::reset()` does not clear `m_halted`; the consoles are constructed anew, so no run
  meets it.

Fairness.  `gameboy` and `link` assume weak fairness of each thread: the operating system
schedules a thread that can run.  `CpuAnswer` of `GameBoy`, the end of a transfer, is not fair.  A client's *calls* are not fair, only the steps within one.
`CpuExit` of `SerialLink` has strong fairness: `m_runCpu` is polled in a loop whose other
steps keep disabling it.  `gpu` assumes that `cycle()` with a display switched on is called
again and again; its display may be switched off between any two calls.  `processor` assumes
that cycles go on and instructions end.  `front_ends` assumes that the threads of the server
run, that the page's handlers are called for what has happened, that a browser in the end
closes an idle connection (all do, after minutes at most; without it a request on a second
connection would wait for ever, as `http()` never closes one), and that a console that is
watched finishes frames (`FramesKeepComing` of `Gpu`).

Deadlock is checked except where a run's bound really ends the behaviour: transfers used up
(`link`), a line drawn (`scanline`), a program stopped by an assertion (`memory`), the
counted ticks used up (`timer_module`), and a page whose connection was closed and whose
player does nothing more (`front_ends`).

## 5. The proofs

`GameBoy_proofs` proves for every interval length, cycle length and counter width (the
only assumption is `GameBoyAssumption`) that the console keeps

* `TypeCorrectness`: the types of all variables;
* `HaltExclusion`: a Halt answered by fresh acknowledgements excludes both threads;
* `FaultFreedom`: without a stale acknowledgement there is no division by a zero speed and
  no call through a reset link;
* `Pacing`: between two signals of the timer thread the hardware is given less than two
  intervals, and what two calls of `Clock::tick` overshoot;
* `StopOrder`: the timer thread outlives the CPU thread, which needs its signals;
* `LinkConformity`: a link runs only if the settings ask for it.

None of these is inductive alone.  The invariant `Inv` adds which pause flags the
client's position implies (`ClientInv`), that an acknowledgement is only raised by a
parked thread or is stale (`FlagInv`, `AckInv`), and that what the CPU thread has
*tested* (a non-zero speed, a link that is there) still holds while it uses it unless
`tainted` (`TestedInv`).  For the pacing, `PaceInv` bounds what was given since the last
signal by where the CPU thread is: within an interval by `m_ticks` and, if `m_ready` has been
taken since, the interval that it ended (`Slack`); with `m_ready` raised no interval has ended
since the signal.  It uses that `m_ticks` does not wrap within an interval (`Modulus` in
`GameBoyAssumption`).  That is the core of the argument: speed and link change only
under a Halt, under a Halt the CPU thread is in its polling loop, and there it holds no
tested value.  The link's part (`LinkInv`) is by cases on the setting that changes.  There
is one lemma per conjunct, with one step per group of actions that can disturb it.

`SerialLink_proofs` proves, for any number of transfers and restarts, whether or not games
are impatient and whichever links may be stopped (`SerialLinkAssumption`),

* `TypesHold`; and `AnswersAreKept`, that a byte announced to the CPU thread is read before
  the next is stored;
* `TransferBitIsRight`: the transfer bit of SC is set only while `check()` has an answer to
  give, after which it is cleared, which needs that the CPU thread is on its way through a transfer while that is pending;
* `LinkIsAnExchange`: `Spec` implements `SerialExchange`.

The invariant follows a byte.  `Stage` lists the four ways a transfer in progress can stand:
being offered by the CPU thread, with the link thread, announced, taken.  From them follows
how many bytes a console has written to its connection and how many it has read (`Sent`,
`Got`), and `Carries` says that what is on the connection, in the accept queue too, is
exactly those between, in order.  So the byte that is read is the peer's of the same number,
and the peer has begun that transfer: the step `Answer` of the abstract exchange.  All this
holds until the link is disturbed; then the exchange promises nothing.

`Processor_proofs` proves, for every program, any number of sources, any addresses and any
depth of nesting, `HandlersAreAlone` and `NoInterruptIsLost`.  Their
invariant adds that interrupts are enabled only while every handler on the stack has enabled
them, so that one that did not is the innermost; that what a fetched RET, RETI or POP
relies on is still there when it is executed; and that between the read and the write of a
modification the flags have only grown by what was raised.

`ReturnsDoRestore` is about the stack.  `StackInv` says that SP lies two bytes below the
stack's top for each frame and that the two bytes of each frame are the word it is to go back
to; so every push writes below all words that are still needed, and every return finds its own.
The addresses wrap around, and what keeps two slots apart is that there are fewer of them than
addresses: `ProcessorAssumption` asks that the game leaves its stack as much room as its
nesting needs (`2 * (MaxDepth + MaxCalls)` bytes of RAM below `StackTop`, none of them code).
The code has no such check: a game that overruns its stack destroys its own data.

The second half of `Processor_proofs` is about `Alu`, for all bytes, operands and flags:
`DecimalsAdjust` and `OperationsDoAgree`.  A lemma for each instruction says what value and
flags it returns (`AddFields`, `SubFields`, ...), after which the laws are facts about
integers.  `DecimalSum` and `DecimalDifference` follow the two digits with their carry;
`Bits` writes a byte as the sum of its weighted bits, from which the laws of AND, OR, SET and
RES follow digit by digit.  `AluHolds` is the invariant behind them: no instruction of either
opcode table leaves the accumulator wider than a byte.

`TimerModule_proofs` proves, for every even period, every width of the registers and every
step shorter than half a period of the divider (`TimerAssumption`; a step is a `uint8_t`
and the period, `RTC_INCREMENT`, 512), `NoTickIsLost`, that ticks and their account agree through
all changes of TAC, TIMA and the speed, and `DividerKeepsRunning`.  `OverflowsRaise` is about
the loop over the increments of TIMA: after n turns the counter is where a counter that goes
around from TMA is, and the interrupt is raised exactly if it has gone around (`Counted`), which
is an equation with a remainder by a number that is not a constant (`NextRemainder`).  That takes an induction over the turns of
the loop, which is carried out on the *set* of turns for which the claim holds
(`SetInduction`, from the well-foundedness of `<`), with the values of the recursive function
from `Iteration`.  The lemmas about this appear in each module that needs them.

`Gpu_proofs` proves, for all lengths of modes, numbers of scanlines and steps shorter than a
mode (`GpuAssumption`; the steps are those of one instruction, and the shortest mode is
longer), `LinesInOrder`, `OneInterrupt`, `BlankEnds` and the bounds of the counters
(`TypesHold`).  `DrawInv` says which lines the buffer holds for each pair of a mode and the
mode bits of STAT, which lag one step behind.  `BlankInv` keeps LY's account in a vertical
blank: the scanlines counted, times their length, are behind the ticks by less than one
scanline, which is what the step into the blank may have left over; so the second period of
the blank, at the latest, finds all scanlines counted.

The second half of `Gpu_proofs` is about `Scanline`, for screens and tiles of any size and any
number of sprites anywhere (`ScanlineAssumption`: a tile divides the 8 bit coordinates, and the
screen with a tile on each side is smaller than they are).  `BackgroundIsRight`: each pixel of
background and window is the one of the map, whatever the tile caches hold. `BackgroundInv` says
that a cache holds the row of the tile it names, of the line that is drawn; a column whose tile
differs is looked up again.  `SpritesRight`: `SpriteInv` says that what has been drawn comes
before what is still in the queue, that each pixel that names a sprite is that sprite's
(`SpritePlace`, `SpriteRow`: the flipped rows and columns and the ones off the screen), and that an opaque pixel of a sprite in front of the background is only covered by one drawn later.  The
sort is any list of the visible sprites in the order of the comparison; that there is one is
proved by induction over their number (`Sortable`).

`Cartridge_proofs` proves, for all headers, bytes, contents and numbers of crashes,
`RomBankIsSelected` and `SavedGameSurvives`.  For the
saved game, `SaveInv` says for each phase of `initRAM()` and `writeRAM()` what memory, file
and progress have in common: memory holds the progress whenever the program runs, the file
does whenever it is neither truncated nor being written, and lacks exactly the selected bank
while it is.

`Memory_proofs` proves `HandledOnce` (`EveryAddressIsHandledOnce`) and `OnlyTheEchoAliases`
(`EchoAlone`) for regions of every size, from no more than that each has an address, the working
RAM has two equal halves and its echo is shorter than itself.  The first is a fact about the
offsets (`RegionSpans` turns `isAddressed()` into intervals); the second needs that the bank
register holds a number, and rests on `Halves`: `bank()` never gives the upper half the bank of
the lower one.  `TransfersDoCopy`: a transfer that no assertion
stops copies each of its bytes; one into video RAM does if it ends there and does not come
to read what it has itself written, and it changes no other byte.  `CopyHolds` says what memory holds after each turn of the loop.  The
assumption asks of the table of sprites that it begins a page, and of a page register that its
page lies within memory, as memmap.h has it.

`FrontEnds_proofs` proves `SettingsSurviveHolds`, `ConsoleObeysHolds` and `KeysInOrderHolds`
for all keys, paths, files and connections (`FrontEndsAssumption`: values have at least one
piece).  For the settings, `UiInv` adds that exactly the console that is shown is registered,
and that `Reread` gives back a value without empty pieces but the last (`PlainRereads`).
For the keys, `WebInv` adds `OneAfterTheOther`: the page has at most one request with an event
on its way, on one connection, and what follows is in its queue; so the server cannot
see two events in another order than the page sent them, unless a connection broke (`lost`).

Every safety property of the passing runs is proved.  Only model-checked: all liveness, as fairness
and ENABLED are beyond the prover (`CallsReturn` and `IntervalEnds` of `gameboy`,
`ExchangeCompletes` and `DropFrees` of `link`, `FramesKeepComing` of `gpu`, `PendingEndsHalt`
of `processor`, `KeysArrive` and `StreamFlows` of `front_ends`), and the type invariants
of the modules no theorem names.  The two runs that end in a violation need no proof.

## 6. Not modelled

* The user interface beyond what `Configuration`, `Gpu` and `GameBoy` have of it: the
  toolkit's painting, menus and key events, QML.
* The texts of HTTP and of the websocket's handshake, files that are served, `stop()` of the
  server, which only its destructor calls at the end of the process.
* Six of the eight settings in `Configuration` (they are treated alike; `GameBoy` has what
  the link's and the speed do), lines of the file that `parse()` skips.
* In `Gpu` the LY=LYC interrupt, and in `JoyPad` its interrupt: the code has neither.
* Tile and palette *contents*, the palette data ports, BIOS images: data.
* Instructions that only move data, and loads of SP (`Processor` has the former as "other";
  `Alu` has the arithmetic).
* The pipe link and `ipc/`, which no program builds, and the Windows links, which are
  empty; base64, SHA-1; logging; build files; the unit tests.
* Real time: an interval of the timer may end at any moment.

----------------------------- MODULE FrontEnds -----------------------------
(***************************************************************************)
(* The two programs that give a console to a user: the one with the user   *)
(* interface (module Configuration) and the web server (GameServer), which *)
(* parses the settings when it starts and changes none.  They share no     *)
(* state but the file, so that either is explored by itself.               *)
(***************************************************************************)
EXTENDS Naturals, Sequences

CONSTANTS
    KeyCodes, Mouse, MaxQueue, MaxSpare, MaxFrames, MaxFaults,   \* of GameServer
    Roms, HandWritten                                            \* of Configuration

VARIABLES
    program,                                         \* which of the two is run
    connected, keypress, busy, queue, retry, socket, http, shadow, ws, whole,
    frames, acks, frame, playing, asked, lost, faults,
    file, disk, settings, handlers, console, speed, rom, mRom, path, ui

Web == INSTANCE GameServer
Ui  == INSTANCE Configuration

\* The keys have codes, a path has a piece at least, and lines of the file have a type.
ASSUME FrontEndsAssumption ==
    /\ KeyCodes \subseteq DOMAIN Web!GAME_KEY_MAP
    /\ \A r \in Roms : r \in Seq(STRING) /\ r # <<>>
    /\ \A h \in HandWritten : /\ h \in [type : {"string", "int", "bool"}, value : Seq(STRING)]
                              /\ h.value # <<>>

webVars == <<connected, keypress, busy, queue, retry, socket, http, shadow, ws, whole,
             frames, acks, frame, playing, asked, lost, faults>>
uiVars == <<file, disk, settings, handlers, console, speed, rom, mRom, path, ui>>
vars == <<program, webVars, uiVars>>

Init ==
    /\ Web!Init /\ Ui!Init
    /\ \/ program = "gbemu" /\ ~playing
       \/ program = "server" /\ DOMAIN file = {} /\ disk = "good"

Next ==
    \/ program = "gbemu" /\ Ui!Next /\ UNCHANGED <<program, webVars>>
    \/ program = "server" /\ Web!Next /\ UNCHANGED <<program, uiVars>>

Spec == Init /\ [][Next]_vars /\ (program = "server" => Web!Fairness)

-----------------------------------------------------------------------------
(* The properties of the two modules, where they are explained.            *)

\* Keys are neither lost nor reordered between the page and the register of the joypad.
KeysInOrder == Web!KeysInOrder

\* They do arrive, although http() serves one connection at a time.
KeysArrive == Web!KeysArrive

\* Frames keep reaching a page that is connected, or connects again (websocket(), send()).
StreamFlows == program = "server" => Web!StreamFlows

\* A process starts with the settings the last one had, except after a crash in save().
SettingsSurvive == Ui!SettingsSurvive

\* The console that is shown listens to the settings and obeys them (update(), reset()).
ConsoleObeys == Ui!ConsoleObeys
=============================================================================

---------------------------- MODULE Configuration ----------------------------
(***************************************************************************)
(* The settings (utility/configuration.cpp) of the program with the user   *)
(* interface (ui/main.cpp, ui/screen.cpp): they are parsed from            *)
(* gbemu.config when it starts, changed through Screen, saved after every  *)
(* change and broadcast to the consoles that listen.  The process may end  *)
(* at any point, and starts again.                                         *)
(*                                                                         *)
(* Abstracted: the settings but the ROM and the speed, comments and lines  *)
(* that parse() skips, and what a console does with a change (module       *)
(* GameBoy).  A value is the sequence of the pieces between its colons.    *)
(***************************************************************************)
EXTENDS Naturals, Sequences, SequencesExt, Functions

CONSTANTS
    Roms,         \* the paths of ROM files the user chooses
    HandWritten   \* settings that a file written by hand may contain

NoRom == <<"">>
Speeds == {<<"0">>, <<"1">>, <<"2">>}                \* NORMAL, 2X, FREE
Keys == {"ROM", "SPEED"}

VARIABLES
    file,         \* the lines of gbemu.config: a setting for some of the keys
    disk,         \* "good", "full", or "locked": the file cannot be opened to write
    settings,     \* m_settings
    handlers,     \* m_handlers
    console,      \* m_console: the number of the GameBoy, of two that take turns
    speed,        \* its Clock::m_speed
    rom,          \* the ROM it has loaded
    mRom,         \* m_rom of Screen
    path,         \* the path reset() is called with, or none
    ui            \* where the thread of the user interface is

vars == <<file, disk, settings, handlers, console, speed, rom, mRom, path, ui>>

NoPath == <<>>

Setting(type, value) == [type |-> type, value |-> value]

\* DEFAULT_CONFIG.
Default == [ROM |-> Setting("string", NoRom), SPEED |-> Setting("int", <<"2">>)]

\* Util::split() and Util::join(): empty pieces are dropped, but for the last.
Reread(value) ==
    LET n == Len(value)
        kept[i \in 0..n] == IF i = 0 THEN <<>>
                           ELSE IF i # n /\ value[i] = "" THEN kept[i - 1]
                           ELSE Append(kept[i - 1], value[i])
    IN kept[n]

\* parse(): a line replaces the setting of its key, and with it the type.
Parse(lines) ==
    [k \in Keys |-> IF k \in DOMAIN lines
                       THEN [lines[k] EXCEPT !.value = Reread(@)]
                       ELSE Default[k]]

\* getEnum() and readSpeed(), through the toInt() of the type.
SpeedOf(s) == IF s.type = "string" THEN <<"0">>
              ELSE IF s.type = "bool" /\ s.value # <<"1">> THEN <<"0">>
              ELSE s.value

Init ==
    /\ file \in UNION {[ks -> HandWritten] : ks \in SUBSET Keys}
    /\ \A k \in DOMAIN file : file[k].type = "string" <=> k = "ROM"
    /\ disk \in {"good", "full", "locked"}
    /\ settings = Default /\ handlers = <<>>
    /\ console = 0 /\ speed = <<"0">> /\ rom = NoRom
    /\ mRom = NoRom /\ path = NoPath
    /\ ui = "off"

-----------------------------------------------------------------------------
\* main() parses the file, and the constructor of Screen calls reset() with the ROM of the
\* settings or of the command line.
Start ==
    /\ ui = "off"
    /\ settings' = Parse(file)
    /\ mRom' \in Roms \cup {settings'["ROM"].value}
    /\ path' = mRom'
    /\ ui' = "reset"
    /\ UNCHANGED <<file, disk, handlers, console, speed, rom>>

\* Slip: the settings are saved before the value is set.
UpdateSavesFirst(key, value, otherwise) ==
    IF settings[key].type # Default[key].type
       THEN ui' = otherwise /\ UNCHANGED <<settings, file>>
       ELSE /\ settings' = [settings EXCEPT ![key].value = value]
            /\ file' = IF disk = "locked" THEN file ELSE settings
            /\ ui' = "broadcast"

\* update() up to the opening of the file in save(), which truncates it; a setting of
\* another type is refused.
Update(key, value, otherwise) ==
    IF settings[key].type # Default[key].type
       THEN ui' = otherwise /\ UNCHANGED <<settings, file>>
       ELSE /\ settings' = [settings EXCEPT ![key].value = value]
            /\ file' = IF disk = "locked" THEN file ELSE << >>
            /\ ui' = IF disk = "locked" THEN "broadcast" ELSE "save"

\* save(): what the stream is given reaches the file when it is closed.
Save ==
    /\ ui = "save"
    /\ file' = IF disk = "full" THEN file ELSE settings
    /\ ui' = "broadcast"
    /\ UNCHANGED <<disk, settings, handlers, console, speed, rom, mRom, path>>

\* broadcastUpdate(), onConfigChange(): the speed is read again when that is the setting that
\* changed; with a path to load it is the ROM.
Broadcast ==
    /\ ui = "broadcast"
    /\ speed' = IF path = NoPath /\ console \in Range(handlers)
                   THEN SpeedOf(settings["SPEED"]) ELSE speed
    /\ ui' = IF path = NoPath THEN "idle" ELSE "load"
    /\ UNCHANGED <<file, disk, settings, handlers, console, rom, mRom, path>>

\* Slip: a console that is destroyed stays registered.
ConstructKeepsOld ==
    /\ ui = "reset"
    /\ console' = 1 - console
    /\ handlers' = Append(handlers, console')
    /\ speed' = SpeedOf(settings["SPEED"]) /\ rom' = NoRom
    /\ IF path = NoRom THEN ui' = "load" /\ UNCHANGED <<settings, file>>
       ELSE Update("ROM", path, "load")
    /\ UNCHANGED <<disk, mRom, path>>

\* Screen::reset(): the new GameBoy reads the speed and registers itself, the old one is
\* unregistered when it is replaced, and a path that is not empty becomes the setting.
Construct ==
    /\ ui = "reset"
    /\ console' = 1 - console
    /\ handlers' = RemoveFirst(Append(handlers, console'), console)
    /\ speed' = SpeedOf(settings["SPEED"]) /\ rom' = NoRom
    /\ IF path = NoRom THEN ui' = "load" /\ UNCHANGED <<settings, file>>
       ELSE Update("ROM", path, "load")
    /\ UNCHANGED <<disk, mRom, path>>

Load ==                                              \* load() and start()
    /\ ui = "load"
    /\ rom' = path /\ path' = NoPath
    /\ ui' = "idle"
    /\ UNCHANGED <<file, disk, settings, handlers, console, speed, mRom>>

SetSpeed(value) ==
    /\ ui = "idle"
    /\ Update("SPEED", value, "idle")
    /\ UNCHANGED <<disk, handlers, console, speed, rom, mRom, path>>

\* setROM() of a chosen file, or reset() of the menu, which goes back to m_rom.
Reset(to) ==
    /\ ui = "idle"
    /\ path' = to /\ ui' = "reset"
    /\ UNCHANGED <<file, disk, settings, handlers, console, speed, rom, mRom>>

\* The process ends, in the middle of a save() or not; only the file remains.
End ==
    /\ ui # "off"
    /\ ui' = "off" /\ handlers' = <<>> /\ settings' = Default
    /\ speed' = <<"0">> /\ rom' = NoRom /\ mRom' = NoRom /\ path' = NoPath
    /\ UNCHANGED <<file, disk, console>>

Next ==
    \/ Start \/ Construct \/ Save \/ Broadcast \/ Load \/ End
    \/ \E v \in Speeds : SetSpeed(v)
    \/ \E r \in Roms \cup {mRom} : Reset(r)

Spec == Init /\ [][Next]_vars

-----------------------------------------------------------------------------
(* Properties                                                              *)

\* A value that the format of the file can express.
Plain(value) == \A i \in 1..(Len(value) - 1) : value[i] # ""

\* Whenever the process ends, but between the two steps of save(), the next one starts with
\* the settings this one had, however they were read, changed, refused and saved before.
SettingsSurvive ==
    ui \notin {"off", "save"} /\ disk = "good" =>
        \A k \in Keys : Plain(settings[k].value) => Parse(file)[k] = settings[k]

\* Through every reset() exactly the console that is shown listens to the settings, and runs
\* at the speed they name.
ConsoleObeys ==
    ui = "idle" => handlers = <<console>> /\ speed = SpeedOf(settings["SPEED"])

-----------------------------------------------------------------------------
(* What the code does not keep, see the README.                            *)

\* "Reset" starts the game again that runs.
ResetKeepsRom == ui = "idle" => mRom = rom

\* The end of the process does not lose settings.
NoSettingLost == [][ui = "save" /\ disk = "good" /\ ui' = "off" => file' = settings]_vars
=============================================================================

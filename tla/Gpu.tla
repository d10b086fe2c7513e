-------------------------------- MODULE Gpu --------------------------------
(***************************************************************************)
(* The mode machine of the GPU (src/src/hardware/gpu.cpp), which the CPU   *)
(* thread advances from Clock::tick(), and the hand-off of finished frames *)
(* to the thread of the user interface.                                    *)
(*                                                                         *)
(* Abstracted: the pixels.  Drawing a scanline puts its number into the    *)
(* buffer, so that a frame is the set of scanlines drawn into it.          *)
(***************************************************************************)
EXTENDS Integers

CONSTANTS
    OAM_TICKS, VRAM_TICKS, HBLANK_TICKS, VBLANK_TICKS,   \* the lengths of the modes
    PIXELS_PER_COL,   \* the scanlines of a frame
    SCANLINE_MAX,     \* the scanline that ends a vertical blank
    LY_VALUES,        \* the values of the byte LY: 256, or fewer in a small instance
    Steps,            \* the numbers of ticks one cycle() can be given
    Controls          \* what happens beside cycle(): some of "LCD" (the game switches the
                      \* display), "STAT" (chooses interrupts), "LY" (writes LY), and "UI"
                      \* (the user interface fetches frames)

SCANLINE_TICKS == VBLANK_TICKS \div (SCANLINE_MAX - PIXELS_PER_COL)

ASSUME GpuAssumption ==
    /\ Steps \subseteq Nat \ {0}
    /\ LY_VALUES \in Nat /\ PIXELS_PER_COL \in Nat \ {0}
    /\ SCANLINE_MAX \in (PIXELS_PER_COL + 1)..(LY_VALUES - 1)
    /\ \A t \in {OAM_TICKS, VRAM_TICKS, HBLANK_TICKS, VBLANK_TICKS, SCANLINE_TICKS} :
          t \in Nat \ {0} /\ \A s \in Steps : s < t

VARIABLES
    state,        \* m_state
    mode,         \* the mode bits of STAT (m_status & RENDER_MODE)
    ticks, vscan, \* m_ticks, m_vscan
    scanline,     \* LY, m_scanline
    enabled,      \* is the display enabled (LCDC)?
    sources,      \* the interrupt sources enabled in STAT
    flags,        \* the GPU's bits of the interrupt flags register
    buffer,       \* the scanlines drawn into m_buffer
    screen,       \* m_screen: a set of scanlines, Empty, or Torn
    ui,           \* the UI thread in getRGB(): "idle", "move", or "show"
    frame,        \* the frame the UI thread took
    tampered,     \* history: LY was written, and no frame has ended at its last line since
    periods       \* history: VBLANK_TICKS periods of the current vertical blank (at most 3 counted)

renderVars == <<state, mode, ticks, vscan, scanline, flags, buffer>>
uiVars == <<ui, frame>>
vars == <<renderVars, enabled, sources, screen, uiVars, tampered, periods>>

Modes == {"HBLANK", "VBLANK", "OAM", "VRAM"}
Lines == 0..(PIXELS_PER_COL - 1)
Empty == {-1}     \* a buffer that has been moved from
Torn == {-2}      \* one that two threads have written at once

\* GPU::GPU() and reset(), with the display switched on.
Init ==
    /\ state = "OAM" /\ mode = "OAM"
    /\ ticks = 0 /\ vscan = 0 /\ scanline = 0
    /\ enabled = TRUE /\ sources = {} /\ flags = {}
    /\ buffer = {} /\ screen = Lines
    /\ ui = "idle" /\ frame = Empty
    /\ tampered = FALSE /\ periods = 0

-----------------------------------------------------------------------------
\* The STAT interrupt of a mode that has just been entered.
Raise(source) == IF source \in sources THEN {"LCD"} ELSE {}

\* next(): the ticks the current mode takes, and the mode that follows it.
Length(m) == CASE m = "HBLANK" -> HBLANK_TICKS [] m = "VBLANK" -> VBLANK_TICKS
               [] m = "OAM" -> OAM_TICKS [] m = "VRAM" -> VRAM_TICKS

\* Slip: the vertical blank ends only when its last scanline is passed.
SuccessorPast(m, line) ==
    CASE m = "HBLANK" -> IF line = PIXELS_PER_COL THEN "VBLANK" ELSE "OAM"
      [] m = "VBLANK" -> IF line = SCANLINE_MAX + 1 THEN "HBLANK" ELSE "VBLANK"
      [] m = "OAM" -> "VRAM"
      [] m = "VRAM" -> "HBLANK"

Successor(m, line) ==
    CASE m = "HBLANK" -> IF line = PIXELS_PER_COL THEN "VBLANK" ELSE "OAM"
      [] m = "VBLANK" -> IF line = SCANLINE_MAX THEN "HBLANK" ELSE "VBLANK"
      [] m = "OAM" -> "VRAM"
      [] m = "VRAM" -> "HBLANK"

\* next(), after the handler has left total ticks and line.
Advance(total, line) ==
    IF total < Length(state)
       THEN state' = state /\ ticks' = total
       ELSE state' = Successor(state, line) /\ ticks' = total - Length(state)

\* Slip: every blank starts again at line 0 unless the vertical one has just begun.
HBlankNoRestart(t) ==
    /\ state = "HBLANK"
    /\ mode' = "HBLANK"
    /\ flags' = flags \cup IF mode # "HBLANK" THEN Raise("HBLANK") ELSE {}
    /\ LET ends == ticks + t >= HBLANK_TICKS
       IN /\ buffer' = IF ends /\ scanline < PIXELS_PER_COL THEN buffer \cup {scanline} ELSE buffer
          /\ scanline' = IF ends THEN (scanline + 1) % LY_VALUES ELSE scanline
    /\ Advance(ticks + t, scanline')
    /\ periods' = 0
    /\ UNCHANGED <<vscan, screen, tampered>>

\* handleHBlank(): a blank that follows the vertical one starts again at line 0, and at the
\* end of a blank the scanline is drawn.
HBlank(t) ==
    /\ state = "HBLANK"
    /\ mode' = "HBLANK"
    /\ flags' = flags \cup IF mode # "HBLANK" THEN Raise("HBLANK") ELSE {}
    /\ LET line == IF mode = "VBLANK" THEN 0 ELSE scanline
           ends == ticks + t >= HBLANK_TICKS
       IN /\ buffer' = IF ends /\ line < PIXELS_PER_COL THEN buffer \cup {line} ELSE buffer
          /\ scanline' = IF ends THEN (line + 1) % LY_VALUES ELSE line
    /\ Advance(ticks + t, scanline')
    /\ periods' = 0
    /\ UNCHANGED <<vscan, screen, tampered>>

\* Slip: the interrupt and the hand-off happen at every cycle of the vertical blank.
VBlankAlways(t) ==
    /\ state = "VBLANK"
    /\ mode' = "VBLANK"
    /\ flags' = flags \cup Raise("VBLANK") \cup {"VBLANK"}
    /\ screen' = buffer /\ buffer' = {} /\ tampered' = (scanline # PIXELS_PER_COL)
    /\ vscan' = vscan /\ scanline' = scanline
    /\ Advance(ticks + t, scanline')
    /\ periods' = IF ticks + t >= VBLANK_TICKS /\ periods < 3 THEN periods + 1 ELSE periods

\* handleVBlank(): the frame is handed over when the mode is entered, and the scanlines of
\* the blank are counted.  A screen the UI thread is moving out at this moment is a data race.
VBlank(t) ==
    /\ state = "VBLANK"
    /\ mode' = "VBLANK"
    /\ IF mode # "VBLANK"
          THEN /\ flags' = flags \cup Raise("VBLANK") \cup {"VBLANK"}
               /\ screen' \in {buffer} \cup IF ui = "move" THEN {Torn, Empty} ELSE {}
               /\ buffer' = {} /\ tampered' = (scanline # PIXELS_PER_COL)
          ELSE UNCHANGED <<flags, screen, buffer, tampered>>
    /\ IF vscan + t >= SCANLINE_TICKS
          THEN /\ vscan' = vscan + t - SCANLINE_TICKS
               /\ scanline' = IF scanline + 1 < SCANLINE_MAX THEN scanline + 1 ELSE SCANLINE_MAX
          ELSE vscan' = vscan + t /\ scanline' = scanline
    /\ Advance(ticks + t, scanline')
    /\ periods' = IF ticks + t >= VBLANK_TICKS /\ periods < 3 THEN periods + 1 ELSE periods

Oam(t) ==                                            \* handleOAM()
    /\ state = "OAM"
    /\ mode' = "OAM"
    /\ flags' = flags \cup IF mode # "OAM" THEN Raise("OAM") ELSE {}
    /\ Advance(ticks + t, scanline)
    /\ UNCHANGED <<vscan, scanline, buffer, screen, tampered, periods>>

Vram(t) ==                                           \* handleVRAM()
    /\ state = "VRAM"
    /\ mode' = "VRAM"
    /\ Advance(ticks + t, scanline)
    /\ UNCHANGED <<vscan, scanline, flags, buffer, screen, tampered, periods>>

\* cycle(): nothing happens while the display is switched off.
Cycle ==
    /\ enabled
    /\ \E t \in Steps : HBlank(t) \/ VBlank(t) \/ Oam(t) \/ Vram(t)
    /\ UNCHANGED <<enabled, sources, uiVars>>

-----------------------------------------------------------------------------
(* What the game does between two cycles, through the registers.           *)

SwitchDisplay ==
    /\ "LCD" \in Controls
    /\ enabled' = ~enabled
    /\ UNCHANGED <<renderVars, sources, screen, uiVars, tampered, periods>>

\* A write to STAT changes no mode bit (MappedIO::write(), mask 0x78).
WriteStat ==
    /\ "STAT" \in Controls
    /\ sources' \in SUBSET {"HBLANK", "VBLANK", "OAM"} /\ sources' # sources
    /\ UNCHANGED <<renderVars, enabled, screen, uiVars, tampered, periods>>

\* LY is a register like any other for MappedIO::write().
WriteScanline ==
    /\ "LY" \in Controls
    /\ scanline' \in {0, PIXELS_PER_COL, SCANLINE_MAX, LY_VALUES - 1} \ {scanline}
    /\ tampered' = TRUE
    /\ UNCHANGED <<state, mode, ticks, vscan, flags, buffer, enabled, sources, screen, uiVars,
                   periods>>

\* The interrupt flags are cleared by the processor when it serves them.
Serve ==
    /\ flags # {} /\ flags' = {}
    /\ UNCHANGED <<state, mode, ticks, vscan, scanline, buffer, enabled, sources, screen,
                   uiVars, tampered, periods>>

-----------------------------------------------------------------------------
(* The UI thread: Screen::onTimeout() or GameServer::websocket().          *)

\* getColorMap(): the lock is held only until the reference is returned.
GetColorMap ==
    /\ "UI" \in Controls
    /\ ui = "idle" /\ ui' = "move"
    /\ UNCHANGED <<renderVars, enabled, sources, screen, frame, tampered, periods>>

\* The caller moves m_screen out, which leaves it empty.
MoveOut ==
    /\ ui = "move" /\ ui' = "show"
    /\ frame' = screen /\ screen' = Empty
    /\ UNCHANGED <<renderVars, enabled, sources, tampered, periods>>

Show ==
    /\ ui = "show" /\ ui' = "idle"
    /\ frame' = Empty
    /\ UNCHANGED <<renderVars, enabled, sources, screen, tampered, periods>>

-----------------------------------------------------------------------------
Next ==
    \/ Cycle
    \/ SwitchDisplay \/ WriteStat \/ WriteScanline \/ Serve
    \/ GetColorMap \/ MoveOut \/ Show

Spec == Init /\ [][Next]_vars

\* The CPU thread keeps calling cycle(); that the display is enabled again and again is up
\* to the game.
FairSpec == Spec /\ SF_vars(Cycle)

-----------------------------------------------------------------------------
(* Properties                                                              *)

Frames == {Empty, Torn} \cup SUBSET Lines

\* Every variable has the type its declaration gives it: m_vscan stays below one scanline
\* and m_ticks below the length of the mode it counts.
TypeOK ==
    /\ state \in Modes /\ mode \in Modes
    /\ ticks \in 0..(Length(state) - 1) /\ vscan \in 0..(SCANLINE_TICKS - 1)
    /\ scanline \in 0..(LY_VALUES - 1)
    /\ enabled \in BOOLEAN /\ sources \subseteq {"HBLANK", "VBLANK", "OAM"}
    /\ flags \subseteq {"LCD", "VBLANK"} /\ buffer \subseteq Lines
    /\ screen \in Frames /\ frame \in Frames /\ ui \in {"idle", "move", "show"}
    /\ tampered \in BOOLEAN /\ periods \in 0..3

\* While a frame is drawn the buffer holds exactly the scanlines above LY.
DrawnInOrder ==
    ~tampered /\ ~(state = "HBLANK" /\ mode = "VBLANK") /\ state # "VBLANK" =>
        buffer = 0..(scanline - 1)

\* A vertical blank is over after at most two of its periods, whatever the sizes of the
\* steps that were left over from earlier modes (handleVBlank(), next()).
VBlankIsBounded == ~tampered => periods <= 2 /\ (state = "VBLANK" => periods <= 1)

\* The interrupt of the vertical blank, and with it a new frame, is raised only when the
\* blank begins.
OneInterruptPerFrame ==
    [][("VBLANK" \in flags' /\ "VBLANK" \notin flags) =>
          state = "VBLANK" /\ mode # "VBLANK" /\ (~tampered => buffer = Lines)]_vars

\* Frames keep coming as long as the game lets the display run now and then, and whatever it
\* wrote to LY before: a scanline that is past the last one wraps around (next()).
FramesKeepComing ==
    []<>enabled /\ <>[][~WriteScanline]_vars => []<>(state = "VBLANK" /\ mode # "VBLANK")

\* "We've move in to the vblank state, so move the internal buffer over to the screen buffer
\* that the external code can retrieve": what it retrieves is a whole frame or nothing.
WholeFrames == ui = "show" => frame # Torn
=============================================================================

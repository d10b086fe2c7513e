----------------------------- MODULE Gpu_proofs -----------------------------
(***************************************************************************)
(* Proofs of the safety of the mode machine, for all lengths of the modes, *)
(* numbers of scanlines and steps shorter than a mode (GpuAssumption).     *)
(*                                                                         *)
(* DrawInv says which lines the buffer holds at each point of a frame.     *)
(* BlankInv bounds the vertical blank: LY is behind its ticks by less than *)
(* one scanline, the one that the step into the blank may have left over.  *)
(*                                                                         *)
(* The second half is about Scanline, the drawing of one line, for screens *)
(* and tiles of any size and any number of sprites (ScanlineAssumption).   *)
(* BackgroundInv says what the caches hold and which pixels are written;   *)
(* SpriteInv orders what is drawn and what is still to do by the sort.     *)
(***************************************************************************)
EXTENDS Gpu, Scanline, FiniteSetTheorems, WellFoundedInduction, TLAPS

\* The types, in groups that actions disturb separately.
Counts ==
    /\ ticks \in Nat /\ ticks < Length(state)
    /\ vscan \in Nat /\ vscan < SCANLINE_TICKS
    /\ scanline \in 0..(LY_VALUES - 1) /\ periods \in 0..3
Labels ==
    /\ state \in Modes /\ mode \in Modes /\ enabled \in BOOLEAN /\ tampered \in BOOLEAN
    /\ ui \in {"idle", "move", "show"}
    /\ sources \subseteq {"HBLANK", "VBLANK", "OAM"} /\ flags \subseteq {"LCD", "VBLANK"}
Pixels == buffer \subseteq Lines /\ screen \in Frames /\ frame \in Frames

\* The mode bits of STAT are those of the state, or of the one before it.
Follows ==
    /\ state = "OAM" => mode \in {"HBLANK", "OAM"}
    /\ state = "VRAM" => mode \in {"OAM", "VRAM"}
    /\ state = "HBLANK" => mode \in {"VRAM", "HBLANK", "VBLANK"}
    /\ state = "VBLANK" => mode \in {"HBLANK", "VBLANK"}

\* Which lines the buffer holds.
Drawn ==
    /\ mode = "VBLANK" => buffer = {}
    /\ ~tampered /\ state = "VBLANK" /\ mode # "VBLANK" =>
          buffer = Lines /\ scanline = PIXELS_PER_COL
    /\ ~tampered /\ state # "VBLANK" /\ mode # "VBLANK" =>
          buffer = 0..(scanline - 1) /\ scanline < PIXELS_PER_COL

DrawInv == Labels /\ Counts /\ Pixels /\ Follows /\ Drawn

-----------------------------------------------------------------------------
(* Modes and the lines that are drawn.                                     *)

\* A step is shorter than every mode, and than a scanline of the vertical blank.
LEMMA Lengths ==
    /\ \A m \in Modes : Length(m) \in Nat
    /\ \A m \in Modes, t \in Steps : t \in Nat /\ t < Length(m)
    /\ SCANLINE_TICKS \in Nat /\ \A t \in Steps : t < SCANLINE_TICKS
<1>1. \A m \in Modes : Length(m) \in {OAM_TICKS, VRAM_TICKS, HBLANK_TICKS, VBLANK_TICKS}
  BY DEF Modes, Length
<1>2. QED
  BY <1>1, GpuAssumption

\* next() leaves fewer ticks than the mode takes.
LEMMA AdvanceType ==
    ASSUME state \in Modes, ticks \in Nat, ticks < Length(state), NEW t \in Steps, NEW line,
           Advance(ticks + t, line)
    PROVE  state' \in Modes /\ ticks' \in Nat /\ ticks' < Length(state')
<1>1. /\ Length(state) \in Nat /\ t \in Nat /\ \A m \in Modes : t < Length(m) /\ Length(m) \in Nat
  BY Lengths
<1>2. Successor(state, line) \in Modes
  BY DEF Successor, Modes
<1>3. CASE ticks + t < Length(state)
  BY <1>1, <1>3 DEF Advance
<1>4. CASE ~ (ticks + t < Length(state))
  <2>1. state' = Successor(state, line) /\ ticks' = ticks + t - Length(state)
    BY <1>1, <1>4 DEF Advance
  <2>2. t < Length(state') /\ Length(state') \in Nat
    BY <1>1, <1>2, <2>1
  <2>3. QED
    BY <1>1, <1>2, <1>4, <2>1, <2>2
<1>5. QED
  BY <1>3, <1>4

\* Which mode follows which.
LEMMA AdvanceSteps ==
    ASSUME state \in Modes, NEW total \in Nat, NEW line, Advance(total, line)
    PROVE  /\ state' = state \/ state' = Successor(state, line)
           /\ total < Length(state) => state' = state
           /\ total >= Length(state) => state' = Successor(state, line)
  BY Lengths DEF Advance

\* The counters of scanlines keep their bounds.
LEMMA VscanType ==
    ASSUME Counts, Labels, NEW t \in Steps,
           HBlank(t) \/ VBlank(t) \/ Oam(t) \/ Vram(t)
    PROVE  /\ vscan' \in Nat /\ vscan' < SCANLINE_TICKS
           /\ scanline' \in 0..(LY_VALUES - 1) /\ periods' \in 0..3
<1>1. /\ t \in Nat /\ t < SCANLINE_TICKS /\ SCANLINE_TICKS \in Nat /\ LY_VALUES \in Nat
      /\ SCANLINE_MAX \in 0..(LY_VALUES - 1) /\ PIXELS_PER_COL \in Nat
  BY Lengths, GpuAssumption
<1>2. CASE HBlank(t)
  <2>1. \A line \in 0..(LY_VALUES - 1) : (line + 1) % LY_VALUES \in 0..(LY_VALUES - 1)
    BY <1>1
  <2>2. 0 \in 0..(LY_VALUES - 1)
    BY <1>1
  <2>3. scanline' \in 0..(LY_VALUES - 1)
    BY <1>1, <1>2, <2>1, <2>2 DEF HBlank, Counts
  <2>4. vscan' = vscan /\ periods' = 0
    BY <1>2 DEF HBlank
  <2>5. QED
    BY <2>3, <2>4 DEF Counts
<1>3. CASE VBlank(t)
  <2>1. scanline' \in 0..(LY_VALUES - 1)
    BY <1>1, <1>3 DEF VBlank, Counts
  <2>2. vscan' \in Nat /\ vscan' < SCANLINE_TICKS
    BY <1>1, <1>3 DEF VBlank, Counts
  <2>3. periods' \in 0..3
    BY <1>3 DEF VBlank, Counts
  <2>4. QED
    BY <2>1, <2>2, <2>3
<1>4. CASE Oam(t) \/ Vram(t)
  BY <1>4 DEF Oam, Vram, Counts
<1>5. QED
  BY <1>2, <1>3, <1>4

\* cycle() keeps the counters and the mode.
LEMMA CycleNumbers ==
    ASSUME Counts, Labels, NEW t \in Steps,
           HBlank(t) \/ VBlank(t) \/ Oam(t) \/ Vram(t)
    PROVE  Counts' /\ state' \in Modes
<1>1. PICK line : Advance(ticks + t, line)
  BY DEF HBlank, VBlank, Oam, Vram
<1>2. state' \in Modes /\ ticks' \in Nat /\ ticks' < Length(state')
  BY <1>1, AdvanceType DEF Counts, Labels
<1>3. Length(state)' = Length(state')
  BY DEF Length
<1>4. QED
  BY <1>2, <1>3, VscanType DEF Counts

\* cycle() keeps the order of the modes and of the lines that are drawn.
LEMMA CycleDraws ==
    ASSUME DrawInv, Cycle
    PROVE  DrawInv'
<1>1. PICK t \in Steps : HBlank(t) \/ VBlank(t) \/ Oam(t) \/ Vram(t)
  BY DEF Cycle
<1>2. UNCHANGED <<enabled, sources, ui, frame>>
  BY DEF Cycle, uiVars
<1>3. Counts' /\ state' \in Modes
  BY <1>1, CycleNumbers DEF DrawInv
<1>4. /\ ticks + t \in Nat /\ LY_VALUES \in Nat /\ PIXELS_PER_COL \in Nat \ {0}
      /\ SCANLINE_MAX \in (PIXELS_PER_COL + 1)..(LY_VALUES - 1) /\ scanline \in Nat
      /\ state \in Modes /\ HBLANK_TICKS \in Nat /\ Length("HBLANK") = HBLANK_TICKS
  BY Lengths, GpuAssumption DEF DrawInv, Counts, Labels, Length
<1> DEFINE Good == /\ mode' \in Modes /\ tampered' \in BOOLEAN /\ flags' \subseteq {"LCD", "VBLANK"}
                   /\ buffer' \subseteq Lines /\ screen' \in Frames /\ Follows' /\ Drawn'
<1>5. ASSUME HBlank(t) PROVE Good
  <2> DEFINE line == IF mode = "VBLANK" THEN 0 ELSE scanline
             ends == ticks + t >= HBLANK_TICKS
  <2>1. /\ state = "HBLANK" /\ mode' = "HBLANK" /\ UNCHANGED <<screen, tampered>>
        /\ flags' = flags \cup IF mode # "HBLANK" THEN Raise("HBLANK") ELSE {}
        /\ buffer' = IF ends /\ line < PIXELS_PER_COL THEN buffer \cup {line} ELSE buffer
        /\ scanline' = IF ends THEN (line + 1) % LY_VALUES ELSE line
        /\ Advance(ticks + t, scanline')
    BY <1>5 DEF HBlank
  <2>2. ~ends => state' = "HBLANK"
    BY <1>4, <2>1, AdvanceSteps
  <2>3. ends => state' = IF scanline' = PIXELS_PER_COL THEN "VBLANK" ELSE "OAM"
    BY <1>4, <2>1, AdvanceSteps DEF Successor
  <2>4. line \in Nat /\ line < LY_VALUES
    BY <1>4 DEF DrawInv, Counts
  <2> HIDE DEF line, ends
  <2>5. flags' \subseteq {"LCD", "VBLANK"}
    BY <2>1 DEF DrawInv, Labels, Raise
  <2>6. buffer' \subseteq Lines
    BY <1>4, <2>1, <2>4 DEF DrawInv, Pixels, Lines
  <2>7. Follows'
    BY <2>1, <2>2, <2>3 DEF Follows
  <2>8. ~tampered => line < PIXELS_PER_COL /\ buffer = 0..(line - 1)
    <3>1. CASE mode = "VBLANK"
      <4>1. line = 0 /\ buffer = {} /\ 0..(0 - 1) = {}
        BY <3>1 DEF line, DrawInv, Drawn
      <4>2. QED
        BY <1>4, <4>1
    <3>2. CASE mode # "VBLANK"
      <4>1. line = scanline
        BY <3>2 DEF line
      <4>2. QED
        BY <2>1, <3>2, <4>1 DEF DrawInv, Drawn
    <3>3. QED
      BY <3>1, <3>2
  <2>9. ~tampered /\ ~ends => buffer' = 0..(scanline' - 1) /\ scanline' < PIXELS_PER_COL
    BY <2>1, <2>8
  <2>10. ~tampered /\ ends => buffer' = 0..(scanline' - 1) /\ scanline' = line + 1
                              /\ scanline' <= PIXELS_PER_COL
    <3>1. SUFFICES ASSUME ~tampered, ends
                   PROVE  buffer' = 0..(scanline' - 1) /\ scanline' = line + 1
                          /\ scanline' <= PIXELS_PER_COL
      OBVIOUS
    <3>2. (line + 1) % LY_VALUES = line + 1
      BY <1>4, <2>4, <2>8, <3>1
    <3>3. buffer' = 0..(line - 1) \cup {line}
      BY <2>1, <2>8, <3>1
    <3>4. 0..(line - 1) \cup {line} = 0..line
      BY <2>4
    <3>5. QED
      BY <1>4, <2>1, <2>4, <2>8, <3>1, <3>2, <3>3, <3>4
  <2>11. Drawn'
    BY <1>4, <2>1, <2>2, <2>3, <2>9, <2>10 DEF Drawn, Lines
  <2>12. QED
    BY <2>1, <2>5, <2>6, <2>7, <2>11 DEF DrawInv, Labels, Pixels, Modes
<1>6. ASSUME VBlank(t) PROVE Good
  <2>1. state = "VBLANK" /\ mode' = "VBLANK" /\ state' \in {"VBLANK", "HBLANK"}
    <3>1. state = "VBLANK" /\ mode' = "VBLANK" /\ Advance(ticks + t, scanline')
      BY <1>6 DEF VBlank
    <3>2. QED
      BY <1>4, <3>1, AdvanceSteps DEF Successor
  <2>2. buffer' = {}
    <3>1. CASE mode = "VBLANK"
      BY <1>6, <3>1 DEF VBlank, DrawInv, Drawn
    <3>2. CASE mode # "VBLANK"
      BY <1>6, <3>2 DEF VBlank
    <3>3. QED
      BY <3>1, <3>2
  <2>3. screen' \in Frames
    BY <1>6 DEF VBlank, DrawInv, Pixels, Frames
  <2>4. flags' \subseteq {"LCD", "VBLANK"} /\ tampered' \in BOOLEAN
    BY <1>6 DEF VBlank, DrawInv, Labels, Raise
  <2>5. QED
    BY <2>1, <2>2, <2>3, <2>4 DEF Follows, Drawn, Modes
<1>7. ASSUME Oam(t) PROVE Good
  <2>1. /\ state = "OAM" /\ mode' = "OAM" /\ UNCHANGED <<scanline, buffer, screen, tampered>>
        /\ flags' = flags \cup IF mode # "OAM" THEN Raise("OAM") ELSE {}
        /\ Advance(ticks + t, scanline)
    BY <1>7 DEF Oam
  <2>2. state' \in {"OAM", "VRAM"}
    BY <1>4, <2>1, AdvanceSteps DEF Successor
  <2>3. mode # "VBLANK"
    BY <2>1 DEF DrawInv, Follows
  <2>4. flags' \subseteq {"LCD", "VBLANK"}
    BY <2>1 DEF DrawInv, Labels, Raise
  <2>5. Drawn' /\ Follows'
    BY <2>1, <2>2, <2>3 DEF DrawInv, Drawn, Follows
  <2>6. QED
    BY <2>1, <2>4, <2>5 DEF DrawInv, Labels, Pixels, Modes
<1>8. ASSUME Vram(t) PROVE Good
  <2>1. /\ state = "VRAM" /\ mode' = "VRAM"
        /\ UNCHANGED <<scanline, flags, buffer, screen, tampered>>
        /\ Advance(ticks + t, scanline)
    BY <1>8 DEF Vram
  <2>2. state' \in {"VRAM", "HBLANK"}
    BY <1>4, <2>1, AdvanceSteps DEF Successor
  <2>3. mode # "VBLANK"
    BY <2>1 DEF DrawInv, Follows
  <2>4. Drawn' /\ Follows'
    BY <2>1, <2>2, <2>3 DEF DrawInv, Drawn, Follows
  <2>5. QED
    BY <2>1, <2>4 DEF DrawInv, Labels, Pixels, Modes
<1>9. Good
  BY <1>1, <1>5, <1>6, <1>7, <1>8
<1>10. QED
  BY <1>2, <1>3, <1>9 DEF DrawInv, Labels, Pixels

\* A frame of which nothing is drawn.
LEMMA DrawInit == Init => DrawInv
<1> SUFFICES ASSUME Init PROVE DrawInv
  OBVIOUS
<1>1. Labels /\ Follows
  BY DEF Init, Labels, Follows, Modes
<1>2. Counts
  BY GpuAssumption DEF Init, Counts, Length
<1>3. Pixels
  BY DEF Init, Pixels, Frames
<1>4. Drawn
  <2>1. 0..(0 - 1) = {} /\ 0 < PIXELS_PER_COL
    BY GpuAssumption
  <2>2. QED
    BY <2>1 DEF Init, Drawn
<1>5. QED
  BY <1>1, <1>2, <1>3, <1>4 DEF DrawInv

\* What the game does between two cycles, and the UI thread.
LEMMA OtherDraws ==
    ASSUME DrawInv, ~Cycle, [Next]_vars
    PROVE  DrawInv'
<1> USE DEF DrawInv, Labels, Pixels, renderVars, uiVars
<1>1. Counts'
  <2>1. CASE WriteScanline
    <3>1. scanline' \in 0..(LY_VALUES - 1)
      BY <2>1, GpuAssumption DEF WriteScanline
    <3>2. UNCHANGED <<state, ticks, vscan, periods>>
      BY <2>1 DEF WriteScanline
    <3>3. QED
      BY <3>1, <3>2 DEF Counts, Length
  <2>2. CASE ~WriteScanline
    <3>1. UNCHANGED <<state, ticks, vscan, periods, scanline>>
      BY <2>2 DEF Next, SwitchDisplay, WriteStat, Serve, GetColorMap, MoveOut, Show, vars
    <3>2. QED
      BY <3>1 DEF Counts, Length
  <2>3. QED
    BY <2>1, <2>2
<1>2. Labels'
  BY DEF Next, SwitchDisplay, WriteStat, WriteScanline, Serve, GetColorMap, MoveOut, Show, vars
<1>3. Pixels'
  BY DEF Next, SwitchDisplay, WriteStat, WriteScanline, Serve, GetColorMap, MoveOut, Show, vars,
     Frames
<1>4. UNCHANGED <<state, mode, buffer>> /\ (tampered' \/ UNCHANGED <<scanline, tampered>>)
  BY DEF Next, SwitchDisplay, WriteStat, WriteScanline, Serve, GetColorMap, MoveOut, Show, vars
<1>5. Follows' /\ Drawn'
  BY <1>4 DEF Follows, Drawn
<1>6. QED
  BY <1>1, <1>2, <1>3, <1>5

\* The invariant is inductive.
LEMMA DrawNext == DrawInv /\ [Next]_vars => DrawInv'
  BY CycleDraws, OtherDraws

\* What the buffer holds, in every reachable state (GPU::cycle()).
THEOREM DrawSpec == Spec => []DrawInv
  BY DrawInit, DrawNext, PTL DEF Spec

\* While a frame is drawn the buffer holds the scanlines above LY (handleHBlank()).
THEOREM LinesInOrder == Spec => []DrawnInOrder
<1>1. DrawInv => DrawnInOrder
  BY DEF DrawInv, Labels, Modes, Follows, Drawn, DrawnInOrder
<1>2. QED
  BY <1>1, DrawSpec, PTL

\* The interrupt of the vertical blank comes with a whole frame (handleVBlank()).
THEOREM OneInterrupt == Spec => OneInterruptPerFrame
<1>1. ASSUME DrawInv, [Next]_vars, "VBLANK" \in flags', "VBLANK" \notin flags
      PROVE  state = "VBLANK" /\ mode # "VBLANK" /\ (~tampered => buffer = Lines)
  <2>1. Cycle
    BY <1>1 DEF Next, SwitchDisplay, WriteStat, WriteScanline, Serve, GetColorMap, MoveOut, Show,
       vars, renderVars
  <2>2. PICK t \in Steps : HBlank(t) \/ VBlank(t) \/ Oam(t) \/ Vram(t)
    BY <2>1 DEF Cycle
  <2>3. state = "VBLANK" /\ mode # "VBLANK"
    BY <1>1, <2>2 DEF HBlank, VBlank, Oam, Vram, Raise
  <2>4. QED
    BY <1>1, <2>3 DEF DrawInv, Drawn
<1>2. QED
  BY <1>1, DrawSpec, PTL DEF Spec, OneInterruptPerFrame

-----------------------------------------------------------------------------
(* The vertical blank.                                                     *)

\* In a vertical blank LY is behind the ticks by less than one scanline.
OnTime ==
    \/ scanline = SCANLINE_MAX
    \/ /\ scanline \in PIXELS_PER_COL..(SCANLINE_MAX - 1)
       /\ (scanline - PIXELS_PER_COL) * SCANLINE_TICKS + vscan + SCANLINE_TICKS
             > ticks + periods * VBLANK_TICKS

\* When the blank begins none of its periods is over, and LY is on time while it lasts.
BlankInv ==
    /\ state = "VBLANK" /\ mode # "VBLANK" => periods = 0 /\ ticks < SCANLINE_TICKS
    /\ ~tampered => periods <= 2
    /\ ~tampered /\ state = "VBLANK" => periods <= 1 /\ OnTime

\* The scanlines of a vertical blank fit into its length.
LEMMA ScanlinesFit ==
    /\ SCANLINE_MAX - PIXELS_PER_COL \in Nat \ {0}
    /\ (SCANLINE_MAX - PIXELS_PER_COL) * SCANLINE_TICKS <= VBLANK_TICKS
<1>1. \A v \in Nat, n \in Nat \ {0} : n * (v \div n) <= v
  OBVIOUS
<1>2. VBLANK_TICKS \in Nat
  BY GpuAssumption
<1>3. SCANLINE_MAX - PIXELS_PER_COL \in Nat \ {0}
  <2>1. PIXELS_PER_COL \in Nat /\ SCANLINE_MAX \in Int /\ SCANLINE_MAX >= PIXELS_PER_COL + 1
    BY GpuAssumption
  <2>2. QED
    BY <2>1
<1>4. QED
  BY <1>1, <1>2, <1>3 DEF SCANLINE_TICKS

\* After two of its periods all scanlines of the blank are counted.
LEMMA TwoPeriodsSuffice ==
    ASSUME NEW k \in Nat, NEW n \in Nat \ {0}, NEW w \in Nat, NEW v \in Nat, NEW p \in Nat,
           k < n, w < v, n * v <= p
    PROVE  k * v + w + v < 2 * p
<1>1. k * v + v <= n * v
  <2>1. n - k - 1 \in Nat
    OBVIOUS
  <2>2. (n - k - 1) * v \in Nat
    BY <2>1
  <2>3. n * v = k * v + v + (n - k - 1) * v
    OBVIOUS
  <2>4. QED
    BY <2>2, <2>3
<1>2. v <= n * v
  <2>1. (n - 1) * v \in Nat /\ n * v = v + (n - 1) * v
    OBVIOUS
  <2>2. QED
    BY <2>1
<1>3. QED
  BY <1>1, <1>2

\* Facts of arithmetic, stated apart from what else a step knows.
LEMMA Products == \A a, b \in Nat : a * b \in Nat
  OBVIOUS

LEMMA Shift == \A a, b, c \in Int : a < b => a - c < b - c
  OBVIOUS

\* handleVBlank() and next(): LY stays on time, and the second period is the last.
LEMMA BlankStep ==
    ASSUME DrawInv, BlankInv, NEW t \in Steps, VBlank(t)
    PROVE  BlankInv'
<1> DEFINE ST == SCANLINE_TICKS
           P == PIXELS_PER_COL
           V == VBLANK_TICKS
<1>1. /\ t \in Nat /\ t < ST /\ ST \in Nat /\ V \in Nat /\ P \in Nat
      /\ ticks \in Nat /\ ticks < V /\ vscan \in Nat /\ vscan < ST /\ scanline \in Nat
      /\ periods \in 0..3 /\ SCANLINE_MAX \in Nat /\ P < SCANLINE_MAX /\ Length("VBLANK") = V
  BY Lengths, GpuAssumption DEF DrawInv, Counts, VBlank, Length
<1>2. /\ state = "VBLANK" /\ mode' = "VBLANK" /\ Advance(ticks + t, scanline')
      /\ periods' = IF ticks + t >= V /\ periods < 3 THEN periods + 1 ELSE periods
      /\ IF vscan + t >= ST
            THEN /\ vscan' = vscan + t - ST
                 /\ scanline' = IF scanline + 1 < SCANLINE_MAX THEN scanline + 1 ELSE SCANLINE_MAX
            ELSE vscan' = vscan + t /\ scanline' = scanline
  BY DEF VBlank
<1>3. ~tampered' => periods <= 1 /\ OnTime
  <2>1. CASE mode = "VBLANK"
    BY <1>2, <2>1 DEF VBlank, BlankInv
  <2>2. CASE mode # "VBLANK"
    <3>1. ~tampered' => scanline = P
      BY <2>2 DEF VBlank
    <3>2. periods = 0 /\ ticks < ST
      BY <1>2, <2>2 DEF BlankInv
    <3>3. ~tampered' => OnTime
      BY <1>1, <3>1, <3>2 DEF OnTime
    <3>4. QED
      BY <3>2, <3>3
  <2>3. QED
    BY <2>1, <2>2
<1> SUFFICES ASSUME ~tampered'
             PROVE  periods' <= 2 /\ (state' = "VBLANK" => periods' <= 1 /\ OnTime')
  BY <1>2 DEF BlankInv
<1>4. /\ ticks + t < V => state' = "VBLANK" /\ ticks' = ticks + t /\ periods' = periods
      /\ ticks + t >= V => ticks' = ticks + t - V /\ periods' = periods + 1
      /\ ticks + t >= V => state' = IF scanline' = SCANLINE_MAX THEN "HBLANK" ELSE "VBLANK"
  BY <1>1, <1>2, <1>3 DEF Advance, Successor
<1> DEFINE behind(line) == (line - P) * ST
           counted == periods * V
<1>5. /\ ticks' \in Nat /\ periods' \in Nat /\ vscan' \in Nat /\ vscan' < ST
      /\ counted \in Nat /\ counted' \in Nat
  <2>1. ticks' \in Nat /\ periods' \in Nat /\ vscan' \in Nat /\ vscan' < ST
    BY <1>1, <1>2, <1>3, <1>4
  <2>2. counted \in Nat /\ counted' \in Nat
    <3>1. periods \in Nat /\ V \in Nat
      BY <1>1
    <3>2. QED
      BY <2>1, <3>1, Products
  <2>3. QED
    BY <2>1, <2>2
<1>6. ticks' + counted' = ticks + t + counted
  BY <1>1, <1>3, <1>4
<1>7. \A line \in P..(SCANLINE_MAX - 1) : line - P \in Nat /\ behind(line) \in Nat
  <2>1. \A line \in P..(SCANLINE_MAX - 1) : line - P \in Nat
    BY <1>1
  <2>2. QED
    BY <1>1, <2>1, Products
<1>8. \A line \in P..(SCANLINE_MAX - 1) : behind(line + 1) = behind(line) + ST
  BY <1>1
<1> DEFINE Late(line, v, n) == behind(line) + v + ST > n
<1>9. OnTime <=> \/ scanline = SCANLINE_MAX
                 \/ scanline \in P..(SCANLINE_MAX - 1) /\ Late(scanline, vscan, ticks + counted)
  BY DEF OnTime
<1>10. OnTime' <=> \/ scanline' = SCANLINE_MAX
                   \/ /\ scanline' \in P..(SCANLINE_MAX - 1)
                      /\ Late(scanline', vscan', ticks' + counted')
  BY DEF OnTime
<1> HIDE DEF counted, behind
<1>11. OnTime'
  <2>1. CASE scanline' = SCANLINE_MAX
    BY <1>10, <2>1
  <2>2. CASE scanline' # SCANLINE_MAX
    <3>1. scanline # SCANLINE_MAX
      BY <1>1, <1>2, <2>2
    <3>2. scanline \in P..(SCANLINE_MAX - 1) /\ Late(scanline, vscan, ticks + counted)
      BY <1>3, <1>9, <3>1
    <3>3. scanline' \in P..(SCANLINE_MAX - 1)
      BY <1>1, <1>2, <2>2, <3>2
    <3>4. behind(scanline) \in Nat /\ behind(scanline') \in Nat
      BY <1>7, <3>2, <3>3
    <3>5. behind(scanline') + vscan' = behind(scanline) + vscan + t
      <4>1. CASE vscan + t >= ST
        <5>1. scanline' = scanline + 1 /\ vscan' = vscan + t - ST
          BY <1>2, <2>2, <4>1
        <5>2. behind(scanline') = behind(scanline) + ST
          BY <1>8, <3>2, <5>1
        <5>3. QED
          BY <1>1, <3>4, <5>1, <5>2
      <4>2. CASE ~ (vscan + t >= ST)
        <5>1. scanline' = scanline /\ vscan' = vscan + t
          BY <1>2, <4>2
        <5>2. QED
          BY <1>1, <3>4, <5>1
      <4>3. QED
        BY <4>1, <4>2
    <3>6. Late(scanline', vscan', ticks' + counted')
      <4>1. t \in Nat /\ ST \in Nat /\ ticks \in Nat /\ vscan \in Nat
        BY <1>1
      <4>2. behind(scanline) + vscan + ST > ticks + counted
        BY <3>2
      <4>3. behind(scanline) + vscan + t + ST > ticks + t + counted
        BY <1>5, <3>4, <4>1, <4>2
      <4>4. behind(scanline') + vscan' + ST > ticks' + counted'
        BY <1>5, <1>6, <3>4, <3>5, <4>1, <4>3
      <4>5. QED
        BY <4>4
    <3>7. QED
      BY <1>10, <3>3, <3>6
  <2>3. QED
    BY <2>1, <2>2
<1>12. ASSUME state' = "VBLANK" PROVE periods' <= 1
  <2>1. SUFFICES ASSUME periods' = 2 PROVE FALSE
    BY <1>1, <1>3, <1>4
  <2>2. scanline' # SCANLINE_MAX
    BY <1>1, <1>3, <1>4, <1>12, <2>1
  <2>3. scanline' \in P..(SCANLINE_MAX - 1) /\ Late(scanline', vscan', ticks' + counted')
    BY <1>10, <1>11, <2>2
  <2>4. scanline' - P \in Nat /\ scanline' - P < SCANLINE_MAX - P /\ behind(scanline') \in Nat
    <3>1. scanline' \in P..(SCANLINE_MAX - 1)
      BY <2>3
    <3>2. scanline' - P \in Nat /\ behind(scanline') \in Nat
      BY <1>7, <3>1
    <3>3. P \in Nat /\ SCANLINE_MAX \in Nat
      BY <1>1
    <3>4. scanline' - P < SCANLINE_MAX - P
      <4>1. scanline' \in Int /\ scanline' < SCANLINE_MAX
        BY <3>1, <3>3
      <4>2. P \in Int /\ SCANLINE_MAX \in Int
        BY <3>3
      <4>3. QED
        BY <4>1, <4>2, Shift
    <3>5. QED
      BY <3>2, <3>4
  <2>5. behind(scanline') + vscan' + ST < 2 * V
    BY <1>1, <1>5, <2>4, ScanlinesFit, TwoPeriodsSuffice DEF behind
  <2>6. counted' = 2 * V
    BY <2>1 DEF counted
  <2>7. QED
    BY <1>1, <1>5, <2>3, <2>4, <2>5, <2>6
<1>13. QED
  BY <1>1, <1>3, <1>4, <1>11, <1>12

\* A vertical blank begins with the ticks the last step left over.
LEMMA BlankBegins ==
    ASSUME DrawInv, NEW t \in Steps, HBlank(t)
    PROVE  BlankInv'
<1>1. /\ t \in Nat /\ t < SCANLINE_TICKS /\ SCANLINE_TICKS \in Nat /\ ticks \in Nat
      /\ ticks < HBLANK_TICKS /\ HBLANK_TICKS \in Nat /\ Length("HBLANK") = HBLANK_TICKS
      /\ vscan \in Nat /\ PIXELS_PER_COL \in Nat /\ SCANLINE_MAX \in Nat
      /\ PIXELS_PER_COL < SCANLINE_MAX /\ VBLANK_TICKS \in Nat
  BY Lengths, GpuAssumption DEF DrawInv, Counts, HBlank, Length
<1>2. /\ state = "HBLANK" /\ Advance(ticks + t, scanline') /\ periods' = 0 /\ vscan' = vscan
  BY DEF HBlank
<1>3. state' = "VBLANK" => ticks' < SCANLINE_TICKS /\ ticks' \in Nat /\ scanline' = PIXELS_PER_COL
  BY <1>1, <1>2 DEF Advance, Successor
<1>4. ASSUME state' = "VBLANK" PROVE OnTime'
  <2>1. (scanline' - PIXELS_PER_COL) * SCANLINE_TICKS = 0 /\ periods' * VBLANK_TICKS = 0
    BY <1>1, <1>2, <1>3, <1>4
  <2>2. vscan + SCANLINE_TICKS > ticks'
    BY <1>1, <1>3, <1>4
  <2>3. scanline' \in PIXELS_PER_COL..(SCANLINE_MAX - 1)
    BY <1>1, <1>3, <1>4
  <2>4. QED
    BY <1>1, <1>2, <1>3, <1>4, <2>1, <2>2, <2>3 DEF OnTime
<1>5. QED
  BY <1>2, <1>3, <1>4 DEF BlankInv

\* The other modes and the other threads do not disturb the blank.
LEMMA BlankNext ==
    ASSUME DrawInv, BlankInv, [Next]_vars
    PROVE  BlankInv'
<1>1. CASE Cycle
  <2>1. PICK t \in Steps : HBlank(t) \/ VBlank(t) \/ Oam(t) \/ Vram(t)
    BY <1>1 DEF Cycle
  <2>2. CASE Oam(t) \/ Vram(t)
    <3>1. UNCHANGED <<tampered, periods>> /\ state \in {"OAM", "VRAM"}
          /\ \E line : Advance(ticks + t, line)
      BY <2>2 DEF Oam, Vram
    <3>2. state' # "VBLANK"
      BY <3>1 DEF Advance, Successor
    <3>3. QED
      BY <3>1, <3>2 DEF BlankInv
  <2>3. QED
    BY <2>1, <2>2, BlankBegins, BlankStep
<1>2. CASE ~Cycle
  <2>1. UNCHANGED <<state, mode, ticks, vscan, periods>>
        /\ (tampered' \/ UNCHANGED <<scanline, tampered>>)
    BY <1>2 DEF Next, SwitchDisplay, WriteStat, WriteScanline, Serve, GetColorMap, MoveOut, Show,
       vars, renderVars
  <2>2. QED
    BY <2>1 DEF BlankInv, OnTime
<1>3. QED
  BY <1>1, <1>2

\* A vertical blank is over after at most two of its periods (handleVBlank(), next()).
THEOREM BlankEnds == Spec => []VBlankIsBounded
<1>1. Init => BlankInv
  BY DEF Init, BlankInv
<1>2. BlankInv => VBlankIsBounded
  BY DEF BlankInv, VBlankIsBounded
<1>3. QED
  BY <1>1, <1>2, BlankNext, DrawSpec, PTL DEF Spec

\* m_vscan stays below one scanline and m_ticks below the length of its mode (next()).
THEOREM TypesHold == Spec => []TypeOK
<1>1. ASSUME DrawInv PROVE TypeOK
  <2>1. \A m \in Modes : Length(m) \in Nat
    BY Lengths
  <2>2. ticks \in 0..(Length(state) - 1) /\ vscan \in 0..(SCANLINE_TICKS - 1)
    BY <1>1, <2>1, Lengths DEF DrawInv, Labels, Counts
  <2>3. QED
    BY <1>1, <2>2 DEF DrawInv, Labels, Counts, Pixels, TypeOK
<1>2. QED
  BY <1>1, DrawSpec, PTL

-----------------------------------------------------------------------------
(* Drawing one of the scanlines (GPU::draw, Scanline).                     *)

\* What SpriteData holds.
SpriteTypes == [x : 0..(BYTE - 1), y : 0..(BYTE - 1), tile : 0..(BYTE - 1), flipX : BOOLEAN,
                flipY : BOOLEAN, behind : BOOLEAN, shade : {0, 1}]

\* The registers while a line is drawn, which nothing changes then.
RegistersHold ==
    /\ m_scanline \in 0..(SCREEN_HEIGHT - 1)
    /\ m_x \in 0..(BYTE - 1) /\ m_y \in 0..(BYTE - 1)
    /\ m_winX \in 0..(BYTE - 1) /\ m_winY \in 0..(BYTE - 1)
    /\ sprites \in [Slots -> SpriteTypes]

\* Sizes: the sizes of the screen and of its tiles, in bytes that hold the coordinates.
LEMMA Sizes ==
    /\ TILE \in Nat \ {0} /\ PIXELS_PER_ROW \in Nat \ {0} /\ SCREEN_HEIGHT \in Nat \ {0}
    /\ BYTE \in Nat \ {0} /\ PIXELS_PER_ROW + 2 * TILE < BYTE
    /\ SCREEN_HEIGHT + 2 * TILE < BYTE
    /\ WINDOW_ROW_OFFSET = TILE - 1 /\ SPRITE_X_OFFSET = TILE
    /\ SPRITE_Y_OFFSET = 2 * TILE
    /\ Columns = 0..(PIXELS_PER_ROW - 1) /\ InTile = 0..(TILE - 1)
    /\ Height \in {TILE, 2 * TILE}
  BY ScanlineAssumption DEF WINDOW_ROW_OFFSET, SPRITE_X_OFFSET, Height,
     SPRITE_Y_OFFSET, Columns, InTile

\* RegistersStart: a line begins with registers that hold bytes.
LEMMA RegistersStart ==
    ASSUME LineInit
    PROVE  RegistersHold
<1>1. 0 \in 0..(BYTE - 1)
  BY Sizes
<1>2. Scrolls \subseteq 0..(BYTE - 1) /\ Windows \subseteq 0..(BYTE - 1)
  BY ScanlineAssumption
<1>3. m_x \in Scrolls \cup {0} /\ m_y \in Scrolls \cup {0}
      /\ m_winX \in Windows \cup {0} /\ m_winY \in Windows \cup {0}
  BY DEF LineInit
<1>4. [x : Xs, y : Ys, tile : Numbers, flipX : Flips, flipY : Flips, behind : Priorities,
       shade : Shades] \subseteq SpriteTypes
  BY ScanlineAssumption DEF SpriteTypes
<1>5. NoSprite \in SpriteTypes
  BY <1>1 DEF NoSprite, SpriteTypes
<1>6. sprites \in [Slots -> SpriteTypes]
  <2>1. CASE "sprites" \in control
    BY <1>4, <2>1 DEF LineInit
  <2>2. CASE "sprites" \notin control
    BY <1>5, <2>2 DEF LineInit
  <2>3. QED
    BY <2>1, <2>2
<1>7. m_scanline \in 0..(SCREEN_HEIGHT - 1)
  BY DEF LineInit
<1>8. QED
  BY <1>1, <1>2, <1>3, <1>6, <1>7 DEF RegistersHold

\* The row of a layer that lies on the scanline, and the pixel that DrawPixel looks for.
RowOf(layer) == (IF layer = Window THEN m_scanline - m_winY ELSE m_y + m_scanline) % BYTE
LayerOf(c) == IF IsWindowSelected(c, m_scanline) THEN Window ELSE Background
PlaneColumn(c) == (IF IsWindowSelected(c, m_scanline)
                      THEN c - m_winX + WINDOW_ROW_OFFSET ELSE m_x + c) % BYTE
RowIn(layer, tx) == TileRow(layer, tx, RowOf(layer) \div TILE, RowOf(layer) % TILE)
Mapped(c) == RowIn(LayerOf(c), PlaneColumn(c) \div TILE)[PlaneColumn(c) % TILE]

\* CacheHolds: what is cached of a layer is a row of a tile, and the one of this scanline.
CacheHolds ==
    /\ DOMAIN cache = {Background, Window}
    /\ \A layer \in {Background, Window} :
          cache[layer].x # -1 => cache[layer].pixels = RowIn(layer, cache[layer].x)

\* BackgroundInv: the pixels written so far are the ones looked for.
BackgroundInv ==
    /\ RegistersHold /\ CacheHolds
    /\ DOMAIN display = Columns /\ pixel \in 0..PIXELS_PER_ROW
    /\ pc \in {"background", "sort"} /\ "background" \in control =>
          \A c \in 0..(pixel - 1) : display[c] = Mapped(c)

\* BackgroundSteps: a turn of the loop of drawBackground() finds its pixel, cached or not.
LEMMA BackgroundSteps ==
    ASSUME BackgroundInv, DrawPixel
    PROVE  BackgroundInv'
<1> DEFINE layer == LayerOf(pixel)
           col == PlaneColumn(pixel)
           tx == col \div TILE
           found == IF cache[layer].x = tx THEN cache[layer]
                    ELSE [x |-> tx, pixels |-> RowIn(layer, tx)]
<1>1. pixel \in 0..(PIXELS_PER_ROW - 1) /\ pixel \in Columns
      /\ pixel' = pixel + 1 /\ pixel' \in 0..PIXELS_PER_ROW
  <2>1. pixel < PIXELS_PER_ROW /\ pixel' = pixel + 1
    BY Zenon DEF DrawPixel
  <2>2. pixel \in 0..PIXELS_PER_ROW
    BY DEF BackgroundInv
  <2>3. QED
    BY <2>1, <2>2, Sizes
<1>2. layer \in {Background, Window}
  BY DEF LayerOf
<1>3. /\ cache' = [cache EXCEPT ![layer] = found]
      /\ display' = [display EXCEPT ![pixel] = found.pixels[col % TILE]]
  <2>1. Window # Background
    BY DEF Window, Background
  <2>2. QED
    BY <2>1 DEF DrawPixel, LayerOf, PlaneColumn, RowIn, RowOf
<1>4. UNCHANGED <<m_scanline, m_x, m_y, m_winX, m_winY, control, cgb, sprites, pc>>
  BY DEF DrawPixel, registers
<1>5. tx \in Nat
  <2>1. \A n \in Int, d \in Nat \ {0} : n % d \in 0..(d - 1)
    OBVIOUS
  <2>2. \A n \in Nat, d \in Nat \ {0} : n \div d \in Nat
    OBVIOUS
  <2>3. col \in Nat
    <3> DEFINE place == IF IsWindowSelected(pixel, m_scanline)
                           THEN pixel - m_winX + WINDOW_ROW_OFFSET ELSE m_x + pixel
    <3>1. place \in Int
      BY <1>1, Sizes DEF BackgroundInv, RegistersHold
    <3>2. col = place % BYTE
      BY DEF PlaneColumn
    <3> HIDE DEF place, col
    <3>3. place % BYTE \in 0..(BYTE - 1)
      BY <2>1, <3>1, Sizes
    <3>4. QED
      BY <3>2, <3>3
  <2> HIDE DEF col
  <2>4. QED
    BY <2>2, <2>3, Sizes
<1>6. found.x = tx /\ found.pixels = RowIn(layer, tx)
  <2>1. CASE cache[layer].x = tx
    <3>1. cache[layer].x # -1
      BY <1>5, <2>1
    <3>2. cache[layer].pixels = RowIn(layer, cache[layer].x)
      BY <1>2, <3>1 DEF BackgroundInv, CacheHolds
    <3>3. QED
      BY <2>1, <3>2
  <2>2. CASE cache[layer].x # tx
    BY <2>2
  <2>3. QED
    BY <2>1, <2>2
<1>7. /\ Mapped(pixel) = RowIn(layer, tx)[col % TILE]
      /\ \A l, t : RowIn(l, t)' = RowIn(l, t)
      /\ \A c : Mapped(c)' = Mapped(c)
  BY <1>4 DEF Mapped, RowIn, RowOf, LayerOf, PlaneColumn, TileRow, MirrorX,
     MirrorY, IsWindowSelected
<1> HIDE DEF layer, col, tx, found
<1>8. CacheHolds'
  <2>1. DOMAIN cache' = {Background, Window}
    BY <1>3 DEF BackgroundInv, CacheHolds
  <2>2. ASSUME NEW l \in {Background, Window}, cache'[l].x # -1
        PROVE  cache'[l].pixels = RowIn(l, cache'[l].x)
    <3>1. CASE l = layer
      BY <1>2, <1>3, <1>6, <3>1 DEF BackgroundInv, CacheHolds
    <3>2. CASE l # layer
      BY <1>3, <2>2, <3>2 DEF BackgroundInv, CacheHolds
    <3>3. QED
      BY <3>1, <3>2
  <2>3. QED
    BY <1>7, <2>1, <2>2 DEF CacheHolds
<1>9. \A c \in 0..pixel : display'[c] = Mapped(c)
  <2>1. SUFFICES ASSUME NEW c \in 0..pixel PROVE display'[c] = Mapped(c)
    OBVIOUS
  <2>2. CASE c = pixel
    BY <1>1, <1>3, <1>6, <1>7, <2>2 DEF BackgroundInv
  <2>3. CASE c # pixel
    <3>1. c \in 0..(pixel - 1)
      BY <1>1, <2>3
    <3>2. display[c] = Mapped(c)
      BY <3>1 DEF BackgroundInv, DrawPixel
    <3>3. QED
      BY <1>3, <2>3, <3>2
  <2>4. QED
    BY <2>2, <2>3
<1>10. pixel' - 1 = pixel
  BY <1>1
<1>11. RegistersHold'
  BY <1>4 DEF BackgroundInv, RegistersHold
<1>12. DOMAIN display' = Columns
  BY <1>3 DEF BackgroundInv
<1>13. Columns' = Columns
  BY DEF Columns
<1>14. QED
  BY <1>1, <1>7, <1>8, <1>9, <1>10, <1>11, <1>12, <1>13 DEF BackgroundInv

\* BackgroundHolds: no step of draw() takes the background what it has.
LEMMA BackgroundHolds ==
    ASSUME BackgroundInv, [LineNext]_lineVars
    PROVE  BackgroundInv'
<1>1. CASE DrawPixel
  BY <1>1, BackgroundSteps
<1>2. ASSUME UNCHANGED <<registers, pixel, cache>>,
             DOMAIN display' = Columns, pc' \in {"background", "sort"} => display' = display,
             pc' \in {"background", "sort"} => pc \in {"background", "sort"}
      PROVE  BackgroundInv'
  <2>0. UNCHANGED <<m_scanline, m_x, m_y, m_winX, m_winY, control, cgb, sprites, pixel, cache>>
    BY <1>2 DEF registers
  <2>1. /\ \A l, t : RowIn(l, t)' = RowIn(l, t)
        /\ \A c : Mapped(c)' = Mapped(c)
    BY <2>0 DEF Mapped, RowIn, RowOf, LayerOf, PlaneColumn, TileRow, MirrorX,
       MirrorY, IsWindowSelected
  <2>2. RegistersHold' /\ CacheHolds'
    BY <2>0, <2>1 DEF BackgroundInv, RegistersHold, CacheHolds
  <2>3. Columns' = Columns
    BY DEF Columns
  <2>4. QED
    BY <1>2, <2>0, <2>1, <2>2, <2>3 DEF BackgroundInv
<1>3. CASE EndBackground \/ SortSprites \/ Finish \/ UNCHANGED lineVars
  <2>1. /\ UNCHANGED <<registers, pixel, cache, display>>
        /\ pc' \in {"background", "sort"} => pc \in {"background", "sort"}
    BY <1>3 DEF EndBackground, SortSprites, Finish, lineVars, registers
  <2>2. QED
    BY <1>2, <2>1 DEF BackgroundInv
<1>4. CASE RenderSprite
  <2>1. /\ UNCHANGED <<registers, pixel, cache>>
        /\ pc' = "sprites"
    BY <1>4, Zenon DEF RenderSprite, registers
  <2>2. DOMAIN display' = Columns
    BY <1>4 DEF RenderSprite
  <2>3. QED
    BY <1>2, <2>1, <2>2
<1>5. QED
  BY <1>1, <1>3, <1>4 DEF LineNext

\* BackgroundStarts: with nothing drawn and nothing cached.
LEMMA BackgroundStarts ==
    ASSUME LineInit
    PROVE  BackgroundInv
<1>1. pixel = 0 /\ cache = [layer \in {Background, Window} |-> Missing]
      /\ display = [c \in Columns |-> OldPixel]
  BY Zenon DEF LineInit
<1>2. RegistersHold
  BY RegistersStart
<1>3. CacheHolds
  BY <1>1 DEF CacheHolds, Missing
<1>4. QED
  BY <1>1, <1>2, <1>3, Sizes DEF BackgroundInv

\* InWindow: the window covers the column on this scanline.
InWindow(c) ==
    "window" \in control /\ m_scanline >= m_winY /\ c >= m_winX - WINDOW_ROW_OFFSET

\* OnThePlane: the coordinates of a pixel, modulo 256 in the code, are those on the plane.
LEMMA OnThePlane ==
    ASSUME RegistersHold, NEW c \in Columns
    PROVE  /\ LayerOf(c) = IF InWindow(c) THEN Window ELSE Background
           /\ PlaneColumn(c) = IF InWindow(c) THEN c - (m_winX - WINDOW_ROW_OFFSET)
                               ELSE (m_x + c) % BYTE
           /\ RowOf(LayerOf(c)) = IF InWindow(c) THEN m_scanline - m_winY
                                  ELSE (m_y + m_scanline) % BYTE
<1>1. /\ c \in 0..(PIXELS_PER_ROW - 1) /\ m_scanline \in 0..(SCREEN_HEIGHT - 1)
      /\ m_winX \in 0..(BYTE - 1) /\ m_winY \in 0..(BYTE - 1)
  BY Sizes DEF RegistersHold
<1>2. IsWindowSelected(c, m_scanline) <=> InWindow(c)
  <2>1. /\ m_scanline < SCREEN_HEIGHT /\ c < PIXELS_PER_ROW + WINDOW_ROW_OFFSET
        /\ (c + WINDOW_ROW_OFFSET >= m_winX) <=> (c >= m_winX - WINDOW_ROW_OFFSET)
    BY <1>1, Sizes
  <2>2. QED
    BY <2>1, Zenon DEF IsWindowSelected, InWindow
<1>3. \A n \in Nat : n < BYTE => n % BYTE = n
  BY Sizes
<1>4. Window # Background
  BY DEF Window, Background
<1>5. CASE InWindow(c)
  <2>1. c - m_winX + WINDOW_ROW_OFFSET \in Nat
        /\ c - m_winX + WINDOW_ROW_OFFSET < BYTE
        /\ c - m_winX + WINDOW_ROW_OFFSET = c - (m_winX - WINDOW_ROW_OFFSET)
    BY <1>1, <1>5, Sizes DEF InWindow
  <2>2. m_scanline - m_winY \in Nat /\ m_scanline - m_winY < BYTE
    BY <1>1, <1>5, Sizes DEF InWindow
  <2>3. LayerOf(c) = Window
    BY <1>2, <1>5 DEF LayerOf
  <2>4. PlaneColumn(c) = c - (m_winX - WINDOW_ROW_OFFSET)
    BY <1>2, <1>3, <1>5, <2>1 DEF PlaneColumn
  <2>5. RowOf(Window) = m_scanline - m_winY
    BY <1>3, <2>2 DEF RowOf
  <2>6. QED
    BY <1>5, <2>3, <2>4, <2>5
<1>6. CASE ~InWindow(c)
  BY <1>2, <1>4, <1>6 DEF LayerOf, PlaneColumn, RowOf
<1>7. QED
  BY <1>5, <1>6

\* BackgroundIsRight: on a screen of any size, with tiles of any size, every pixel of the
\* background and of the window is the one that lies there, whatever the caches hold
\* (GPU::drawBackground(), lookup()).
THEOREM BackgroundIsRight ==
    LineSpec => []BackgroundIsMapped
<1>1. LineInit => BackgroundInv
  BY BackgroundStarts
<1>2. BackgroundInv /\ [LineNext]_lineVars => BackgroundInv'
  BY BackgroundHolds
<1>3. BackgroundInv => BackgroundIsMapped
  <2>1. SUFFICES ASSUME BackgroundInv, pc \in {"background", "sort"}, "background" \in control,
                        NEW c \in 0..(pixel - 1)
                 PROVE  LET win == /\ "window" \in control /\ m_scanline >= m_winY
                                   /\ c >= m_winX - WINDOW_ROW_OFFSET
                            col == IF win THEN c - (m_winX - WINDOW_ROW_OFFSET)
                                   ELSE (m_x + c) % BYTE
                            row == IF win THEN m_scanline - m_winY ELSE (m_y + m_scanline) % BYTE
                        IN display[c] = TileRow(IF win THEN Window ELSE Background,
                                                  col \div TILE, row \div TILE,
                                                  row % TILE)[col % TILE]
    BY Zenon DEF BackgroundIsMapped
  <2>2. c \in Columns
    <3>1. pixel \in 0..PIXELS_PER_ROW
      BY <2>1, Zenon DEF BackgroundInv
    <3>2. QED
      BY <3>1, Sizes
  <2>3. RegistersHold /\ display[c] = Mapped(c)
    BY <2>1 DEF BackgroundInv
  <2>4. /\ LayerOf(c) = IF InWindow(c) THEN Window ELSE Background
        /\ PlaneColumn(c) = IF InWindow(c) THEN c - (m_winX - WINDOW_ROW_OFFSET)
                            ELSE (m_x + c) % BYTE
        /\ RowOf(LayerOf(c)) = IF InWindow(c) THEN m_scanline - m_winY
                                  ELSE (m_y + m_scanline) % BYTE
    BY <2>2, <2>3, OnThePlane
  <2>5. display[c] = TileRow(LayerOf(c), PlaneColumn(c) \div TILE, RowOf(LayerOf(c)) \div TILE,
                               RowOf(LayerOf(c)) % TILE)[PlaneColumn(c) % TILE]
    BY <2>3, Zenon DEF Mapped, RowIn
  <2>6. QED
    BY <2>4, <2>5 DEF InWindow
<1>4. QED
  BY <1>1, <1>2, <1>3, PTL DEF LineSpec

-----------------------------------------------------------------------------
(* What std::sort() finds: a finite set that is totally ordered by R has a sorted sequence. *)

\* Induction: the natural numbers are contained in every set that has 0 and successors.
LEMMA SetInduction ==
    ASSUME NEW S, 0 \in S, \A n \in Nat : n \in S => n + 1 \in S
    PROVE  Nat \subseteq S
<1>1. SUFFICES ASSUME Nat \ S # {} PROVE FALSE
  OBVIOUS
<1>2. PICK x \in Nat \ S : \A y \in Nat \ S : ~(<<y, x>> \in OpToRel(<, Nat))
  BY <1>1, NatLessThanWellFounded, WFMin
<1>3. \A y \in Nat : y < x => y \in S
  BY <1>2 DEF OpToRel
<1>4. x \in Nat /\ x \notin S /\ x # 0
  BY <1>2
<1>5. x - 1 \in Nat /\ x - 1 < x /\ (x - 1) + 1 = x
  BY <1>4
<1>6. x - 1 \in S
  BY <1>3, <1>5
<1>7. QED
  BY <1>4, <1>5, <1>6

\* R orders S totally.
Orders(R, S) ==
    /\ \A a, b \in S : a # b => <<a, b>> \in R \/ <<b, a>> \in R
    /\ \A a \in S : <<a, a>> \notin R
    /\ \A a, b, c \in S : <<a, b>> \in R /\ <<b, c>> \in R => <<a, c>> \in R

\* Least: a finite set that is not empty has a first element.
LEMMA Least ==
    ASSUME NEW R, NEW S, IsFiniteSet(S), Orders(R, S), S # {}
    PROVE  \E x \in S : \A y \in S \ {x} : <<x, y>> \in R
<1> DEFINE First(T) == \E x \in T : \A y \in T \ {x} : <<x, y>> \in R
           N == {n \in Nat : \A T \in SUBSET S : Cardinality(T) = n + 1 => First(T)}
<1>1. \A T \in SUBSET S : IsFiniteSet(T) /\ Cardinality(T) \in Nat
  BY FS_Subset, FS_CardinalityType
<1>2. ASSUME NEW T \in SUBSET S, NEW x \in T
      PROVE  /\ T \ {x} \in SUBSET S /\ Cardinality(T \ {x}) = Cardinality(T) - 1
             /\ T \ {x} = {} \/ Cardinality(T \ {x}) # 0
  <2>1. Cardinality(T \ {x}) = Cardinality(T) - 1
    BY <1>1, FS_RemoveElement
  <2>2. IsFiniteSet(T \ {x})
    BY <1>1
  <2>3. QED
    BY <2>1, <2>2, FS_EmptySet
<1>3. 0 \in N
  <2>1. SUFFICES ASSUME NEW T \in SUBSET S, Cardinality(T) = 1 PROVE First(T)
    OBVIOUS
  <2>2. PICK x \in T : TRUE
    BY <2>1, FS_EmptySet
  <2>3. T \ {x} = {}
    <3>1. Cardinality(T \ {x}) = Cardinality(T) - 1
          /\ (T \ {x} = {} \/ Cardinality(T \ {x}) # 0)
      BY <1>2, <2>2
    <3>2. QED
      BY <2>1, <3>1
  <2>4. QED
    BY <2>2, <2>3
<1>4. ASSUME NEW n \in Nat, n \in N PROVE n + 1 \in N
  <2>1. SUFFICES ASSUME NEW T \in SUBSET S, Cardinality(T) = n + 2 PROVE First(T)
    OBVIOUS
  <2>2. PICK x \in T : TRUE
    BY <2>1, FS_EmptySet
  <2>3. Cardinality(T \ {x}) = n + 1 /\ T \ {x} \in SUBSET S
    BY <1>2, <2>1, <2>2
  <2>4. PICK y \in T \ {x} : \A z \in (T \ {x}) \ {y} : <<y, z>> \in R
    BY <1>4, <2>3
  <2>5. CASE <<x, y>> \in R
    <3>1. \A z \in T \ {x} : <<x, z>> \in R
      BY <2>2, <2>4, <2>5 DEF Orders
    <3>2. QED
      BY <2>2, <3>1
  <2>6. CASE <<y, x>> \in R
    <3>1. \A z \in T \ {y} : <<y, z>> \in R
      BY <2>2, <2>4, <2>6
    <3>2. QED
      BY <2>4, <3>1
  <2>7. QED
    BY <2>2, <2>4, <2>5, <2>6 DEF Orders
<1>5. Cardinality(S) # 0
  BY FS_EmptySet
<1>6. Cardinality(S) - 1 \in Nat /\ (Cardinality(S) - 1) + 1 = Cardinality(S)
  BY <1>1, <1>5
<1>7. Cardinality(S) - 1 \in N
  <2> HIDE DEF N
  <2>1. Nat \subseteq N
    BY <1>3, <1>4, SetInduction
  <2>2. QED
    BY <1>6, <2>1
<1>8. QED
  BY <1>6, <1>7

\* A sorted sequence of all elements.
InOrder(s, n, R, S) ==
    /\ \A i, j \in 1..n : i < j => <<s[i], s[j]>> \in R
    /\ \A x \in S : \E i \in 1..n : s[i] = x

\* Sortable: there is a sorted sequence.
LEMMA Sortable ==
    ASSUME NEW R, NEW S, IsFiniteSet(S), Orders(R, S)
    PROVE  \E s \in [1..Cardinality(S) -> S] : InOrder(s, Cardinality(S), R, S)
<1> DEFINE N == {n \in Nat : \A T \in SUBSET S : Cardinality(T) = n
                               => \E s \in [1..n -> T] : InOrder(s, n, R, T)}
<1>1. \A T \in SUBSET S : IsFiniteSet(T) /\ Cardinality(T) \in Nat
  BY FS_Subset, FS_CardinalityType
<1>2. 0 \in N
  <2>1. SUFFICES ASSUME NEW T \in SUBSET S, Cardinality(T) = 0
                 PROVE  \E s \in [1..0 -> T] : InOrder(s, 0, R, T)
    OBVIOUS
  <2>2. T = {}
    BY <1>1, <2>1, FS_EmptySet
  <2> DEFINE s == [i \in 1..0 |-> 0]
  <2>3. s \in [1..0 -> T] /\ InOrder(s, 0, R, T)
    BY <2>2 DEF InOrder
  <2>4. QED
    BY <2>3
<1>3. ASSUME NEW n \in Nat, n \in N PROVE n + 1 \in N
  <2>1. SUFFICES ASSUME NEW T \in SUBSET S, Cardinality(T) = n + 1
                 PROVE  \E s \in [1..(n + 1) -> T] : InOrder(s, n + 1, R, T)
    OBVIOUS
  <2>2. T # {}
    BY <2>1, FS_EmptySet
  <2>3. Orders(R, T)
    BY DEF Orders
  <2>4. PICK x \in T : \A y \in T \ {x} : <<x, y>> \in R
    BY <1>1, <2>2, <2>3, Least
  <2>5. Cardinality(T \ {x}) = n /\ T \ {x} \in SUBSET S
    <3>1. IsFiniteSet(T) /\ x \in T
      BY <1>1, <2>4
    <3>2. Cardinality(T \ {x}) = Cardinality(T) - 1
      BY <3>1, FS_RemoveElement
    <3>3. QED
      BY <2>1, <3>2
  <2>6. PICK r \in [1..n -> T \ {x}] : InOrder(r, n, R, T \ {x})
    BY <1>3, <2>5
  <2> DEFINE s == [i \in 1..(n + 1) |-> IF i = 1 THEN x ELSE r[i - 1]]
  <2>7. \A i \in 1..(n + 1) : i # 1 => i - 1 \in 1..n /\ r[i - 1] \in T \ {x}
    BY <2>6
  <2>8. s \in [1..(n + 1) -> T]
    BY <2>7
  <2>9. ASSUME NEW i \in 1..(n + 1), NEW j \in 1..(n + 1), i < j PROVE <<s[i], s[j]>> \in R
    <3>1. s[j] = r[j - 1] /\ j - 1 \in 1..n /\ r[j - 1] \in T \ {x}
      BY <2>7, <2>9
    <3>2. CASE i = 1
      BY <2>4, <3>1, <3>2
    <3>3. CASE i # 1
      <4>1. s[i] = r[i - 1] /\ i - 1 \in 1..n /\ i - 1 < j - 1
        BY <2>7, <2>9, <3>3
      <4>2. QED
        BY <2>6, <3>1, <4>1 DEF InOrder
    <3>4. QED
      BY <3>2, <3>3
  <2>10. ASSUME NEW y \in T PROVE \E i \in 1..(n + 1) : s[i] = y
    <3>1. CASE y = x
      BY <3>1
    <3>2. CASE y # x
      <4>1. PICK i \in 1..n : r[i] = y
        BY <2>6, <3>2 DEF InOrder
      <4>2. i + 1 \in 1..(n + 1) /\ i + 1 # 1 /\ (i + 1) - 1 = i
        OBVIOUS
      <4>3. s[i + 1] = y
        BY <4>1, <4>2
      <4>4. QED
        BY <4>2, <4>3
    <3>3. QED
      BY <3>1, <3>2
  <2> HIDE DEF s
  <2>11. InOrder(s, n + 1, R, T)
    BY <2>9, <2>10 DEF InOrder
  <2>12. QED
    BY <2>8, <2>11
<1>4. Cardinality(S) \in N
  <2> HIDE DEF N
  <2>1. Nat \subseteq N
    BY <1>2, <1>3, SetInduction
  <2>2. QED
    BY <1>1, <2>1
<1>5. QED
  BY <1>4

\* SortedRight: the sprites of a line in the order in which they are drawn, each once.
LEMMA SortedRight ==
    ASSUME RegistersHold, NEW V \in SUBSET Slots
    PROVE  /\ Cardinality(V) \in Nat
           /\ Sorted(V) \in [1..Cardinality(V) -> V]
           /\ \A i, j \in 1..Cardinality(V) :
                 i < j => DrawnBefore(Sorted(V)[i], Sorted(V)[j])
           /\ \A k \in V : \E i \in 1..Cardinality(V) : Sorted(V)[i] = k
<1> DEFINE R == {p \in Slots \X Slots : DrawnBefore(p[1], p[2])}
           n == Cardinality(V)
           Good(s) == \A i, j \in 1..n : i < j => DrawnBefore(s[i], s[j])
<1>1. /\ Slots \subseteq Nat /\ IsFiniteSet(V) /\ n \in Nat
      /\ \A k \in Slots : sprites[k].x \in Nat
  <2>1. Slots \subseteq Nat /\ IsFiniteSet(Slots)
    BY ScanlineAssumption
  <2>3. IsFiniteSet(V)
    BY <2>1, FS_Subset
  <2>4. \A k \in Slots : sprites[k].x \in 0..(BYTE - 1)
    BY DEF RegistersHold, SpriteTypes
  <2>5. QED
    BY <2>1, <2>3, <2>4, FS_CardinalityType
<1>3. /\ \A a, b \in V : a # b => DrawnBefore(a, b) \/ DrawnBefore(b, a)
      /\ \A a \in V : ~DrawnBefore(a, a)
      /\ \A a, b, c \in V : DrawnBefore(a, b) /\ DrawnBefore(b, c)
                               => DrawnBefore(a, c)
  <2>1. \A a \in V : a \in Nat /\ sprites[a].x \in Nat
    BY <1>1
  <2>2. CASE cgb
    BY <2>1, <2>2 DEF DrawnBefore
  <2>3. CASE ~cgb
    BY <2>1, <2>3 DEF DrawnBefore
  <2>4. QED
    BY <2>2, <2>3
<1>4. \A a, b \in V : <<a, b>> \in R <=> DrawnBefore(a, b)
  OBVIOUS
<1> HIDE DEF R, n
<1>5. Orders(R, V)
  BY <1>3, <1>4 DEF Orders
<1>6. PICK r \in [1..n -> V] : InOrder(r, n, R, V)
  BY <1>1, <1>5, Sortable DEF n
<1>7. Good(r)
  BY <1>4, <1>6 DEF InOrder
<1>8. Sorted(V) = CHOOSE s \in [1..n -> V] : Good(s)
  <2>1. Sorted(V) = CHOOSE s \in [1..n -> V] :
                            \A i, j \in DOMAIN s : i < j => DrawnBefore(s[i], s[j])
    BY Zenon DEF Sorted, n
  <2>2. \A s \in [1..n -> V] :
           (\A i, j \in DOMAIN s : i < j => DrawnBefore(s[i], s[j])) <=> Good(s)
    OBVIOUS
  <2> HIDE DEF Good
  <2>3. QED
    BY <2>1, <2>2
<1> DEFINE sorted == Sorted(V)
<1>9. sorted \in [1..n -> V] /\ Good(sorted)
  <2> HIDE DEF Good
  <2>1. QED
    BY <1>7, <1>8
<1> HIDE DEF sorted
<1>10. \A k \in V : \E i \in 1..n : sorted[i] = k
  <2>1. \A i, j \in 1..n : sorted[i] = sorted[j] => i = j
    <3>1. SUFFICES ASSUME NEW i \in 1..n, NEW j \in 1..n, i # j PROVE sorted[i] # sorted[j]
      OBVIOUS
    <3>2. i < j \/ j < i
      BY <1>1, <3>1
    <3>3. DrawnBefore(sorted[i], sorted[j]) \/ DrawnBefore(sorted[j], sorted[i])
      BY <1>9, <3>2
    <3>4. sorted[i] \in V /\ sorted[j] \in V
      BY <1>9
    <3>5. QED
      BY <1>3, <3>3, <3>4
  <2>2. sorted \in Injection(1..n, V)
    BY <1>9, <2>1 DEF Injection, IsInjective
  <2>3. Cardinality(1..n) = Cardinality(V)
    BY <1>1, FS_Interval DEF n
  <2>4. sorted \in Surjection(1..n, V)
    BY <1>1, <2>2, <2>3, FS_Injection
  <2>5. QED
    BY <2>4 DEF Surjection
<1>11. QED
  BY <1>1, <1>9, <1>10 DEF n, sorted

-----------------------------------------------------------------------------
\* Divided: what divisions of integers return.
LEMMA Divided ==
    ASSUME NEW n \in Int, NEW w \in Nat \ {0}
    PROVE  n \div w \in Int /\ n % w \in 0..(w - 1) /\ n = w * (n \div w) + (n % w)
  OBVIOUS

\* Times: the first products of a size.
LEMMA Times ==
    ASSUME NEW q \in Int, NEW w \in Nat \ {0}
    PROVE  /\ w * q \in Int
           /\ q >= 0 => w * q >= 0
           /\ q >= 1 => w * q >= w
           /\ q >= 2 => w * q >= 2 * w
           /\ q <= 0 - 1 => w * q <= 0 - w
           /\ q <= 0 - 2 => w * q <= 0 - (2 * w)
           /\ q = 0 => w * q = 0
           /\ q = 1 => w * q = w
           /\ q = 0 - 1 => w * q = 0 - w
  OBVIOUS

\* BelowZero: a byte wraps around below zero.
LEMMA BelowZero ==
    ASSUME NEW n \in Int, NEW w \in Nat \ {0}, n < 0, n + w >= 0
    PROVE  n % w = n + w
<1> DEFINE q == n \div w
           r == n % w
           p == w * q
<1>1. q \in Int /\ r \in 0..(w - 1) /\ n = p + r
  BY Divided
<1>2. /\ p \in Int /\ (q >= 0 => p >= 0) /\ (q <= 0 - 2 => p <= 0 - (2 * w))
      /\ (q = 0 - 1 => p = 0 - w)
  BY <1>1, Times
<1> HIDE DEF q, r, p
<1>3. r = n + w
  BY <1>1, <1>2
<1>4. QED
  BY <1>3 DEF r

\* TileOf: the half of two tiles that a row lies in.
LEMMA TileOf ==
    ASSUME NEW n \in Int, NEW w \in Nat \ {0}, 0 <= n, n < 2 * w
    PROVE  n \div w = IF n >= w THEN 1 ELSE 0
<1> DEFINE q == n \div w
           r == n % w
           p == w * q
<1>1. q \in Int /\ r \in 0..(w - 1) /\ n = p + r
  BY Divided
<1>2. /\ p \in Int /\ (q >= 2 => p >= 2 * w) /\ (q <= 0 - 1 => p <= 0 - w)
      /\ (q = 0 => p = 0) /\ (q = 1 => p = w)
  BY <1>1, Times
<1> HIDE DEF q, r, p
<1>3. q = IF n >= w THEN 1 ELSE 0
  BY <1>1, <1>2
<1>4. QED
  BY <1>3 DEF q

\* Even: the upper tile of a pair of tiles.
LEMMA Even ==
    ASSUME NEW n \in Int, NEW w \in Nat \ {0}, w % 2 = 0, 0 <= n, n < w
    PROVE  2 * (n \div 2) >= 0 /\ 2 * (n \div 2) + 1 < w
  OBVIOUS

-----------------------------------------------------------------------------
\* SpritePlace: the coordinates of a visible sprite, modulo 256 in the code, are those of its
\* picture, and only what is visible is on the screen.
LEMMA SpritePlace ==
    ASSUME RegistersHold, NEW k \in Slots
    PROVE  /\ \A c \in Columns : OnScreen(k, c) => IsVisible(sprites[k])
           /\ IsVisible(sprites[k]) =>
                 /\ sprites[k].x # 0 /\ sprites[k].y # 0
                 /\ LineOf(k) \in 0..(Height - 1)
                 /\ \A c \in Columns, i \in InTile :
                       (sprites[k].x + i - SPRITE_X_OFFSET) % BYTE = c
                          <=> i = ColumnOf(k, c)
<1> DEFINE x == sprites[k].x
           y == sprites[k].y
           height == Height
<1>0. /\ TILE \in Nat \ {0} /\ PIXELS_PER_ROW \in Nat /\ SCREEN_HEIGHT \in Nat
      /\ BYTE \in Nat \ {0} /\ PIXELS_PER_ROW + 2 * TILE < BYTE
      /\ SCREEN_HEIGHT + 2 * TILE < BYTE
  BY Sizes
<1>1. /\ x \in 0..(BYTE - 1) /\ y \in 0..(BYTE - 1)
      /\ m_scanline \in 0..(SCREEN_HEIGHT - 1)
  BY DEF RegistersHold, SpriteTypes
<1>2. (m_scanline + 2 * TILE) % BYTE = m_scanline + 2 * TILE
  <2>1. \A n \in Nat : n < BYTE => n % BYTE = n
    BY Sizes
  <2>2. m_scanline + 2 * TILE \in Nat /\ m_scanline + 2 * TILE < BYTE
    BY <1>1, Sizes
  <2>3. QED
    BY <2>1, <2>2
<1>3. IsVisible(sprites[k]) <=> /\ x # 0 /\ y # 0
                                     /\ x < PIXELS_PER_ROW + TILE
                                     /\ y < SCREEN_HEIGHT + 2 * TILE
                                     /\ m_scanline + 2 * TILE \in y..(y + height - 1)
  BY <1>2, Sizes DEF IsVisible
<1>4. LineOf(k) = m_scanline - (y - 2 * TILE)
      /\ \A c : ColumnOf(k, c) = c - (x - TILE)
  BY Sizes DEF LineOf, ColumnOf
<1>5. height \in {TILE, 2 * TILE}
  BY Sizes
<1> HIDE DEF x, y, height
<1>6. ASSUME NEW c \in Columns, OnScreen(k, c) PROVE IsVisible(sprites[k])
  <2>1. /\ x # 0 /\ y # 0 /\ m_scanline - (y - 2 * TILE) \in 0..(height - 1)
        /\ c - (x - TILE) \in 0..(TILE - 1)
    BY <1>4, <1>6, Sizes DEF OnScreen, x, y, height
  <2>2. c \in 0..(PIXELS_PER_ROW - 1)
    BY Sizes
  <2>3. x < PIXELS_PER_ROW + TILE
    BY <1>0, <1>1, <2>1, <2>2
  <2>4. y < SCREEN_HEIGHT + 2 * TILE /\ m_scanline + 2 * TILE \in y..(y + height - 1)
    BY <1>0, <1>1, <1>5, <2>1
  <2>5. QED
    BY <1>3, <2>1, <2>3, <2>4
<1>7. ASSUME IsVisible(sprites[k]), NEW c \in Columns, NEW i \in InTile
      PROVE  (x + i - TILE) % BYTE = c <=> i = c - (x - TILE)
  <2> DEFINE v == x + i - TILE
  <2>1. c \in 0..(PIXELS_PER_ROW - 1) /\ i \in 0..(TILE - 1) /\ x < PIXELS_PER_ROW + TILE
        /\ x # 0
    BY <1>3, <1>7, Sizes
  <2>2. v \in Int /\ v < BYTE /\ v > 0 - TILE /\ (v = c <=> i = c - (x - TILE))
    BY <1>0, <1>1, <2>1
  <2> HIDE DEF v
  <2>3. CASE v >= 0
    <3>1. v % BYTE = v
      BY <2>2, <2>3, Sizes
    <3>2. QED
      BY <2>2, <3>1 DEF v
  <2>4. CASE v < 0
    <3>1. v % BYTE = v + BYTE
      <4>1. v \in Int /\ v + BYTE >= 0
        BY <1>0, <2>2
      <4>2. QED
        BY <1>0, <2>4, <4>1, BelowZero
    <3>2. v + BYTE > PIXELS_PER_ROW /\ v # c
      BY <1>0, <2>1, <2>2, <2>4
    <3>3. v % BYTE # c
      BY <1>0, <2>1, <3>1, <3>2
    <3>4. QED
      BY <2>2, <3>2, <3>3 DEF v
  <2>5. QED
    BY <2>2, <2>3, <2>4
<1>8. ASSUME IsVisible(sprites[k])
      PROVE  /\ x # 0 /\ y # 0 /\ m_scanline - (y - 2 * TILE) \in 0..(height - 1)
  BY <1>0, <1>1, <1>3, <1>5, <1>8
<1>9. QED
  BY <1>4, <1>6, <1>7, <1>8, Sizes DEF x, y, height

\* SpriteRow: what readSprite() reads of a visible sprite is the row of its picture.
LEMMA SpriteRow ==
    ASSUME RegistersHold, NEW k \in Slots, IsVisible(sprites[k]),
           NEW c \in Columns, ColumnOf(k, c) \in InTile
    PROVE  ReadSprite(k)[ColumnOf(k, c)] = Picture(k, c)
<1> DEFINE s == sprites[k]
           height == Height
           at == LineOf(k)
           above == s.y < SPRITE_Y_OFFSET
           read == (IF above THEN SPRITE_Y_OFFSET - s.y + m_scanline
                             ELSE m_scanline - (s.y - SPRITE_Y_OFFSET)) % BYTE
           row == IF s.flipY THEN (height - read - 1) % BYTE ELSE read
           base == IF "extended" \in control THEN 2 * (s.tile \div 2) ELSE s.tile
           tile == (base + (IF row >= TILE THEN 1 ELSE 0)) % BYTE
           right == IF s.flipY THEN height - 1 - at ELSE at
<1>0. /\ TILE \in Nat \ {0} /\ PIXELS_PER_ROW \in Nat /\ SCREEN_HEIGHT \in Nat
      /\ BYTE \in Nat \ {0} /\ PIXELS_PER_ROW + 2 * TILE < BYTE
      /\ SCREEN_HEIGHT + 2 * TILE < BYTE
  BY Sizes
<1>1. /\ s.y \in Int /\ s.y \in 0..(BYTE - 1) /\ s.tile \in 0..(BYTE - 1)
      /\ m_scanline \in 0..(SCREEN_HEIGHT - 1)
  BY DEF RegistersHold, SpriteTypes
<1>2. at \in 0..(height - 1)
  BY SpritePlace
<1>3. at = m_scanline - (s.y - 2 * TILE) /\ SPRITE_Y_OFFSET = 2 * TILE
  BY Sizes DEF LineOf
<1>4. \A n \in Nat : n < BYTE => n % BYTE = n
  BY Sizes
<1>5. height \in {TILE, 2 * TILE} /\ height < BYTE
      /\ ("extended" \notin control => height = TILE)
  BY Sizes DEF Height
<1> HIDE DEF at, height
<1>6. read = at
  <2>1. (IF above THEN SPRITE_Y_OFFSET - s.y + m_scanline
                  ELSE m_scanline - (s.y - SPRITE_Y_OFFSET)) = at
    BY <1>0, <1>1, <1>3
  <2>2. at \in Nat /\ at < BYTE
    BY <1>2, <1>5, Sizes
  <2>3. QED
    BY <1>4, <2>1, <2>2
<1> HIDE DEF read
<1>7. row = right /\ right \in 0..(height - 1)
  <2>1. height - at - 1 \in Nat /\ height - at - 1 < BYTE /\ height - at - 1 = height - 1 - at
        /\ height - at - 1 \in 0..(height - 1)
    BY <1>2, <1>5, Sizes
  <2>2. QED
    BY <1>2, <1>4, <1>6, <2>1
<1> HIDE DEF row, right
<1>8. right \div TILE = IF right >= TILE THEN 1 ELSE 0
  <2>1. right \in Int /\ 0 <= right /\ right < 2 * TILE
    BY <1>0, <1>5, <1>7
  <2>2. QED
    BY <1>0, <2>1, TileOf
<1>9. tile = base + right \div TILE
  <2>1. tile = (base + right \div TILE) % BYTE
    BY <1>7, <1>8
  <2>2. base + right \div TILE \in Nat /\ base + right \div TILE < BYTE
    <3>1. CASE "extended" \in control
      <4>1. BYTE % 2 = 0
        BY ScanlineAssumption
      <4>2. 2 * (s.tile \div 2) >= 0 /\ 2 * (s.tile \div 2) + 1 < BYTE
            /\ s.tile \div 2 \in Int
        <5>1. s.tile \in Int /\ 0 <= s.tile /\ s.tile < BYTE
          BY <1>0, <1>1
        <5>2. \A n \in Int : 0 <= n /\ n < BYTE =>
                 2 * (n \div 2) >= 0 /\ 2 * (n \div 2) + 1 < BYTE /\ n \div 2 \in Int
          BY <1>0, <4>1, Even
        <5>3. QED
          BY <5>1, <5>2
      <4>3. right \div TILE \in {0, 1}
        BY <1>8
      <4>4. base \in Int /\ base >= 0 /\ base + 1 < BYTE
        BY <3>1, <4>2
      <4> HIDE DEF base, s
      <4>5. QED
        BY <1>0, <4>3, <4>4
    <3>2. CASE "extended" \notin control
      <4>1. right < TILE /\ ~(right >= TILE)
        BY <1>5, <1>7, <3>2, Sizes
      <4>2. right \div TILE = 0
        BY <1>8, <4>1
      <4>3. base = s.tile
        BY <3>2
      <4> HIDE DEF base, s
      <4>4. QED
        BY <1>0, <1>1, <4>2, <4>3
    <3>3. QED
      BY <3>1, <3>2
  <2> HIDE DEF base, tile
  <2>3. QED
    BY <1>4, <2>1, <2>2
<1>10. ~(above /\ read >= height)
  BY <1>2, <1>5, <1>6, Sizes
<1> HIDE DEF above
<1>11. ReadSprite(k) =
          [i \in InTile |->
              IF above /\ read >= height THEN OldPixel
              ELSE [layer |-> k, tile |-> tile, row |-> row % TILE,
                    col |-> IF s.flipX THEN TILE - 1 - i ELSE i, shade |-> s.shade]]
  BY Zenon DEF ReadSprite, above, read, row, tile, base, height
<1>12. Picture(k, c) = [layer |-> k, tile |-> base + right \div TILE, row |-> right % TILE,
           col |-> IF s.flipX THEN TILE - 1 - ColumnOf(k, c) ELSE ColumnOf(k, c),
           shade |-> s.shade]
  BY Zenon DEF Picture, right, base, at, height
<1> HIDE DEF base, tile, s
<1>13. QED
  BY <1>7, <1>9, <1>10, <1>11, <1>12

-----------------------------------------------------------------------------
\* The sprites of the line, those that are still to be drawn, and those that are drawn.
Visible == {k \in Slots : IsVisible(sprites[k])}
ToDo == {order[i] : i \in 1..Len(order)}
IsDrawn(k) == "sprites" \in control /\ k \in Visible /\ k \notin ToDo

\* NoSpriteYet: nothing on the line comes from a sprite.
NoSpriteYet == \A c \in Columns : display[c].layer \notin Slots

\* QueueHolds: the queue is the rest of the sorted sprites: what is drawn comes before it.
QueueHolds ==
    /\ order \in Seq(Visible) /\ (order # <<>> => "sprites" \in control)
    /\ \A i, j \in 1..Len(order) : i < j => DrawnBefore(order[i], order[j])
    /\ \A k \in Slots : IsDrawn(k) => \A j \in 1..Len(order) : DrawnBefore(k, order[j])

\* Shown: a pixel of a sprite is one of its picture, and nothing that was drawn over it is lost.
Shown(c) ==
    /\ display[c].layer \in Slots =>
          /\ IsDrawn(display[c].layer) /\ OnScreen(display[c].layer, c)
          /\ display[c] = Picture(display[c].layer, c)
    /\ \A k \in Slots : IsDrawn(k) /\ Opaque(k, c) /\ ~sprites[k].behind =>
          /\ display[c].layer \in Slots
          /\ display[c].layer = k \/ DrawnBefore(k, display[c].layer)

\* SpriteInv: the line while its sprites are drawn.
SpriteInv ==
    /\ BackgroundInv
    /\ pc \in {"background", "sort", "sprites", "done"}
    /\ pc \in {"background", "sort"} => NoSpriteYet
    /\ pc \in {"sprites", "done"} => QueueHolds /\ \A c \in Columns : Shown(c)
    /\ pc = "done" => order = <<>>

\* OrderHolds: the comparison of drawSprites() orders the sprites strictly.
LEMMA OrderHolds ==
    ASSUME RegistersHold
    PROVE  \A k \in Slots : ~DrawnBefore(k, k)
<1>1. \A k \in Slots : k \in Nat
  BY ScanlineAssumption
<1>2. \A k \in Slots : sprites[k].x \in Nat
  BY Sizes DEF RegistersHold, SpriteTypes
<1>3. QED
  BY <1>1, <1>2 DEF DrawnBefore

\* MappedLayer: the maps hold no sprites.
LEMMA MappedLayer ==
    ASSUME RegistersHold, NEW c \in Columns
    PROVE  Mapped(c).layer \notin Slots
<1>1. PlaneColumn(c) % TILE \in InTile
  <2>1. TILE \in Nat \ {0} /\ BYTE \in Nat \ {0} /\ InTile = 0..(TILE - 1)
    BY Sizes
  <2> DEFINE place == IF IsWindowSelected(c, m_scanline)
                         THEN c - m_winX + WINDOW_ROW_OFFSET ELSE m_x + c
  <2>2. place \in Int
    BY Sizes DEF RegistersHold
  <2>3. PlaneColumn(c) = place % BYTE
    BY DEF PlaneColumn
  <2> HIDE DEF place
  <2>4. PlaneColumn(c) \in Int
    BY <2>1, <2>2, <2>3, Divided
  <2>5. QED
    BY <2>1, <2>4, Divided
<1>2. Mapped(c).layer = LayerOf(c)
  BY <1>1 DEF Mapped, RowIn, TileRow
<1>3. LayerOf(c) \in {-1, -2}
  BY DEF LayerOf, Window, Background
<1>4. Slots \subseteq Nat
  BY ScanlineAssumption
<1>5. QED
  BY <1>2, <1>3, <1>4

\* Rendered: render() puts the pixels of a sprite that are not transparent, and not behind the
\* background, on the line, and leaves the others.
LEMMA Rendered ==
    ASSUME RegistersHold, RenderSprite,
           NEW k \in Visible, k = Head(order), NEW c \in Columns
    PROVE  display'[c] = IF Opaque(k, c) /\ (sprites[k].behind => display[c].shade = Blank)
                         THEN Picture(k, c) ELSE display[c]
<1> DEFINE s == sprites[k]
           colors == ReadSprite(k)
           at == ColumnOf(k, c)
           Inked(p) == Ink(p.tile, p.row, p.col) # 0
           Free == sprites[k].behind => display[c].shade = Blank
           Covers(i, d) == /\ (s.x + i - SPRITE_X_OFFSET) % BYTE = d
                           /\ Ink(colors[i].tile, colors[i].row, colors[i].col) # 0
                           /\ s.behind => display[d].shade = Blank
<1>1. display' = [d \in Columns |-> IF \E i \in InTile : Covers(i, d)
                                         THEN colors[CHOOSE i \in InTile : Covers(i, d)]
                                         ELSE display[d]]
  BY Zenon DEF RenderSprite
<1>2. k \in Slots /\ IsVisible(sprites[k])
  BY DEF Visible
<1>3. /\ sprites[k].x # 0 /\ sprites[k].y # 0 /\ LineOf(k) \in 0..(Height - 1)
      /\ \A i \in InTile : (s.x + i - SPRITE_X_OFFSET) % BYTE = c <=> i = at
  BY <1>2, SpritePlace
<1>4. OnScreen(k, c) <=> at \in InTile
  BY <1>3 DEF OnScreen
<1>5. at \in InTile => colors[at] = Picture(k, c)
  BY <1>2, SpriteRow
<1>6. Opaque(k, c) <=> at \in InTile /\ Inked(Picture(k, c))
  BY <1>4 DEF Opaque
<1>7. \A i \in InTile : Covers(i, c) <=> i = at /\ Inked(colors[i]) /\ Free
  BY <1>3
<1> HIDE DEF Covers, Inked, Free, colors, at
<1>8. (\E i \in InTile : Covers(i, c)) <=> Opaque(k, c) /\ Free
  BY <1>5, <1>6, <1>7
<1>9. (\E i \in InTile : Covers(i, c))
         => (CHOOSE i \in InTile : Covers(i, c)) = at /\ at \in InTile
  BY <1>7
<1>10. display'[c] = IF \E i \in InTile : Covers(i, c)
                     THEN colors[CHOOSE i \in InTile : Covers(i, c)] ELSE display[c]
  BY <1>1
<1>11. QED
  BY <1>5, <1>8, <1>9, <1>10 DEF Free


\* Held: what the registers determine does not change while a line is drawn.
LEMMA Held ==
    ASSUME UNCHANGED <<m_scanline, control, cgb, sprites>>
    PROVE  /\ Visible' = Visible /\ Columns' = Columns
           /\ \A a, b : DrawnBefore(a, b)' <=> DrawnBefore(a, b)
           /\ \A k, c : /\ OnScreen(k, c)' <=> OnScreen(k, c)
                        /\ Picture(k, c)' = Picture(k, c)
                        /\ Opaque(k, c)' <=> Opaque(k, c)
<1>1. Height' = Height /\ Columns' = Columns
  BY DEF Height, Columns
<1>2. Visible' = Visible
  BY <1>1 DEF Visible, IsVisible
<1>3. \A a, b : DrawnBefore(a, b)' <=> DrawnBefore(a, b)
  BY DEF DrawnBefore
<1>4. \A k, c : /\ OnScreen(k, c)' <=> OnScreen(k, c)
                /\ Picture(k, c)' = Picture(k, c)
  BY <1>1 DEF OnScreen, LineOf, ColumnOf, Picture, InTile
<1>5. \A k, c : Opaque(k, c)' <=> Opaque(k, c)
  BY <1>4 DEF Opaque, Ink
<1>6. QED
  BY <1>1, <1>2, <1>3, <1>4, <1>5

\* DrawsBackground: drawBackground() puts no sprite on the line.
LEMMA DrawsBackground ==
    ASSUME SpriteInv, DrawPixel
    PROVE  SpriteInv'
<1>1. BackgroundInv' /\ RegistersHold
  BY BackgroundSteps DEF SpriteInv, BackgroundInv
<1>2. /\ pc = "background" /\ pc' = pc /\ "background" \in control /\ pixel' = pixel + 1
      /\ UNCHANGED <<m_scanline, m_x, m_y, m_winX, m_winY, control, cgb, sprites>>
  BY Zenon DEF DrawPixel, registers
<1>3. /\ pixel \in Nat /\ NoSpriteYet /\ DOMAIN display = Columns
      /\ \A c \in 0..(pixel' - 1) : display'[c] = Mapped(c)'
  BY <1>1, <1>2, Sizes DEF SpriteInv, BackgroundInv
<1>4. \A c \in Columns : c # pixel => display'[c] = display[c]
  BY <1>3 DEF DrawPixel
<1>5. pixel \in 0..(pixel' - 1)
  BY <1>2, <1>3
<1>6. Columns' = Columns
  BY DEF Columns
<1>7. \A c \in Columns : Mapped(c)'.layer \notin Slots
  <2>1. \A c : Mapped(c)' = Mapped(c)
    BY <1>2 DEF Mapped, RowIn, RowOf, LayerOf, PlaneColumn, TileRow, MirrorX,
       MirrorY, IsWindowSelected
  <2>2. QED
    BY <1>1, <2>1, MappedLayer
<1>8. NoSpriteYet'
  BY <1>3, <1>4, <1>5, <1>6, <1>7 DEF NoSpriteYet
<1>9. QED
  BY <1>1, <1>2, <1>8 DEF SpriteInv

\* QueuesSprites: drawSprites() begins with all that is visible, sorted, and nothing drawn.
LEMMA QueuesSprites ==
    ASSUME SpriteInv, SortSprites
    PROVE  SpriteInv'
<1>1. BackgroundInv' /\ RegistersHold
  BY BackgroundHolds DEF SpriteInv, BackgroundInv, LineNext
<1>2. /\ pc = "sort" /\ pc' = "sprites" /\ display' = display
      /\ UNCHANGED <<m_scanline, control, cgb, sprites>>
      /\ order' = IF "sprites" \in control THEN Sorted(Visible) ELSE <<>>
  BY Zenon DEF SortSprites, registers, Visible
<1>3. NoSpriteYet
  BY <1>2 DEF SpriteInv
<1>4. /\ Visible' = Visible /\ Columns' = Columns
      /\ \A a, b : DrawnBefore(a, b)' <=> DrawnBefore(a, b)
  BY <1>2, Held
<1>5. Visible \in SUBSET Slots
  BY DEF Visible
<1>6. /\ order' \in Seq(Visible) /\ (order' # <<>> => "sprites" \in control)
      /\ \A i, j \in 1..Len(order') : i < j => DrawnBefore(order'[i], order'[j])
      /\ "sprites" \in control => \A k \in Visible : \E i \in 1..Len(order') : order'[i] = k
  <2>1. CASE "sprites" \in control
    <3> DEFINE n == Cardinality(Visible)
               sorted == Sorted(Visible)
    <3>1. /\ n \in Nat /\ sorted \in [1..n -> Visible]
          /\ \A i, j \in 1..n : i < j => DrawnBefore(sorted[i], sorted[j])
          /\ \A k \in Visible : \E i \in 1..n : sorted[i] = k
      BY <1>1, <1>5, SortedRight
    <3> HIDE DEF n, sorted
    <3>2. sorted \in Seq(Visible) /\ Len(sorted) = n
      BY <3>1
    <3>3. order' = sorted
      BY <1>2, <2>1 DEF sorted
    <3>4. QED
      BY <2>1, <3>1, <3>2, <3>3
  <2>2. CASE "sprites" \notin control
    <3>1. order' = <<>>
      BY <1>2, <2>2
    <3>2. QED
      BY <2>2, <3>1
  <2>3. QED
    BY <2>1, <2>2
<1>7. \A k \in Slots : ~IsDrawn(k)'
  BY <1>2, <1>4, <1>6 DEF IsDrawn, ToDo
<1>8. QueueHolds'
  BY <1>2, <1>4, <1>6, <1>7 DEF QueueHolds
<1>9. \A c \in Columns' : Shown(c)'
  BY <1>2, <1>3, <1>4, <1>7 DEF Shown, NoSpriteYet
<1>10. QED
  BY <1>1, <1>2, <1>8, <1>9 DEF SpriteInv

\* RendersSprite: the next sprite is drawn over those before it in the queue.
LEMMA RendersSprite ==
    ASSUME SpriteInv, RenderSprite
    PROVE  SpriteInv'
<1> DEFINE k == Head(order)
<1>1. BackgroundInv' /\ RegistersHold
  BY BackgroundHolds DEF SpriteInv, BackgroundInv, LineNext
<1>2. /\ pc = "sprites" /\ pc' = pc /\ order # <<>> /\ order' = Tail(order)
      /\ UNCHANGED <<m_scanline, control, cgb, sprites>>
  BY Zenon DEF RenderSprite, registers
<1>3. QueueHolds /\ \A c \in Columns : Shown(c)
  BY <1>2 DEF SpriteInv
<1>4. /\ Visible' = Visible /\ Columns' = Columns
      /\ \A a, b : DrawnBefore(a, b)' <=> DrawnBefore(a, b)
      /\ \A q, c : /\ OnScreen(q, c)' <=> OnScreen(q, c)
                   /\ Picture(q, c)' = Picture(q, c)
                   /\ Opaque(q, c)' <=> Opaque(q, c)
  BY <1>2, Held
<1>5. /\ order \in Seq(Visible) /\ order' \in Seq(Visible) /\ Len(order') = Len(order) - 1
      /\ k = order[1] /\ 1 \in 1..Len(order) /\ k \in Visible /\ k \in Slots
      /\ \A i \in 1..Len(order') : i + 1 \in 1..Len(order) /\ order'[i] = order[i + 1]
      /\ "sprites" \in control
  BY <1>2, <1>3 DEF QueueHolds, Visible
<1> HIDE DEF k
<1>6. \A i \in 1..Len(order') : DrawnBefore(k, order'[i]) /\ order'[i] # k
  <2>1. SUFFICES ASSUME NEW i \in 1..Len(order')
                 PROVE  DrawnBefore(k, order'[i]) /\ order'[i] # k
    OBVIOUS
  <2>2. i + 1 \in 1..Len(order) /\ order'[i] = order[i + 1] /\ 1 < i + 1
    BY <1>5
  <2>3. DrawnBefore(k, order'[i])
    BY <1>3, <1>5, <2>2 DEF QueueHolds
  <2>4. QED
    BY <1>1, <1>5, <2>3, OrderHolds
<1>7. \A q \in Slots : IsDrawn(q)' <=> IsDrawn(q) \/ q = k
  <2>1. k \notin ToDo'
    BY <1>6 DEF ToDo
  <2>2. ToDo = ToDo' \cup {k}
    <3>1. ASSUME NEW i \in 1..Len(order) PROVE order[i] \in ToDo' \cup {k}
      <4>1. CASE i = 1
        BY <1>5, <4>1
      <4>2. CASE i # 1
        <5>1. i - 1 \in 1..Len(order') /\ (i - 1) + 1 = i
          BY <1>5, <4>2
        <5>2. order'[i - 1] = order[i]
          BY <1>5, <5>1
        <5>3. QED
          BY <5>1, <5>2 DEF ToDo
      <4>3. QED
        BY <4>1, <4>2
    <3>2. ASSUME NEW i \in 1..Len(order') PROVE order'[i] \in ToDo
      BY <1>5 DEF ToDo
    <3>3. k \in ToDo
      BY <1>5 DEF ToDo
    <3>4. QED
      BY <3>1, <3>2, <3>3 DEF ToDo
  <2>3. QED
    BY <1>2, <1>4, <1>5, <2>1, <2>2 DEF IsDrawn
<1>8. \A q \in Slots : IsDrawn(q) => DrawnBefore(q, k)
  BY <1>3, <1>5 DEF QueueHolds
<1>9. QueueHolds'
  <2>1. \A i, j \in 1..Len(order') : i < j => DrawnBefore(order'[i], order'[j])
    <3>1. SUFFICES ASSUME NEW i \in 1..Len(order'), NEW j \in 1..Len(order'), i < j
                   PROVE  DrawnBefore(order'[i], order'[j])
      OBVIOUS
    <3>2. i + 1 < j + 1
      BY <3>1
    <3>3. QED
      BY <1>3, <1>5, <3>2 DEF QueueHolds
  <2>2. \A q \in Slots : IsDrawn(q)' => \A j \in 1..Len(order') : DrawnBefore(q, order'[j])
    BY <1>3, <1>5, <1>6, <1>7 DEF QueueHolds
  <2>3. order' # <<>> => "sprites" \in control'
    BY <1>2, <1>5
  <2>4. QED
    BY <1>4, <1>5, <2>1, <2>2, <2>3 DEF QueueHolds
<1>10. ASSUME NEW c \in Columns PROVE Shown(c)'
  <2> DEFINE put == Opaque(k, c) /\ (sprites[k].behind => display[c].shade = Blank)
  <2>1. display'[c] = IF put THEN Picture(k, c) ELSE display[c]
    BY <1>1, <1>5, Rendered DEF k
  <2>2. Shown(c)
    BY <1>3
  <2>3. Picture(k, c).layer = k
    BY DEF Picture
  <2>4. CASE put
    <3>1. display'[c] = Picture(k, c) /\ display'[c].layer = k /\ OnScreen(k, c)
      BY <2>1, <2>3, <2>4 DEF Opaque
    <3>2. \A q \in Slots : IsDrawn(q)' => q = k \/ DrawnBefore(q, k)
      BY <1>7, <1>8
    <3>3. QED
      BY <1>4, <1>5, <1>7, <3>1, <3>2 DEF Shown
  <2>5. CASE ~put
    <3>1. display'[c] = display[c]
      BY <2>1, <2>5
    <3>2. ~(Opaque(k, c) /\ ~sprites[k].behind)
      BY <2>5
    <3> HIDE DEF put
    <3>3. QED
      BY <1>2, <1>4, <1>7, <2>2, <3>1, <3>2 DEF Shown
  <2>6. QED
    BY <2>4, <2>5
<1>11. QED
  BY <1>1, <1>2, <1>4, <1>9, <1>10 DEF SpriteInv

\* SpriteInvHolds: each step of draw() keeps it.
LEMMA SpriteInvHolds ==
    ASSUME SpriteInv, [LineNext]_lineVars
    PROVE  SpriteInv'
<1>1. CASE DrawPixel
  BY <1>1, DrawsBackground
<1>2. CASE SortSprites
  BY <1>2, QueuesSprites
<1>3. CASE RenderSprite
  BY <1>3, RendersSprite
<1>4. CASE EndBackground \/ Finish \/ UNCHANGED lineVars
  <2>1. BackgroundInv'
    BY BackgroundHolds DEF SpriteInv
  <2>2. /\ UNCHANGED <<m_scanline, control, cgb, sprites, display, order>>
        /\ \/ pc' = pc
           \/ pc = "background" /\ pc' = "sort"
           \/ pc = "sprites" /\ pc' = "done" /\ order = <<>>
    BY <1>4, Zenon DEF EndBackground, Finish, lineVars, registers
  <2>3. /\ Visible' = Visible /\ Columns' = Columns
        /\ \A a, b : DrawnBefore(a, b)' <=> DrawnBefore(a, b)
        /\ \A k, c : /\ OnScreen(k, c)' <=> OnScreen(k, c)
                     /\ Picture(k, c)' = Picture(k, c)
                     /\ Opaque(k, c)' <=> Opaque(k, c)
    BY <2>2, Held
  <2>4. ToDo' = ToDo
    BY <2>2 DEF ToDo
  <2>5. \A k : IsDrawn(k)' <=> IsDrawn(k)
    BY <2>2, <2>3, <2>4 DEF IsDrawn
  <2>6. NoSpriteYet' <=> NoSpriteYet
    BY <2>2, <2>3 DEF NoSpriteYet
  <2>7. QueueHolds => QueueHolds'
    BY <2>2, <2>3, <2>5 DEF QueueHolds
  <2>8. ASSUME NEW c, Shown(c) PROVE Shown(c)'
    BY <2>2, <2>3, <2>5, <2>8 DEF Shown
  <2>9. QED
    BY <2>1, <2>2, <2>3, <2>6, <2>7, <2>8 DEF SpriteInv
<1>5. QED
  BY <1>1, <1>2, <1>3, <1>4 DEF LineNext

\* SpritesAreShown: what the invariant says of the line.
LEMMA SpritesAreShown ==
    ASSUME SpriteInv
    PROVE  SpritesAreRight
<1>1. /\ RegistersHold
      /\ pc \in {"background", "sort"} => NoSpriteYet
      /\ pc \notin {"background", "sort"} => QueueHolds /\ \A c \in Columns : Shown(c)
      /\ pc = "done" => order = <<>>
  BY DEF SpriteInv, BackgroundInv
<1>2. SpritePixelsAreRight
  BY <1>1 DEF SpritePixelsAreRight, NoSpriteYet, Shown
<1>3. ASSUME pc = "done", "sprites" \in control, NEW k \in Slots, NEW c \in Columns,
             Opaque(k, c)
      PROVE  IsDrawn(k)
  <2>1. IsVisible(sprites[k])
    BY <1>1, <1>3, SpritePlace DEF Opaque
  <2>2. ToDo = {}
    BY <1>1, <1>3 DEF ToDo
  <2>3. QED
    BY <1>3, <2>1, <2>2 DEF IsDrawn, Visible
<1>4. SpritesShow
  BY <1>1, <1>3 DEF SpritesShow, Shown
<1>5. QED
  BY <1>2, <1>4 DEF SpritesAreRight

\* SpritesRight: for any number of sprites, anywhere on or off a screen of any size: what is
\* shown of a sprite is the pixel of its picture that lies there, and where sprites in front of
\* the background cover a pixel one of them is shown (drawSprites(), readSprite(),
\* SpriteData::render()).
THEOREM SpritesRight ==
    LineSpec => []SpritesAreRight
<1>1. ASSUME LineInit PROVE SpriteInv
  <2>1. pc = "background" /\ display = [c \in Columns |-> OldPixel]
    BY <1>1, Zenon DEF LineInit
  <2>2. NoSpriteYet
    BY <2>1, ScanlineAssumption DEF NoSpriteYet, OldPixel, Old
  <2>3. QED
    BY <1>1, <2>1, <2>2, BackgroundStarts DEF SpriteInv
<1>2. SpriteInv /\ [LineNext]_lineVars => SpriteInv'
  BY SpriteInvHolds
<1>3. SpriteInv => SpritesAreRight
  BY SpritesAreShown
<1>4. QED
  BY <1>1, <1>2, <1>3, PTL DEF LineSpec
=============================================================================

------------------------------ MODULE Scanline ------------------------------
(***************************************************************************)
(* Drawing one scanline (GPU::draw and what it calls,                      *)
(* src/src/hardware/gpu.cpp): the background and the window pixel by       *)
(* pixel, with the cache of the tile looked up last, then the sprites that *)
(* cross the line, sorted and drawn one over the other.                    *)
(*                                                                         *)
(* A pixel is the place it was copied from: a layer, a tile, and a row and *)
(* a column of the tile, with one of two shades.  The patterns the tiles   *)
(* hold and their attributes are fixed, so that each pixel of a picture    *)
(* differs from its neighbours; the arithmetic on coordinates is the       *)
(* code's, with the width of its bytes.                                    *)
(*                                                                         *)
(* The names of the specification differ from those of Gpu, beside which   *)
(* Gpu_proofs uses it.                                                     *)
(***************************************************************************)
EXTENDS Integers, FiniteSets, Sequences

CONSTANTS
    PIXELS_PER_ROW, SCREEN_HEIGHT,    \* the screen (PIXELS_PER_ROW, PIXELS_PER_COL)
    TILE,                             \* TILE_PIXELS_PER_ROW and TILE_PIXELS_PER_COL
    BYTE,                             \* the values of a byte, and the pixels of a tile map's row
    Slots,                            \* the addresses of the sprites
    Xs, Ys, Numbers, Flips, Priorities, Shades,   \* what the game writes into a sprite
    Scrolls, Windows, Layers, Models  \* what it writes into the registers, and the consoles

WINDOW_ROW_OFFSET == TILE - 1
SPRITE_X_OFFSET == TILE
SPRITE_Y_OFFSET == 2 * TILE

ASSUME ScanlineAssumption ==
    /\ {PIXELS_PER_ROW, SCREEN_HEIGHT, TILE, BYTE} \subseteq Nat \ {0}
    /\ BYTE % TILE = 0 /\ BYTE % 2 = 0
    /\ PIXELS_PER_ROW + 2 * TILE < BYTE /\ SCREEN_HEIGHT + 2 * TILE < BYTE
    /\ Slots \subseteq Nat /\ IsFiniteSet(Slots)
    /\ Xs \cup Ys \cup Numbers \cup Scrolls \cup Windows \subseteq 0..(BYTE - 1)
    /\ Flips \cup Priorities \cup Models \subseteq BOOLEAN /\ Shades \subseteq {0, 1}
    /\ Layers \subseteq {"background", "window", "sprites", "extended"}

VARIABLES
    m_scanline, m_x, m_y, m_winX, m_winY,
    control,    \* the bits of m_control that are set
    cgb,        \* isCGB()
    sprites,    \* m_sprites
    pc,         \* "background", "sort", "sprites" or "done"
    pixel,      \* the loop counter of drawBackground()
    cache,      \* bgCache and winCache
    order,      \* enabled: the sprites left to draw, in order
    display     \* the line of m_buffer

registers == <<m_scanline, m_x, m_y, m_winX, m_winY, control, cgb, sprites>>
lineVars == <<registers, pc, pixel, cache, order, display>>

\* The layers a pixel can come from: a sprite (its address), one of the maps, an earlier frame.
Background == -1
Window == -2
Old == -3

Columns == 0..(PIXELS_PER_ROW - 1)
InTile == 0..(TILE - 1)
Blank == 0                                          \* the shade of colour 0 (m_bg)
Height == IF "extended" \in control THEN 2 * TILE ELSE TILE

\* What a tile shows, and whether the attributes of a place of the maps mirror it.
Ink(tile, row, col) == (tile + row + col) % 2
MirrorX(tx, ty) == cgb /\ tx % 2 = 1
MirrorY(tx, ty) == cgb /\ (tx + ty) % 2 = 1

OldPixel == [layer |-> Old, tile |-> 0, row |-> 0, col |-> 0, shade |-> 1]
Missing == [x |-> -1, pixels |-> [i \in InTile |-> OldPixel]]

NoSprite == [x |-> 0, y |-> 0, tile |-> 0, flipX |-> FALSE, flipY |-> FALSE,
             behind |-> FALSE, shade |-> 0]

\* A line of a frame, with every register the game may have set before it.  Bound: either the
\* sprites or the corners of the background and the window are varied, not both.
LineInit ==
    /\ control \in SUBSET Layers
    /\ LET corners(values) == IF "sprites" \in control THEN {0} ELSE values
           table == IF "sprites" \in control
                       THEN [x : Xs, y : Ys, tile : Numbers, flipX : Flips, flipY : Flips,
                             behind : Priorities, shade : Shades]
                       ELSE {NoSprite}
       IN /\ m_x \in corners(Scrolls) /\ m_y \in corners(Scrolls)
          /\ m_winX \in corners(Windows) /\ m_winY \in corners(Windows)
          /\ sprites \in [Slots -> table]
    /\ m_scanline \in 0..(SCREEN_HEIGHT - 1)
    /\ cgb \in Models
    /\ pc = "background" /\ pixel = 0 /\ order = <<>>
    /\ cache = [layer \in {Background, Window} |-> Missing]
    /\ display = [c \in Columns |-> OldPixel]

-----------------------------------------------------------------------------
\* isWindowSelected()
IsWindowSelected(x, y) ==
    /\ "window" \in control
    /\ y >= m_winY /\ y < SCREEN_HEIGHT
    /\ x + WINDOW_ROW_OFFSET >= m_winX /\ x < PIXELS_PER_ROW + WINDOW_ROW_OFFSET

\* lookup() and toRGB(): the row of pixels of the tile at a place of a map.
TileRow(layer, tx, ty, row) ==
    LET r == IF MirrorY(tx, ty) THEN TILE - row - 1 ELSE row
    IN [i \in InTile |->
          LET c == IF MirrorX(tx, ty) THEN TILE - 1 - i ELSE i
          IN [layer |-> layer, tile |-> tx + ty * (BYTE \div TILE), row |-> r, col |-> c,
              shade |-> Ink(tx + ty, r, c)]]

\* Slip: the window and the background share one cache.
DrawPixelOneCache ==
    /\ pc = "background" /\ "background" \in control /\ pixel < PIXELS_PER_ROW
    /\ LET win == IsWindowSelected(pixel, m_scanline)
           layer == IF win THEN Window ELSE Background
           col == (IF win THEN pixel - m_winX + WINDOW_ROW_OFFSET ELSE m_x + pixel) % BYTE
           row == (IF win THEN m_scanline - m_winY ELSE m_y + m_scanline) % BYTE
           tx == col \div TILE
           found == IF cache[Background].x = tx THEN cache[Background]
                    ELSE [x |-> tx, pixels |-> TileRow(layer, tx, row \div TILE, row % TILE)]
       IN /\ cache' = [cache EXCEPT ![Background] = found]
          /\ display' = [display EXCEPT ![pixel] = found.pixels[col % TILE]]
    /\ pixel' = pixel + 1
    /\ UNCHANGED <<registers, pc, order>>

\* One turn of the loop of drawBackground().
DrawPixel ==
    /\ pc = "background" /\ "background" \in control /\ pixel < PIXELS_PER_ROW
    /\ LET win == IsWindowSelected(pixel, m_scanline)
           layer == IF win THEN Window ELSE Background
           col == (IF win THEN pixel - m_winX + WINDOW_ROW_OFFSET ELSE m_x + pixel) % BYTE
           row == (IF win THEN m_scanline - m_winY ELSE m_y + m_scanline) % BYTE
           tx == col \div TILE
           found == IF cache[layer].x = tx THEN cache[layer]
                    ELSE [x |-> tx, pixels |-> TileRow(layer, tx, row \div TILE, row % TILE)]
       IN /\ cache' = [cache EXCEPT ![layer] = found]
          /\ display' = [display EXCEPT ![pixel] = found.pixels[col % TILE]]
    /\ pixel' = pixel + 1
    /\ UNCHANGED <<registers, pc, order>>

\* The end of drawBackground(), which does nothing when the background is switched off.
EndBackground ==
    /\ pc = "background" /\ ("background" \in control => pixel = PIXELS_PER_ROW)
    /\ pc' = "sort"
    /\ UNCHANGED <<registers, pixel, cache, order, display>>

-----------------------------------------------------------------------------
\* SpriteData::isVisible()
IsVisible(s) ==
    /\ s.x # 0 /\ s.y # 0
    /\ s.x < PIXELS_PER_ROW + SPRITE_X_OFFSET /\ s.y < SCREEN_HEIGHT + SPRITE_Y_OFFSET
    /\ (m_scanline + SPRITE_Y_OFFSET) % BYTE \in s.y..(s.y + Height - 1)

\* The comparison drawSprites() sorts with.
DrawnBefore(a, b) ==
    IF cgb \/ sprites[a].x = sprites[b].x THEN a < b ELSE sprites[a].x < sprites[b].x

\* std::sort() with that comparison.
Sorted(slots) ==
    CHOOSE s \in [1..Cardinality(slots) -> slots] :
        \A i, j \in DOMAIN s : i < j => DrawnBefore(s[i], s[j])

\* The head of drawSprites(): collect the visible sprites and sort them.
SortSprites ==
    /\ pc = "sort"
    /\ order' = IF "sprites" \in control
                   THEN Sorted({k \in Slots : IsVisible(sprites[k])})
                   ELSE <<>>
    /\ pc' = "sprites"
    /\ UNCHANGED <<registers, pixel, cache, display>>

\* Slip: the second tile is chosen before the sprite is turned upside down.
ReadSpriteUnflipped(k) ==
    LET s == sprites[k]
        at == (m_scanline + SPRITE_Y_OFFSET - s.y) % BYTE
        row == IF s.flipY THEN (Height - at - 1) % BYTE ELSE at
        base == IF "extended" \in control THEN 2 * (s.tile \div 2) ELSE s.tile
        tile == (base + (IF at >= TILE THEN 1 ELSE 0)) % BYTE
    IN [i \in InTile |->
          LET col == IF s.flipX THEN TILE - 1 - i ELSE i
          IN [layer |-> k, tile |-> tile, row |-> row % TILE, col |-> col, shade |-> s.shade]]

\* readSprite(): the pixels of the row of the sprite that lies on the scanline.
ReadSprite(k) ==
    LET s == sprites[k]
        above == s.y < SPRITE_Y_OFFSET
        at == (IF above THEN SPRITE_Y_OFFSET - s.y + m_scanline
                        ELSE m_scanline - (s.y - SPRITE_Y_OFFSET)) % BYTE
        row == IF s.flipY THEN (Height - at - 1) % BYTE ELSE at
        base == IF "extended" \in control THEN 2 * (s.tile \div 2) ELSE s.tile
        tile == (base + (IF row >= TILE THEN 1 ELSE 0)) % BYTE
    IN [i \in InTile |->
          LET col == IF s.flipX THEN TILE - 1 - i ELSE i
          IN IF above /\ at >= Height
                THEN OldPixel                       \* the early return keeps the old colours
                ELSE [layer |-> k, tile |-> tile, row |-> row % TILE, col |-> col,
                      shade |-> s.shade]]

\* SpriteData::render() of the next sprite.
RenderSprite ==
    /\ pc = "sprites" /\ order # <<>>
    /\ LET k == Head(order)
           s == sprites[k]
           colors == ReadSprite(k)
           Covers(i, c) == /\ (s.x + i - SPRITE_X_OFFSET) % BYTE = c
                           /\ Ink(colors[i].tile, colors[i].row, colors[i].col) # 0
                           /\ s.behind => display[c].shade = Blank
       IN display' = [c \in Columns |-> IF \E i \in InTile : Covers(i, c)
                                           THEN colors[CHOOSE i \in InTile : Covers(i, c)]
                                           ELSE display[c]]
    /\ order' = Tail(order)
    /\ UNCHANGED <<registers, pc, pixel, cache>>

Finish ==
    /\ pc = "sprites" /\ order = <<>>
    /\ pc' = "done"
    /\ UNCHANGED <<registers, pixel, cache, order, display>>

LineNext == DrawPixel \/ EndBackground \/ SortSprites \/ RenderSprite \/ Finish

LineSpec == LineInit /\ [][LineNext]_lineVars

-----------------------------------------------------------------------------
\* The line, column and pixel of a sprite's upright, unmirrored picture that lie under a
\* column of the screen.
LineOf(k) == m_scanline - (sprites[k].y - SPRITE_Y_OFFSET)
ColumnOf(k, c) == c - (sprites[k].x - SPRITE_X_OFFSET)
OnScreen(k, c) == /\ sprites[k].x # 0 /\ sprites[k].y # 0
                  /\ LineOf(k) \in 0..(Height - 1) /\ ColumnOf(k, c) \in InTile
Picture(k, c) ==
    LET s == sprites[k]
        row == IF s.flipY THEN Height - 1 - LineOf(k) ELSE LineOf(k)
        top == IF "extended" \in control THEN 2 * (s.tile \div 2) ELSE s.tile
    IN [layer |-> k, tile |-> top + row \div TILE, row |-> row % TILE,
        col |-> IF s.flipX THEN TILE - 1 - ColumnOf(k, c) ELSE ColumnOf(k, c),
        shade |-> s.shade]
Opaque(k, c) ==
    OnScreen(k, c) /\ LET p == Picture(k, c) IN Ink(p.tile, p.row, p.col) # 0

\* LineTypeOK: the variables keep their types; the queue of sprites only holds sprites.
LineTypeOK ==
    /\ pc \in {"background", "sort", "sprites", "done"}
    /\ pixel \in 0..PIXELS_PER_ROW
    /\ \A layer \in DOMAIN cache : cache[layer].x \in -1..(BYTE \div TILE - 1)
    /\ order \in Seq(Slots) /\ Len(order) <= Cardinality(Slots)
    /\ \A c \in Columns : display[c].shade \in {0, 1}

\* BackgroundIsMapped: every pixel drawBackground() has written is the one a lookup without a
\* cache finds on the endless plane of the map: the window's from its corner, the background's
\* from the scroll registers, wrapped around.  The cached tile is never used for the other
\* layer, for another row, or across the edge of the map.
BackgroundIsMapped ==
    pc \in {"background", "sort"} /\ "background" \in control =>
        \A c \in 0..(pixel - 1) :
            LET win == /\ "window" \in control /\ m_scanline >= m_winY
                       /\ c >= m_winX - WINDOW_ROW_OFFSET
                col == IF win THEN c - (m_winX - WINDOW_ROW_OFFSET) ELSE (m_x + c) % BYTE
                row == IF win THEN m_scanline - m_winY ELSE (m_y + m_scanline) % BYTE
            IN display[c] = TileRow(IF win THEN Window ELSE Background, col \div TILE,
                                   row \div TILE, row % TILE)[col % TILE]

\* SpritePixelsAreRight: a pixel of the line that comes from a sprite is the pixel of that
\* sprite's picture that lies there: clipped at the top and at both sides, mirrored, in the
\* right one of two tiles, and never the colours left from another scanline.
SpritePixelsAreRight ==
    \A c \in Columns : display[c].layer \in Slots =>
        /\ OnScreen(display[c].layer, c)
        /\ display[c] = Picture(display[c].layer, c)

\* SpritesShow: a pixel that a sprite in front of the background covers shows a sprite.
SpritesShow ==
    pc = "done" /\ "sprites" \in control =>
        \A c \in Columns :
            (\E k \in Slots : Opaque(k, c) /\ ~sprites[k].behind) => display[c].layer \in Slots

\* What is shown of the sprites is right, and nothing of them that is in front of the background
\* is missing, whichever of several overlapping sprites is on top (draw()).
SpritesAreRight == SpritePixelsAreRight /\ SpritesShow

\* LastDrawnIsOnTop: what the code does instead of PriorityOnTop below: the sprite shown is the
\* last in the order of the sort, the one of the highest address or the largest x.
LastDrawnIsOnTop ==
    pc = "done" => \A c \in Columns : display[c].layer \in Slots =>
        \A k \in Slots \ {display[c].layer} :
            Opaque(k, c) /\ ~sprites[k].behind => DrawnBefore(k, display[c].layer)

\* PriorityOnTop: what the comment at gpu.cpp:573-581 promises: the sprite of the highest
\* priority is on top; a lower address, or without colour a smaller x, is a higher priority.
PriorityOnTop ==
    pc = "done" => \A c \in Columns : display[c].layer \in Slots =>
        \A k \in Slots : Opaque(k, c) /\ ~sprites[k].behind =>
            ~DrawnBefore(k, display[c].layer)

\* BehindTheBackground: what the comment at gpu.cpp:738-740 says: a sprite with the priority
\* bit set is not shown unless the background pixel it overlaps with is set to color 0.
BehindTheBackground ==
    pc = "done" /\ "background" \in control => \A c \in Columns :
        display[c].layer \in Slots /\ sprites[display[c].layer].behind =>
            LET win == IsWindowSelected(c, m_scanline)
                col == (IF win THEN c - m_winX + WINDOW_ROW_OFFSET ELSE m_x + c) % BYTE
                row == (IF win THEN m_scanline - m_winY ELSE m_y + m_scanline) % BYTE
                shown == TileRow(Background, col \div TILE, row \div TILE, row % TILE)[col % TILE]
            IN shown.shade = Blank
=============================================================================

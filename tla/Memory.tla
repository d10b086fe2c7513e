------------------------------- MODULE Memory -------------------------------
(***************************************************************************)
(* The memory of the console as the program sees it: the controller that   *)
(* finds the region an address belongs to                                  *)
(* (src/src/hardware/memorycontroller.cpp), the BIOS that hides the        *)
(* cartridge until it is unlocked, the banks of the video and the working  *)
(* RAM and the latter's echo, and the two DMA engines of MappedIO.         *)
(*                                                                         *)
(* The regions have the order of memmap.h and the sizes of the constants.  *)
(* The contents of the BIOS and of the cartridge are left out (Cartridge   *)
(* models the latter), and so are the registers without an effect on       *)
(* memory.  FATAL and assert() stop the program, as in a debug build.      *)
(***************************************************************************)
EXTENDS Integers, FiniteSets

CONSTANTS
    ENTRY,                        \* ROM_ENTRY_POINT: the BIOS has a gap of this size here
    BIOS_SIZE, ROM_SIZE, GPU_RAM_SIZE, EXT_RAM_SIZE, WORKING_RAM_SIZE,
    ECHO_GAP,                     \* the 512 addresses the echo of the working RAM lacks
    GRAPHICS_RAM_SIZE, UNUSABLE_MEM_SIZE, IO_SIZE, ZRAM_SIZE,
    BANK_COUNT,                   \* banks of the working RAM
    PAGE, BLOCK,                  \* the units of the two DMA engines (0x100 and 0x10)
    Data,                         \* the values of a byte of memory
    Selects,                      \* the values a game writes into the bank register
    Pages, Sources, Targets, Lengths   \* and into the registers of the DMA engines

\* memmap.h
GPU_RAM_OFFSET == ROM_SIZE
EXT_RAM_OFFSET == GPU_RAM_OFFSET + GPU_RAM_SIZE
WORKING_RAM_OFFSET == EXT_RAM_OFFSET + EXT_RAM_SIZE
ECHO_OFFSET == WORKING_RAM_OFFSET + WORKING_RAM_SIZE
GRAPHICS_RAM_OFFSET == ECHO_OFFSET + WORKING_RAM_SIZE - ECHO_GAP
UNUSABLE_MEM_OFFSET == GRAPHICS_RAM_OFFSET + GRAPHICS_RAM_SIZE
IO_OFFSET == UNUSABLE_MEM_OFFSET + UNUSABLE_MEM_SIZE
ZRAM_OFFSET == IO_OFFSET + IO_SIZE
Addresses == 0..(ZRAM_OFFSET + ZRAM_SIZE - 1)

m_size == WORKING_RAM_SIZE \div 2     \* WorkingRam::m_size

ASSUME MemoryAssumption ==
    /\ {ENTRY, BIOS_SIZE, ROM_SIZE, GPU_RAM_SIZE, EXT_RAM_SIZE, WORKING_RAM_SIZE, ECHO_GAP,
        GRAPHICS_RAM_SIZE, UNUSABLE_MEM_SIZE, IO_SIZE, ZRAM_SIZE, PAGE, BLOCK} \subseteq Nat \ {0}
    /\ BIOS_SIZE <= ROM_SIZE /\ WORKING_RAM_SIZE = 2 * m_size /\ ECHO_GAP < WORKING_RAM_SIZE
    /\ BANK_COUNT \in Nat /\ BANK_COUNT >= 2
    /\ 0 \in Data /\ Selects \subseteq Nat /\ Lengths \subseteq Nat
    /\ Sources \subseteq Nat /\ Targets \subseteq Nat /\ Pages \subseteq Nat
    \* The sprites' table begins a page, and a page register cannot lead beyond memory.
    /\ GRAPHICS_RAM_OFFSET % PAGE = 0 /\ GRAPHICS_RAM_SIZE <= PAGE
    /\ \A page \in Pages : page * PAGE + GRAPHICS_RAM_SIZE - 1 \in Addresses

VARIABLES
    cgb,        \* isCGB()
    mem,        \* the contents of the regions the console owns
    inBios,     \* is m_bios at the front of m_memory?
    vramBank,   \* GPU_BANK_SELECT_ADDRESS & 1
    wramBank,   \* the working RAM's BANK_SELECT_ADDRESS
    source, target,   \* GPU_DMA_SRC_*, GPU_DMA_DEST_*
    dmaMode,    \* bit 7 of GPU_DMA_MODE
    fault       \* "none", or what stopped the program

registers == <<vramBank, wramBank, source, target, dmaMode>>
vars == <<cgb, mem, inBios, registers, fault>>

Cells ==
    ({"vram"} \X {0, 1} \X (0..(GPU_RAM_SIZE - 1)))
        \cup ({"wram"} \X (0..(BANK_COUNT - 1)) \X (0..(m_size - 1)))
        \cup ({"oam"} \X {0} \X (0..(GRAPHICS_RAM_SIZE - 1)))
        \cup ({"zram"} \X {0} \X (0..(ZRAM_SIZE - 1)))

Init ==
    /\ cgb \in BOOLEAN
    /\ mem = [c \in Cells |-> 0] /\ inBios = TRUE
    /\ vramBank = 0 /\ wramBank = 0
    /\ source \in Sources /\ target \in Targets /\ dmaMode = FALSE
    /\ fault = "none"

-----------------------------------------------------------------------------
\* Slip: the echo is as large as the working RAM.
IsShadowWhole(a) == a \in ECHO_OFFSET..(ECHO_OFFSET + WORKING_RAM_SIZE - 1)

\* WorkingRam::isShadowAddressed()
IsShadow(a) == a \in ECHO_OFFSET..(ECHO_OFFSET + WORKING_RAM_SIZE - ECHO_GAP - 1)

\* isAddressed() of each region.
IsAddressed(region, a) ==
    CASE region = "bios" -> a < BIOS_SIZE /\ a \notin ENTRY..(2 * ENTRY - 1)
      [] region = "cartridge" -> \/ a < GPU_RAM_OFFSET
                                 \/ a \in EXT_RAM_OFFSET..(WORKING_RAM_OFFSET - 1)
      [] region = "vram" -> a \in GPU_RAM_OFFSET..(EXT_RAM_OFFSET - 1)
      [] region = "wram" -> a \in WORKING_RAM_OFFSET..(ECHO_OFFSET - 1) \/ IsShadow(a)
      [] region = "oam" -> a \in GRAPHICS_RAM_OFFSET..(UNUSABLE_MEM_OFFSET - 1)
      [] region = "unusable" -> a \in UNUSABLE_MEM_OFFSET..(IO_OFFSET - 1)
      [] region = "io" -> a \in IO_OFFSET..(ZRAM_OFFSET - 1)
      [] region = "zram" -> a \in Addresses /\ a >= ZRAM_OFFSET

\* The list m_memory (init() and unlockBiosRegion()).
Regions == {"cartridge", "vram", "wram", "oam", "unusable", "io", "zram"}
                \cup IF inBios THEN {"bios"} ELSE {}

\* find(): the first region of the list that has the address.
Find(a) == IF inBios /\ IsAddressed("bios", a) THEN "bios"
           ELSE CHOOSE r \in Regions \ {"bios"} : IsAddressed(r, a)

\* Slip: bank 0 can be selected for the upper half.
BankAsSelected(index) == IF index < m_size THEN 0 ELSE IF cgb THEN wramBank ELSE index \div m_size

\* WorkingRam::bank()
Bank(index) ==
    IF ~cgb THEN index \div m_size
    ELSE IF index < m_size THEN 0
    ELSE IF wramBank > 1 THEN wramBank ELSE 1

\* The byte of memory behind an address; the address itself where the console owns none.
CellOf(a) ==
    LET region == Find(a)
        index == (IF IsShadow(a) THEN a - WORKING_RAM_SIZE ELSE a) - WORKING_RAM_OFFSET
    IN CASE region = "vram" -> <<"vram", vramBank, a - GPU_RAM_OFFSET>>
         [] region = "wram" -> <<"wram", Bank(index), index % m_size>>
         [] region = "oam" -> <<"oam", 0, a - GRAPHICS_RAM_OFFSET>>
         [] region = "zram" -> <<"zram", 0, a - ZRAM_OFFSET>>
         [] OTHER -> <<region, 0, a>>

\* What stops an access to an address: the assertion of WorkingRam::bank(), and for read(),
\* which also refuses the cartridge, the one of FATAL.
BadBank(a) == Find(a) = "wram" /\ CellOf(a)[2] >= BANK_COUNT
Unreadable(a) == Find(a) = "cartridge"

Owned(a) == Find(a) \in {"vram", "wram", "oam", "zram"}
Value(contents, a) == IF Owned(a) THEN contents[CellOf(a)] ELSE 0
Put(contents, a, v) == IF Owned(a) THEN [contents EXCEPT ![CellOf(a)] = v] ELSE contents

\* The i-th address from a on: an uint16_t, as are the addresses of read() and write().
At(a, i) == (a + i) % (ZRAM_OFFSET + ZRAM_SIZE)

\* Copy(to, from, n): the contents after n turns of a DMA engine's loop.
Copy(to, from, n) ==
    LET after[i \in 0..n] ==
            IF i = 0 THEN mem
            ELSE Put(after[i - 1], At(to, i - 1), Value(after[i - 1], At(from, i - 1)))
    IN after[n]

\* The fault of such a copy, "none" if it can be made.
FaultOf(to, from, n) ==
    IF \E i \in 0..(n - 1) : Unreadable(At(from, i)) THEN "address"
    ELSE IF \E i \in 0..(n - 1) : BadBank(At(from, i)) \/ BadBank(At(to, i)) THEN "bank"
    ELSE "none"

-----------------------------------------------------------------------------
\* The game reads or writes a byte.
Read(a) ==
    /\ BadBank(a)
    /\ fault' = "bank"
    /\ UNCHANGED <<cgb, mem, inBios, registers>>

Write(a, v) ==
    /\ Owned(a)
    /\ IF BadBank(a) THEN mem' = mem /\ fault' = "bank"
       ELSE mem' = Put(mem, a, v) /\ fault' = fault
    /\ UNCHANGED <<cgb, inBios, registers>>

SelectVram(b) ==
    /\ vramBank' = b
    /\ UNCHANGED <<cgb, mem, inBios, wramBank, source, target, dmaMode, fault>>

SelectWram(b) ==
    /\ wramBank' = b
    /\ UNCHANGED <<cgb, mem, inBios, vramBank, source, target, dmaMode, fault>>

SetDma(s, t) ==
    /\ source' = s /\ target' = t
    /\ UNCHANGED <<cgb, mem, inBios, vramBank, wramBank, dmaMode, fault>>

\* A write to GPU_DMA_OAM.
OamDma(page) ==
    LET size == GRAPHICS_RAM_SIZE
    IN /\ fault' = FaultOf(GRAPHICS_RAM_OFFSET, page * PAGE, size)
       /\ mem' = IF fault' = "none" THEN Copy(GRAPHICS_RAM_OFFSET, page * PAGE, size) ELSE mem
       /\ UNCHANGED <<cgb, inBios, registers>>

Aligned(a) == BLOCK * (a \div BLOCK)

\* Slip: the length is not counted from one.
VramDmaShort(length) ==
    LET size == length * BLOCK
    IN IF ~dmaMode
          THEN /\ fault' = FaultOf(Aligned(target), Aligned(source), size)
               /\ mem' = IF fault' = "none" THEN Copy(Aligned(target), Aligned(source), size) ELSE mem
               /\ dmaMode' = (fault' = "none")
               /\ UNCHANGED <<cgb, inBios, vramBank, wramBank, source, target>>
          ELSE /\ dmaMode' = FALSE
               /\ UNCHANGED <<cgb, mem, inBios, vramBank, wramBank, source, target, fault>>

\* A write to GPU_DMA_MODE with bit 7 clear.  The mode is taken from the register's old value.
VramDma(length) ==
    LET size == (length + 1) * BLOCK
    IN IF ~dmaMode
          THEN /\ fault' = FaultOf(Aligned(target), Aligned(source), size)
               /\ mem' = IF fault' = "none" THEN Copy(Aligned(target), Aligned(source), size) ELSE mem
               /\ dmaMode' = (fault' = "none")           \* 0xFF: finished
               /\ UNCHANGED <<cgb, inBios, vramBank, wramBank, source, target>>
          ELSE /\ dmaMode' = FALSE                       \* 0x80 & (value & 0x7F)
               /\ UNCHANGED <<cgb, mem, inBios, vramBank, wramBank, source, target, fault>>

\* Processor::execute() reaches ROM_ENTRY_POINT.
UnlockBiosRegion ==
    /\ inBios
    /\ inBios' = FALSE
    /\ UNCHANGED <<cgb, mem, registers, fault>>

\* setCartridge(): the registers keep their values, MappedIO::reset() does nothing.
SetCartridge(colour) ==
    /\ cgb' = colour
    /\ mem' = [c \in Cells |-> 0] /\ inBios' = TRUE
    /\ UNCHANGED <<registers, fault>>

Next ==
    /\ fault = "none"
    /\ \/ \E a \in Addresses : Read(a) \/ \E v \in Data : Write(a, v)
       \/ \E b \in {0, 1} : SelectVram(b)
       \/ \E b \in Selects : SelectWram(b)
       \/ \E s \in Sources, t \in Targets : SetDma(s, t)
       \/ \E page \in Pages : OamDma(page)
       \/ \E length \in Lengths : VramDma(length)
       \/ UnlockBiosRegion
       \/ \E colour \in BOOLEAN : SetCartridge(colour)

Spec == Init /\ [][Next]_vars

-----------------------------------------------------------------------------
\* TypeOK: memory keeps its shape and the registers their types.
TypeOK ==
    /\ mem \in [Cells -> Data]
    /\ {cgb, inBios, dmaMode} \subseteq BOOLEAN
    /\ vramBank \in {0, 1} /\ wramBank \in {0} \cup Selects
    /\ source \in Sources /\ target \in Targets
    /\ fault \in {"none", "address", "bank"}

\* HandledOnce: besides the BIOS, which is found first, exactly one region answers for each
\* address, so that the order of the rest of the list m_memory does not matter and find()
\* never fails.
HandledOnce ==
    \A a \in Addresses : Cardinality({r \in Regions \ {"bios"} : IsAddressed(r, a)}) = 1

\* OnlyTheEchoAliases: whatever banks are selected, two addresses lead to the same byte only
\* if one is the echo of the other, and an echo always leads to the byte it echoes.
OnlyTheEchoAliases ==
    LET cell == [a \in Addresses |-> CellOf(a)]
    IN \A a, b \in Addresses : a < b =>
          ((cell[a] = cell[b]) <=> (IsShadow(b) /\ b = a + WORKING_RAM_SIZE))

\* An OAM DMA that is not stopped leaves in the sprites' table what its page held, whatever
\* bank or echo the page lies in.
OamIsCopied ==
    \A page \in Pages : fault' = "none" /\ OamDma(page) =>
        \A i \in 0..(GRAPHICS_RAM_SIZE - 1) :
           Value(mem', GRAPHICS_RAM_OFFSET + i) = Value(mem, page * PAGE + i)

\* A copy that comes to read a byte it has written repeats what came before.
ReadsWhatItWrote(to, from, n) == \E i \in 0..(n - 1) : At(from, i) \in to..(to + i - 1)

\* A DMA into video RAM started with the mode register clear copies every block, and nothing
\* beyond the last one.
BlocksAreCopied ==
    \A length \in Lengths : ~dmaMode /\ fault' = "none" /\ VramDma(length) =>
        LET size == (length + 1) * BLOCK
            to == Aligned(target)
            from == Aligned(source)
            moved == to..(to + size - 1)
        IN moved \subseteq GPU_RAM_OFFSET..(EXT_RAM_OFFSET - 1) /\ ~ReadsWhatItWrote(to, from, size)
              => /\ \A i \in 0..(size - 1) : Value(mem', to + i) = Value(mem, At(from, i))
                 /\ \A a \in Addresses \ moved : ~BadBank(a) => Value(mem', a) = Value(mem, a)

\* Both transfers copy all that they were asked to, and nothing else (mappedio.cpp).
TransfersCopy == [][OamIsCopied /\ BlocksAreCopied]_vars

\* NeverUnhandled: the assertion of FATAL("Unhandled address ...") in read()
\* (memorycontroller.cpp:141) is never reached by a legal address.
NeverUnhandled == fault # "address"

\* BankExists: the assertion of WorkingRam::bank() (workingram.cpp:23).
BankExists == fault # "bank"

\* EveryTransferCopies: only an h-blank DMA takes the branch marked as such in MappedIO::write()
\* (mappedio.cpp:108); every transfer with bit 7 clear is made at once.
EveryTransferCopies ==
    [][\A length \in Lengths : VramDma(length) /\ fault' = "none" =>
          \A i \in 0..((length + 1) * BLOCK - 1) :
             Value(mem', At(Aligned(target), i)) = Value(mem, At(Aligned(source), i))]_vars
=============================================================================

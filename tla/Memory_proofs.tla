---------------------------- MODULE Memory_proofs ----------------------------
(***************************************************************************)
(* Proofs about Memory, for memories of every size: each address is        *)
(* handled by one region, only the echo of the working RAM leads to a byte *)
(* another address leads to as well, and both DMA engines copy what they   *)
(* were asked to.                                                          *)
(***************************************************************************)
EXTENDS Memory, FiniteSetTheorems, WellFoundedInduction, TLAPS

\* The list m_memory of MemoryController behind the BIOS.
RegionNames == {"cartridge", "vram", "wram", "oam", "unusable", "io", "zram"}

\* Offsets: the regions of memmap.h lie one behind the other, each of at least one address.
LEMMA Offsets ==
    /\ ENTRY \in Nat /\ BIOS_SIZE \in Nat /\ BIOS_SIZE <= ROM_SIZE
    /\ ROM_SIZE \in Nat /\ GPU_RAM_OFFSET \in Nat /\ EXT_RAM_OFFSET \in Nat
    /\ WORKING_RAM_OFFSET \in Nat /\ ECHO_OFFSET \in Nat /\ GRAPHICS_RAM_OFFSET \in Nat
    /\ UNUSABLE_MEM_OFFSET \in Nat /\ IO_OFFSET \in Nat /\ ZRAM_OFFSET \in Nat
    /\ WORKING_RAM_SIZE \in Nat /\ ECHO_GAP \in Nat /\ ZRAM_SIZE \in Nat
    /\ GPU_RAM_OFFSET = ROM_SIZE
    /\ GPU_RAM_OFFSET < EXT_RAM_OFFSET /\ EXT_RAM_OFFSET < WORKING_RAM_OFFSET
    /\ ECHO_OFFSET = WORKING_RAM_OFFSET + WORKING_RAM_SIZE
    /\ WORKING_RAM_OFFSET < ECHO_OFFSET /\ ECHO_OFFSET < GRAPHICS_RAM_OFFSET
    /\ GRAPHICS_RAM_OFFSET = ECHO_OFFSET + WORKING_RAM_SIZE - ECHO_GAP
    /\ GRAPHICS_RAM_OFFSET < UNUSABLE_MEM_OFFSET /\ UNUSABLE_MEM_OFFSET < IO_OFFSET
    /\ IO_OFFSET < ZRAM_OFFSET
  BY MemoryAssumption DEF GPU_RAM_OFFSET, EXT_RAM_OFFSET, WORKING_RAM_OFFSET, ECHO_OFFSET,
     GRAPHICS_RAM_OFFSET, UNUSABLE_MEM_OFFSET, IO_OFFSET, ZRAM_OFFSET

\* What isAddressed() of each region comes to, as intervals between the offsets.
Spans(a) ==
    /\ IsAddressed("cartridge", a)
         <=> (a < GPU_RAM_OFFSET \/ (EXT_RAM_OFFSET <= a /\ a < WORKING_RAM_OFFSET))
    /\ IsAddressed("vram", a) <=> GPU_RAM_OFFSET <= a /\ a < EXT_RAM_OFFSET
    /\ IsAddressed("wram", a) <=> WORKING_RAM_OFFSET <= a /\ a < GRAPHICS_RAM_OFFSET
    /\ IsAddressed("oam", a) <=> GRAPHICS_RAM_OFFSET <= a /\ a < UNUSABLE_MEM_OFFSET
    /\ IsAddressed("unusable", a) <=> UNUSABLE_MEM_OFFSET <= a /\ a < IO_OFFSET
    /\ IsAddressed("io", a) <=> IO_OFFSET <= a /\ a < ZRAM_OFFSET
    /\ IsAddressed("zram", a) <=> ZRAM_OFFSET <= a

\* RegionSpans: the isAddressed() methods answer for the intervals of Spans.
LEMMA RegionSpans ==
    ASSUME NEW a \in Addresses
    PROVE  Spans(a) /\ a \in Nat
<1>1. a \in Nat
  BY Offsets DEF Addresses
<1>2. IsShadow(a) <=> ECHO_OFFSET <= a /\ a < GRAPHICS_RAM_OFFSET
  BY <1>1, Offsets DEF IsShadow
<1>3. IsAddressed("wram", a) <=> WORKING_RAM_OFFSET <= a /\ a < GRAPHICS_RAM_OFFSET
  BY <1>1, <1>2, Offsets DEF IsAddressed
<1>4. IsAddressed("cartridge", a)
         <=> (a < GPU_RAM_OFFSET \/ (EXT_RAM_OFFSET <= a /\ a < WORKING_RAM_OFFSET))
  BY <1>1, Offsets DEF IsAddressed
<1>5. IsAddressed("vram", a) <=> GPU_RAM_OFFSET <= a /\ a < EXT_RAM_OFFSET
  BY <1>1, Offsets DEF IsAddressed
<1>6. IsAddressed("oam", a) <=> GRAPHICS_RAM_OFFSET <= a /\ a < UNUSABLE_MEM_OFFSET
  BY <1>1, Offsets DEF IsAddressed
<1>7. IsAddressed("unusable", a) <=> UNUSABLE_MEM_OFFSET <= a /\ a < IO_OFFSET
  BY <1>1, Offsets DEF IsAddressed
<1>8. IsAddressed("io", a) <=> IO_OFFSET <= a /\ a < ZRAM_OFFSET
  BY <1>1, Offsets DEF IsAddressed
<1>9. IsAddressed("zram", a) <=> ZRAM_OFFSET <= a
  BY <1>1, Offsets DEF IsAddressed
<1>10. QED
  BY <1>1, <1>3, <1>4, <1>5, <1>6, <1>7, <1>8, <1>9 DEF Spans

\* OneRegion: one region behind the BIOS, and no other, has an address (find()).
LEMMA OneRegion ==
    ASSUME NEW a \in Addresses
    PROVE  \E r \in RegionNames : {s \in RegionNames : IsAddressed(s, a)} = {r}
<1>1. Spans(a) /\ a \in Nat
  BY RegionSpans
<1>2. \E r \in RegionNames : IsAddressed(r, a)
  BY <1>1, Offsets DEF Spans, RegionNames
<1>3. \A r, s \in RegionNames : IsAddressed(r, a) /\ IsAddressed(s, a) => r = s
  BY <1>1, Offsets DEF Spans, RegionNames
<1>4. QED
  BY <1>2, <1>3

\* EveryAddressIsHandledOnce: whatever the sizes of the regions, the search of
\* MemoryController::find() has one answer behind the BIOS.
THEOREM EveryAddressIsHandledOnce == Spec => []HandledOnce
<1>1. HandledOnce
  <2>1. Regions \ {"bios"} = RegionNames
    BY DEF Regions, RegionNames
  <2>2. SUFFICES ASSUME NEW a \in Addresses
                 PROVE  Cardinality({r \in RegionNames : IsAddressed(r, a)}) = 1
    BY <2>1 DEF HandledOnce
  <2>3. PICK r \in RegionNames : {s \in RegionNames : IsAddressed(s, a)} = {r}
    BY OneRegion
  <2>4. QED
    BY <2>3, FS_Singleton
<1>2. QED
  BY <1>1, PTL

-----------------------------------------------------------------------------
\* The inductive invariant: the bank register of WorkingRam holds a number.
BankIsNatural == wramBank \in Nat

\* NaturalBank: it holds 0 or what a game wrote into it (MappedIO, WorkingRam).
LEMMA NaturalBank == Spec => []BankIsNatural
<1>1. Init => BankIsNatural
  BY DEF Init, BankIsNatural
<1>2. BankIsNatural /\ [Next]_vars => BankIsNatural'
  BY MemoryAssumption DEF BankIsNatural, Next, vars, registers, Read, Write, SelectVram,
     SelectWram, SetDma, OamDma, VramDma, UnlockBiosRegion, SetCartridge
<1>3. QED
  BY <1>1, <1>2, PTL DEF Spec

\* Halves: WorkingRam::bank() keeps the halves of the working RAM apart, whatever is selected,
\* and the byte within a bank is the index into its half.
LEMMA Halves ==
    ASSUME BankIsNatural, NEW i \in 0..(WORKING_RAM_SIZE - 1)
    PROVE  IF i < m_size THEN Bank(i) = 0 /\ i % m_size = i
           ELSE Bank(i) \in Nat /\ Bank(i) >= 1 /\ i % m_size = i - m_size
<1>1. m_size \in Nat \ {0} /\ WORKING_RAM_SIZE = 2 * m_size /\ i \in Nat
  BY MemoryAssumption DEF m_size
<1>2. \A n \in Nat, d \in Nat \ {0} :
          n < 2 * d => IF n < d THEN n \div d = 0 /\ n % d = n ELSE n \div d = 1 /\ n % d = n - d
  OBVIOUS
<1>3. IF i < m_size THEN i \div m_size = 0 /\ i % m_size = i
      ELSE i \div m_size = 1 /\ i % m_size = i - m_size
  BY <1>1, <1>2
<1>4. QED
  BY <1>1, <1>3 DEF Bank, BankIsNatural

\* BytesApart: two bytes of the working RAM are never the same byte of a bank.
LEMMA BytesApart ==
    ASSUME BankIsNatural, NEW i \in 0..(WORKING_RAM_SIZE - 1),
           NEW j \in 0..(WORKING_RAM_SIZE - 1), Bank(i) = Bank(j), i % m_size = j % m_size
    PROVE  i = j
<1>1. m_size \in Nat \ {0} /\ WORKING_RAM_SIZE = 2 * m_size
  BY MemoryAssumption DEF m_size
<1>2. /\ i < m_size => Bank(i) = 0 /\ i % m_size = i
      /\ ~(i < m_size) => Bank(i) \in Nat /\ Bank(i) >= 1 /\ i % m_size = i - m_size
  BY Halves
<1>3. /\ j < m_size => Bank(j) = 0 /\ j % m_size = j
      /\ ~(j < m_size) => Bank(j) \in Nat /\ Bank(j) >= 1 /\ j % m_size = j - m_size
  BY Halves
<1>4. QED
  BY <1>1, <1>2, <1>3

\* Where isShadowAddressed() leads: the index into the working RAM.
IndexOf(a) == (IF IsShadow(a) THEN a - WORKING_RAM_SIZE ELSE a) - WORKING_RAM_OFFSET

\* FindsIt: find() returns the BIOS or the one region that has the address.
LEMMA FindsIt ==
    ASSUME NEW a \in Addresses
    PROVE  IF inBios /\ IsAddressed("bios", a) THEN Find(a) = "bios" /\ a < GPU_RAM_OFFSET
           ELSE Find(a) \in RegionNames /\ IsAddressed(Find(a), a)
<1>1. CASE inBios /\ IsAddressed("bios", a)
  BY <1>1, Offsets, RegionSpans DEF Find, IsAddressed
<1>2. CASE ~(inBios /\ IsAddressed("bios", a))
  <2>1. Regions \ {"bios"} = RegionNames
    BY DEF Regions, RegionNames
  <2>2. PICK r \in RegionNames : {s \in RegionNames : IsAddressed(s, a)} = {r}
    BY OneRegion
  <2>3. r \in RegionNames /\ IsAddressed(r, a)
    BY <2>2
  <2>4. Find(a) = CHOOSE s \in RegionNames : IsAddressed(s, a)
    BY <1>2, <2>1 DEF Find
  <2>5. QED
    BY <1>2, <2>3, <2>4
<1>3. QED
  BY <1>1, <1>2

\* WhereIs: find() by intervals: what decides the first component of CellOf.
LEMMA WhereIs ==
    ASSUME NEW a \in Addresses
    PROVE  /\ (Find(a) = "wram") <=> (WORKING_RAM_OFFSET <= a /\ a < GRAPHICS_RAM_OFFSET)
           /\ IsShadow(a) <=> (ECHO_OFFSET <= a /\ a < GRAPHICS_RAM_OFFSET)
           /\ Find(a) \in RegionNames \cup {"bios"}
<1>1. Spans(a) /\ a \in Nat
  BY RegionSpans
<1>2. IsShadow(a) <=> (ECHO_OFFSET <= a /\ a < GRAPHICS_RAM_OFFSET)
  BY <1>1, Offsets DEF IsShadow
<1>3. Find(a) \in RegionNames \cup {"bios"}
  BY FindsIt
<1>4. ASSUME Find(a) = "wram" PROVE WORKING_RAM_OFFSET <= a /\ a < GRAPHICS_RAM_OFFSET
  BY <1>1, <1>4, FindsIt DEF Spans
<1>5. ASSUME WORKING_RAM_OFFSET <= a, a < GRAPHICS_RAM_OFFSET PROVE Find(a) = "wram"
  <2>1. ~(a < GPU_RAM_OFFSET)
    BY <1>1, <1>5, Offsets
  <2>2. Find(a) \in RegionNames /\ IsAddressed(Find(a), a)
    BY <2>1, FindsIt
  <2>3. IsAddressed("wram", a)
    BY <1>1, <1>5 DEF Spans
  <2>4. PICK r \in RegionNames : {s \in RegionNames : IsAddressed(s, a)} = {r}
    BY OneRegion
  <2>5. QED
    BY <2>2, <2>3, <2>4 DEF RegionNames
<1>6. QED
  BY <1>2, <1>3, <1>4, <1>5

\* IndexFits: an address of the working RAM or of its echo is within both banks.
LEMMA IndexFits ==
    ASSUME NEW a \in Addresses, Find(a) = "wram"
    PROVE  IndexOf(a) \in 0..(WORKING_RAM_SIZE - 1)
<1>1. a \in Nat
  BY RegionSpans
<1>2. WORKING_RAM_OFFSET <= a /\ a < GRAPHICS_RAM_OFFSET
  BY WhereIs
<1>3. IsShadow(a) <=> (ECHO_OFFSET <= a /\ a < GRAPHICS_RAM_OFFSET)
  BY WhereIs
<1>4. QED
  BY <1>1, <1>2, <1>3, Offsets, MemoryAssumption DEF IndexOf

\* CellsNamed: the byte behind an address bears the name of its region, and outside of the
\* working RAM the address can be told from it.
LEMMA CellsNamed ==
    ASSUME NEW a \in Addresses, Find(a) # "wram"
    PROVE  /\ Find(a) = "vram" => CellOf(a) = <<"vram", vramBank, a - GPU_RAM_OFFSET>>
           /\ Find(a) = "oam" => CellOf(a) = <<"oam", 0, a - GRAPHICS_RAM_OFFSET>>
           /\ Find(a) = "zram" => CellOf(a) = <<"zram", 0, a - ZRAM_OFFSET>>
           /\ Find(a) \notin {"vram", "oam", "zram"} => CellOf(a) = <<Find(a), 0, a>>
<1>1. CASE Find(a) = "vram"
  BY <1>1 DEF CellOf
<1>2. CASE Find(a) = "oam"
  BY <1>2 DEF CellOf
<1>3. CASE Find(a) = "zram"
  BY <1>3 DEF CellOf
<1>4. CASE Find(a) \notin {"vram", "oam", "zram"}
  BY <1>4 DEF CellOf
<1>5. QED
  BY <1>1, <1>2, <1>3, <1>4

\* WorkingCells: WorkingRam::read() and write() take a byte of the bank that bank() gives.
LEMMA WorkingCells ==
    ASSUME NEW a \in Addresses, Find(a) = "wram"
    PROVE  CellOf(a) = <<"wram", Bank(IndexOf(a)), IndexOf(a) % m_size>>
  BY DEF CellOf, IndexOf

\* OneCell: what two addresses lead to, in a state whose bank register holds a number.
LEMMA OneCell ==
    ASSUME BankIsNatural, NEW a \in Addresses, NEW b \in Addresses, a < b
    PROVE  (CellOf(a) = CellOf(b)) <=> (IsShadow(b) /\ b = a + WORKING_RAM_SIZE)
<1>1. a \in Nat /\ b \in Nat
  BY RegionSpans
<1>2. ASSUME IsShadow(b), b = a + WORKING_RAM_SIZE
      PROVE  Find(a) = "wram" /\ Find(b) = "wram" /\ IndexOf(a) = IndexOf(b)
  <2>1. ECHO_OFFSET <= b /\ b < GRAPHICS_RAM_OFFSET
    BY <1>2, WhereIs
  <2>2. WORKING_RAM_OFFSET <= a /\ a < ECHO_OFFSET
    BY <1>1, <1>2, <2>1, Offsets, MemoryAssumption
  <2>3. Find(a) = "wram" /\ Find(b) = "wram"
    BY <1>1, <2>1, <2>2, WhereIs, Offsets
  <2>4. ~IsShadow(a)
    BY <1>1, <2>2, WhereIs, Offsets
  <2>5. QED
    BY <1>1, <1>2, <2>3, <2>4, Offsets DEF IndexOf
<1>3. CASE Find(a) = "wram" /\ Find(b) = "wram"
  <2>1. IndexOf(a) \in 0..(WORKING_RAM_SIZE - 1) /\ IndexOf(b) \in 0..(WORKING_RAM_SIZE - 1)
    BY <1>3, IndexFits
  <2>2. (CellOf(a) = CellOf(b)) <=>
           (Bank(IndexOf(a)) = Bank(IndexOf(b)) /\ IndexOf(a) % m_size = IndexOf(b) % m_size)
    BY <1>3, WorkingCells
  <2>3. (CellOf(a) = CellOf(b)) <=> IndexOf(a) = IndexOf(b)
    BY <2>1, <2>2, BytesApart
  <2>4. ASSUME IndexOf(a) = IndexOf(b)
        PROVE  IsShadow(b) /\ b = a + WORKING_RAM_SIZE
    <3>1. /\ IsShadow(a) <=> (ECHO_OFFSET <= a /\ a < GRAPHICS_RAM_OFFSET)
          /\ IsShadow(b) <=> (ECHO_OFFSET <= b /\ b < GRAPHICS_RAM_OFFSET)
      BY WhereIs
    <3>2. b < GRAPHICS_RAM_OFFSET
      BY <1>3, WhereIs
    <3>3. QED
      BY <1>1, <2>4, <3>1, <3>2, Offsets, MemoryAssumption DEF IndexOf
  <2>5. QED
    BY <1>2, <2>3, <2>4
<1>4. CASE ~(Find(a) = "wram" /\ Find(b) = "wram")
  <2>1. SUFFICES CellOf(a) # CellOf(b)
    BY <1>2, <1>4
  <2>2. CASE Find(a) = "wram"
    <3>1. CellOf(a)[1] = "wram"
      BY <2>2, WorkingCells
    <3>2. CellOf(b)[1] = Find(b)
      BY <1>4, <2>2, CellsNamed
    <3>3. QED
      BY <1>4, <2>2, <3>1, <3>2
  <2>3. CASE Find(b) = "wram"
    <3>1. CellOf(b)[1] = "wram"
      BY <2>3, WorkingCells
    <3>2. CellOf(a)[1] = Find(a)
      BY <1>4, <2>3, CellsNamed
    <3>3. QED
      BY <1>4, <2>3, <3>1, <3>2
  <2>4. CASE Find(a) # "wram" /\ Find(b) # "wram"
    <3>1. CellOf(a)[1] = Find(a) /\ CellOf(b)[1] = Find(b)
      BY <2>4, CellsNamed
    <3>2. CASE Find(a) = Find(b)
      <4>1. CellOf(a)[3] # CellOf(b)[3]
        BY <1>1, <2>4, <3>2, CellsNamed, Offsets
      <4>2. QED
        BY <4>1
    <3>3. QED
      BY <3>1, <3>2
  <2>5. QED
    BY <2>2, <2>3, <2>4
<1>5. QED
  BY <1>3, <1>4

\* EchoAlone: whatever banks the game selects, two addresses share a byte only as the working
\* RAM and its echo do, and those always share one (WorkingRam, GpuRam, MemoryRegion).
THEOREM EchoAlone == Spec => []OnlyTheEchoAliases
<1>1. BankIsNatural => OnlyTheEchoAliases
  BY OneCell DEF OnlyTheEchoAliases
<1>2. QED
  BY <1>1, NaturalBank, PTL

-----------------------------------------------------------------------------
(* What the loops of the two DMA engines do, by induction over their turns. *)

\* Induction: the natural numbers are contained in every set that has 0 and successors.
LEMMA SetInduction ==
    ASSUME NEW S, 0 \in S, \A n \in Nat : n \in S => n + 1 \in S
    PROVE  Nat \subseteq S
<1>1. SUFFICES ASSUME Nat \ S # {} PROVE FALSE
  OBVIOUS
<1>2. PICK x \in Nat \ S : \A y \in Nat \ S : ~(<<y, x>> \in OpToRel(<, Nat))
  BY <1>1, NatLessThanWellFounded, WFMin
<1>3. \A y \in Nat : y < x => y \in S
  BY <1>2 DEF OpToRel
<1>4. x \in Nat /\ x \notin S /\ x # 0
  BY <1>2
<1>5. x - 1 \in Nat /\ x - 1 < x /\ (x - 1) + 1 = x
  BY <1>4
<1>6. x - 1 \in S
  BY <1>3, <1>5
<1>7. QED
  BY <1>4, <1>5, <1>6

\* The values of a loop of n turns, the i-th of which makes s[<<i, x>>] of x.
Runs(g, n, first, s) == g[0] = first /\ \A i \in 1..n : g[i] = s[<<i, g[i - 1]>>]

\* Iteration: a loop of n turns, the i-th of which makes s[<<i, x>>] of x, has a result.
LEMMA Iteration ==
    ASSUME NEW n \in Nat, NEW X, NEW first \in X, NEW s \in [((1..n) \X X) -> X]
    PROVE  \E g \in [0..n -> X] : Runs(g, n, first, s)
<1> DEFINE Turns(g, m) == g[0] = first /\ \A i \in 1..m : g[i] = s[<<i, g[i - 1]>>]
           S == {m \in Nat : m <= n => \E g \in [0..m -> X] : Turns(g, m)}
<1>1. 0 \in S
  <2> DEFINE g == [i \in 0..0 |-> first]
  <2>1. g \in [0..0 -> X] /\ Turns(g, 0)
    OBVIOUS
  <2>2. QED
    BY <2>1
<1>2. ASSUME NEW m \in Nat, m \in S PROVE m + 1 \in S
  <2> SUFFICES ASSUME m + 1 <= n PROVE \E h \in [0..(m + 1) -> X] : Turns(h, m + 1)
    OBVIOUS
  <2>1. PICK g \in [0..m -> X] : Turns(g, m)
    BY <1>2
  <2> DEFINE h == [i \in 0..(m + 1) |-> IF i = m + 1 THEN s[<<m + 1, g[m]>>] ELSE g[i]]
  <2>2. h \in [0..(m + 1) -> X]
    <3>1. g[m] \in X
      BY <2>1
    <3>2. s[<<m + 1, g[m]>>] \in X
      BY <3>1
    <3>3. QED
      BY <2>1, <3>2
  <2>3. Turns(h, m + 1)
    <3>1. h[0] = first
      BY <2>1
    <3>2. ASSUME NEW i \in 1..(m + 1) PROVE h[i] = s[<<i, h[i - 1]>>]
      <4>1. h[i - 1] = g[i - 1]
        BY <2>1
      <4>2. CASE i = m + 1
        <5>1. i - 1 = m
          BY <4>2
        <5>2. h[i] = s[<<i, g[i - 1]>>]
          BY <4>2, <5>1
        <5>3. QED
          BY <4>1, <5>2
      <4>3. CASE i # m + 1
        <5>1. i \in 1..m
          BY <4>3
        <5>2. h[i] = g[i]
          BY <4>3
        <5>3. QED
          BY <2>1, <4>1, <5>1, <5>2
      <4>4. QED
        BY <4>2, <4>3
    <3>3. QED
      BY <3>1, <3>2
  <2> HIDE DEF h
  <2>4. QED
    BY <2>2, <2>3
<1>3. n \in S
  BY <1>1, <1>2, SetInduction
<1>4. QED
  BY <1>3 DEF Runs

\* The inductive invariant of the DMA engines: memory keeps its shape, and the bank registers
\* hold what the program takes from them.
MemInv ==
    /\ mem \in [Cells -> Data] /\ BankIsNatural /\ vramBank \in {0, 1}
    /\ source \in Nat /\ target \in Nat

\* InSpace: an address of 16 bits is always one of memory, and the i-th from a on is a + i
\* unless that lies beyond.
LEMMA InSpace ==
    ASSUME NEW a \in Nat, NEW i \in Nat
    PROVE  At(a, i) \in Addresses /\ (a + i \in Addresses => At(a, i) = a + i)
<1> DEFINE size == ZRAM_OFFSET + ZRAM_SIZE
<1>1. size \in Nat \ {0} /\ Addresses = 0..(size - 1) /\ At(a, i) = (a + i) % size
  BY Offsets, MemoryAssumption DEF Addresses, At
<1> HIDE DEF size
<1>2. \A m \in Nat, d \in Nat \ {0} : m % d \in 0..(d - 1) /\ (m < d => m % d = m)
  OBVIOUS
<1>3. a + i \in Nat
  OBVIOUS
<1>4. (a + i) % size \in 0..(size - 1) /\ (a + i < size => (a + i) % size = a + i)
  BY <1>1, <1>2, <1>3
<1>5. QED
  BY <1>1, <1>3, <1>4

\* CellsHeld: the byte behind an address is one the console has, unless the bank does not
\* exist (the assertion of WorkingRam::bank()).
LEMMA CellsHeld ==
    ASSUME BankIsNatural, vramBank \in {0, 1}, NEW a \in Addresses, Owned(a), ~BadBank(a)
    PROVE  CellOf(a) \in Cells
<1>1. a \in Nat /\ Spans(a)
  BY RegionSpans
<1>2. Find(a) \in {"vram", "wram", "oam", "zram"}
  BY DEF Owned
<1>3. IsAddressed(Find(a), a)
  BY <1>2, FindsIt
<1>4. CASE Find(a) = "vram"
  <2>1. a - GPU_RAM_OFFSET \in 0..(GPU_RAM_SIZE - 1)
    BY <1>1, <1>3, <1>4, Offsets, MemoryAssumption DEF Spans, EXT_RAM_OFFSET
  <2>2. CellOf(a) = <<"vram", vramBank, a - GPU_RAM_OFFSET>>
    BY <1>4, CellsNamed
  <2>3. QED
    BY <2>1, <2>2 DEF Cells
<1>5. CASE Find(a) = "oam"
  <2>1. a - GRAPHICS_RAM_OFFSET \in 0..(GRAPHICS_RAM_SIZE - 1)
    BY <1>1, <1>3, <1>5, Offsets, MemoryAssumption DEF Spans, UNUSABLE_MEM_OFFSET
  <2>2. CellOf(a) = <<"oam", 0, a - GRAPHICS_RAM_OFFSET>>
    BY <1>5, CellsNamed
  <2>3. QED
    BY <2>1, <2>2 DEF Cells
<1>6. CASE Find(a) = "zram"
  <2>1. a - ZRAM_OFFSET \in 0..(ZRAM_SIZE - 1)
    BY <1>1, <1>3, <1>6, Offsets, MemoryAssumption DEF Spans, Addresses
  <2>2. CellOf(a) = <<"zram", 0, a - ZRAM_OFFSET>>
    BY <1>6, CellsNamed
  <2>3. QED
    BY <2>1, <2>2 DEF Cells
<1>7. CASE Find(a) = "wram"
  <2> DEFINE i == IndexOf(a)
  <2>1. i \in 0..(WORKING_RAM_SIZE - 1)
    BY <1>7, IndexFits
  <2>2. CellOf(a) = <<"wram", Bank(i), i % m_size>>
    BY <1>7, WorkingCells
  <2> HIDE DEF i
  <2>3. m_size \in Nat \ {0} /\ WORKING_RAM_SIZE = 2 * m_size /\ BANK_COUNT \in Nat
    BY MemoryAssumption DEF m_size
  <2>4. Bank(i) \in Nat /\ i % m_size \in 0..(m_size - 1)
    <3>1. CASE i < m_size
      BY <2>1, <2>3, <3>1, Halves
    <3>2. CASE ~(i < m_size)
      <4>1. Bank(i) \in Nat /\ i % m_size = i - m_size
        BY <2>1, <3>2, Halves
      <4>2. QED
        BY <2>1, <2>3, <3>2, <4>1
    <3>3. QED
      BY <3>1, <3>2
  <2>5. ~(Bank(i) >= BANK_COUNT)
    BY <1>7, <2>2 DEF BadBank
  <2>6. Bank(i) \in 0..(BANK_COUNT - 1)
    BY <2>3, <2>4, <2>5
  <2>7. QED
    BY <2>2, <2>4, <2>6 DEF Cells
<1>8. QED
  BY <1>2, <1>4, <1>5, <1>6, <1>7

\* Alone: outside of the working RAM no other address leads to the same byte.
LEMMA Alone ==
    ASSUME BankIsNatural, NEW a \in Addresses, NEW b \in Addresses, Find(a) \in {"vram", "oam"},
           CellOf(a) = CellOf(b)
    PROVE  a = b
<1>1. a \in Nat /\ b \in Nat
  BY RegionSpans
<1>2. Find(a) # "wram"
  OBVIOUS
<1>3. CellOf(a)[1] # "wram"
  BY <1>2, CellsNamed
<1>4. Find(b) # "wram"
  BY <1>3, WorkingCells
<1>5. CASE a < b
  <2>1. IsShadow(b)
    BY <1>5, OneCell
  <2>2. Find(b) = "wram"
    BY <1>1, <2>1, WhereIs, Offsets
  <2>3. QED
    BY <1>4, <2>2
<1>6. CASE b < a
  <2>1. IsShadow(a)
    BY <1>6, OneCell
  <2>2. Find(a) = "wram"
    BY <1>1, <2>1, WhereIs, Offsets
  <2>3. QED
    BY <1>2, <2>2
<1>7. QED
  BY <1>1, <1>5, <1>6

\* The contents of memory: what read() finds in them is a byte.
LEMMA ValueType ==
    ASSUME BankIsNatural, vramBank \in {0, 1}, NEW m \in [Cells -> Data], NEW a \in Addresses,
           ~BadBank(a)
    PROVE  Value(m, a) \in Data
<1>1. CASE Owned(a)
  <2>1. CellOf(a) \in Cells
    BY <1>1, CellsHeld
  <2>2. QED
    BY <1>1, <2>1 DEF Value
<1>2. CASE ~Owned(a)
  BY <1>2, MemoryAssumption DEF Value
<1>3. QED
  BY <1>1, <1>2

\* PutType: a write leaves memory its shape.
LEMMA PutType ==
    ASSUME NEW m \in [Cells -> Data], NEW a, NEW v \in Data
    PROVE  Put(m, a, v) \in [Cells -> Data]
  BY DEF Put

\* PutValue: a write to a byte of the video RAM or the sprites' table is seen at its address,
\* and at no other.
LEMMA PutValue ==
    ASSUME BankIsNatural, vramBank \in {0, 1}, NEW m \in [Cells -> Data], NEW a \in Addresses,
           Find(a) \in {"vram", "oam"}, NEW v \in Data, NEW b \in Addresses, ~BadBank(b)
    PROVE  Value(Put(m, a, v), b) = IF b = a THEN v ELSE Value(m, b)
<1>1. Owned(a) /\ ~BadBank(a)
  BY DEF Owned, BadBank
<1>2. CellOf(a) \in Cells
  BY <1>1, CellsHeld
<1>3. Put(m, a, v) = [m EXCEPT ![CellOf(a)] = v]
  BY <1>1 DEF Put
<1>4. CASE b = a
  BY <1>1, <1>2, <1>3, <1>4 DEF Value
<1>5. CASE b # a
  <2>1. CASE Owned(b)
    <3>1. CellOf(b) \in Cells /\ CellOf(b) # CellOf(a)
      BY <1>5, <2>1, CellsHeld, Alone
    <3>2. QED
      BY <1>3, <1>5, <2>1, <3>1 DEF Value
  <2>2. CASE ~Owned(b)
    BY <1>5, <2>2 DEF Value
  <2>3. QED
    BY <2>1, <2>2
<1>6. QED
  BY <1>4, <1>5

\* CopyTurns: what memory holds after every turn of a DMA engine's loop.
LEMMA CopyTurns ==
    ASSUME MemInv, NEW to \in Nat, NEW from \in Nat, NEW n \in Nat,
           \A i \in 0..(n - 1) : ~BadBank(At(from, i))
    PROVE  \E after \in [0..n -> [Cells -> Data]] :
              /\ Copy(to, from, n) = after[n] /\ after[0] = mem
              /\ \A i \in 1..n : /\ Value(after[i - 1], At(from, i - 1)) \in Data
                                 /\ after[i] = Put(after[i - 1], At(to, i - 1),
                                                   Value(after[i - 1], At(from, i - 1)))
<1> DEFINE X == [Cells -> Data]
           Turn(i, m) == Put(m, At(to, i - 1), Value(m, At(from, i - 1)))
           after[i \in 0..n] == IF i = 0 THEN mem ELSE Turn(i, after[i - 1])
           s == [p \in (1..n) \X X |-> Turn(p[1], p[2])]
<1>1. Copy(to, from, n) = after[n]
  BY Zenon DEF Copy
<1>2. mem \in X
  BY DEF MemInv
<1>3. ASSUME NEW i \in 1..n, NEW m \in X
      PROVE  Turn(i, m) \in X /\ Value(m, At(from, i - 1)) \in Data
  <2>1. i - 1 \in 0..(n - 1) /\ i - 1 \in Nat
    OBVIOUS
  <2>2. At(from, i - 1) \in Addresses /\ ~BadBank(At(from, i - 1))
    BY <2>1, InSpace
  <2>3. Value(m, At(from, i - 1)) \in Data
    BY <2>2, ValueType DEF MemInv
  <2>4. QED
    BY <2>3, PutType
<1> HIDE DEF X, Turn, after
<1>4. s \in [((1..n) \X X) -> X]
  BY <1>3
<1>5. \A i \in 1..n, m \in X : s[<<i, m>>] = Turn(i, m)
  OBVIOUS
<1> HIDE DEF s
<1>6. \E g \in [0..n -> X] : Runs(g, n, mem, s)
  BY <1>2, <1>4, Iteration
<1>7. PICK g \in [0..n -> X] : g[0] = mem /\ \A i \in 1..n : g[i] = s[<<i, g[i - 1]>>]
  BY <1>6 DEF Runs
<1>8. \A i \in 1..n : g[i - 1] \in X /\ g[i] = Turn(i, g[i - 1])
  <2>1. ASSUME NEW i \in 1..n PROVE g[i - 1] \in X /\ g[i] = Turn(i, g[i - 1])
    <3>1. g[i - 1] \in X
      BY <1>7
    <3>2. QED
      BY <1>5, <1>7, <3>1
  <2>2. QED
    BY <2>1
<1>9. g = [i \in 0..n |-> IF i = 0 THEN mem ELSE Turn(i, g[i - 1])]
  <2>1. \A i \in 0..n : i # 0 => i \in 1..n
    OBVIOUS
  <2>2. \A i \in 0..n : g[i] = IF i = 0 THEN mem ELSE Turn(i, g[i - 1])
    BY <1>7, <1>8, <2>1
  <2>3. QED
    BY <2>2
<1>10. after = [i \in 0..n |-> IF i = 0 THEN mem ELSE Turn(i, after[i - 1])]
  BY <1>9, Zenon DEF after
<1> DEFINE S == {i \in Nat : i <= n => after[i] = g[i]}
<1>11. 0 \in S
  BY <1>7, <1>10
<1>12. ASSUME NEW i \in Nat, i \in S PROVE i + 1 \in S
  <2>1. SUFFICES ASSUME i + 1 <= n PROVE after[i + 1] = g[i + 1]
    OBVIOUS
  <2>2. i + 1 \in 1..n /\ (i + 1) - 1 = i /\ i <= n /\ i + 1 \in 0..n /\ i + 1 # 0
    BY <2>1
  <2>3. after[i + 1] = Turn(i + 1, after[i])
    BY <1>10, <2>2
  <2>4. g[i + 1] = Turn(i + 1, g[i])
    BY <1>8, <2>2
  <2>5. QED
    BY <1>12, <2>2, <2>3, <2>4
<1>13. \A i \in Nat : i <= n => after[i] = g[i]
  BY <1>11, <1>12, SetInduction
<1>14. Copy(to, from, n) = g[n]
  BY <1>1, <1>13
<1>15. \A i \in 1..n : /\ Value(g[i - 1], At(from, i - 1)) \in Data
                       /\ g[i] = Put(g[i - 1], At(to, i - 1), Value(g[i - 1], At(from, i - 1)))
  BY <1>3, <1>8 DEF Turn
<1>16. QED
  BY <1>7, <1>14, <1>15 DEF X

\* CopyHolds: a loop that writes each of its targets, bytes of the video RAM or the sprites'
\* table, once, and none of them before it is read, copies each byte and no other.
LEMMA CopyHolds ==
    ASSUME MemInv, NEW to \in Nat, NEW from \in Nat, NEW n \in Nat,
           \A i \in 0..(n - 1) : ~BadBank(At(from, i)),
           \A i \in 0..(n - 1) : At(to, i) = to + i /\ Find(to + i) \in {"vram", "oam"},
           \A i \in 0..(n - 1) : At(from, i) \notin to..(to + i - 1)
    PROVE  /\ \A i \in 0..(n - 1) :
                 Value(Copy(to, from, n), to + i) = Value(mem, At(from, i))
           /\ \A a \in Addresses : ~BadBank(a) /\ a \notin to..(to + n - 1)
                 => Value(Copy(to, from, n), a) = Value(mem, a)
<1>1. PICK after \in [0..n -> [Cells -> Data]] :
              /\ Copy(to, from, n) = after[n] /\ after[0] = mem
              /\ \A i \in 1..n : /\ Value(after[i - 1], At(from, i - 1)) \in Data
                                 /\ after[i] = Put(after[i - 1], At(to, i - 1),
                                                   Value(after[i - 1], At(from, i - 1)))
  BY CopyTurns
<1> DEFINE Moved(i) == \A j \in 0..(i - 1) : Value(after[i], to + j) = Value(mem, At(from, j))
           Kept(i) == \A a \in Addresses : ~BadBank(a) /\ a \notin to..(to + i - 1)
                         => Value(after[i], a) = Value(mem, a)
           S == {i \in Nat : i <= n => Moved(i) /\ Kept(i)}
<1>2. 0 \in S
  BY <1>1
<1>3. ASSUME NEW i \in Nat, i \in S PROVE i + 1 \in S
  <2>1. SUFFICES ASSUME i + 1 <= n PROVE Moved(i + 1) /\ Kept(i + 1)
    OBVIOUS
  <2>2. i \in 0..(n - 1) /\ i \in 0..n /\ i + 1 \in 1..n /\ (i + 1) - 1 = i
    BY <2>1
  <2> DEFINE v == Value(after[i], At(from, i))
  <2>3. Moved(i) /\ Kept(i)
    BY <1>3, <2>2
  <2>4. after[i] \in [Cells -> Data] /\ v \in Data /\ after[i + 1] = Put(after[i], to + i, v)
    BY <1>1, <2>2
  <2>5. to + i \in Addresses /\ Find(to + i) \in {"vram", "oam"}
    BY <2>2, InSpace
  <2>6. At(from, i) \in Addresses /\ ~BadBank(At(from, i))
    BY <2>2, InSpace
  <2>7. v = Value(mem, At(from, i))
    BY <2>2, <2>3, <2>6
  <2> HIDE DEF v, Moved, Kept
  <2>8. ASSUME NEW b \in Addresses, ~BadBank(b)
        PROVE  Value(after[i + 1], b) = IF b = to + i THEN v ELSE Value(after[i], b)
    BY <2>4, <2>5, <2>8, PutValue DEF MemInv
  <2>9. Moved(i + 1)
    <3>1. SUFFICES ASSUME NEW j \in 0..i
                   PROVE  Value(after[i + 1], to + j) = Value(mem, At(from, j))
      BY DEF Moved
    <3>2. j \in 0..(n - 1) /\ j \in Nat
      BY <2>2
    <3>3. to + j \in Addresses /\ Find(to + j) \in {"vram", "oam"}
      BY <3>2, InSpace
    <3>4. ~BadBank(to + j)
      BY <3>3 DEF BadBank
    <3>5. CASE j = i
      BY <2>7, <2>8, <3>3, <3>4, <3>5
    <3>6. CASE j # i
      <4>1. j \in 0..(i - 1) /\ to + j # to + i
        BY <3>6
      <4>2. Value(after[i], to + j) = Value(mem, At(from, j))
        BY <2>3, <4>1 DEF Moved
      <4>3. QED
        BY <2>8, <3>3, <3>4, <4>1, <4>2
    <3>7. QED
      BY <3>5, <3>6
  <2>10. Kept(i + 1)
    <3>1. SUFFICES ASSUME NEW a \in Addresses, ~BadBank(a), a \notin to..(to + (i + 1) - 1)
                   PROVE  Value(after[i + 1], a) = Value(mem, a)
      BY DEF Kept
    <3>2. a # to + i /\ a \notin to..(to + i - 1)
      BY <3>1
    <3>3. Value(after[i], a) = Value(mem, a)
      BY <2>3, <3>1, <3>2 DEF Kept
    <3>4. QED
      BY <2>8, <3>1, <3>2, <3>3
  <2>11. QED
    BY <2>9, <2>10
<1>4. n \in S
  BY <1>2, <1>3, SetInduction
<1>5. Moved(n) /\ Kept(n)
  BY <1>4
<1>6. QED
  BY <1>1, <1>5

\* NoBadBank: a transfer that is not stopped reads no byte of a bank that does not exist.
LEMMA NoBadBank ==
    ASSUME NEW to, NEW from, NEW n, FaultOf(to, from, n) = "none"
    PROVE  \A i \in 0..(n - 1) : ~BadBank(At(from, i))
  BY DEF FaultOf

\* Blocks: the sizes and the aligned registers of the VRAM DMA are numbers.
LEMMA Blocks ==
    ASSUME MemInv, NEW length \in Nat
    PROVE  /\ Aligned(source) \in Nat /\ Aligned(target) \in Nat
           /\ (length + 1) * BLOCK \in Nat
<1>1. BLOCK \in Nat \ {0} /\ source \in Nat /\ target \in Nat
  BY MemoryAssumption DEF MemInv
<1>2. \A a \in Nat, d \in Nat \ {0} : a \div d \in Nat
  OBVIOUS
<1>3. \A a, b \in Nat : a * b \in Nat
  OBVIOUS
<1>4. source \div BLOCK \in Nat /\ target \div BLOCK \in Nat /\ length + 1 \in Nat
  BY <1>1, <1>2
<1>5. QED
  BY <1>1, <1>3, <1>4 DEF Aligned

\* CopyShape: a copy leaves memory its shape, if it reads from banks that exist.
LEMMA CopyShape ==
    ASSUME MemInv, NEW to \in Nat, NEW from \in Nat, NEW n \in Nat,
           \A i \in 0..(n - 1) : ~BadBank(At(from, i))
    PROVE  Copy(to, from, n) \in [Cells -> Data]
<1>1. PICK after \in [0..n -> [Cells -> Data]] :
              /\ Copy(to, from, n) = after[n] /\ after[0] = mem
              /\ \A i \in 1..n : /\ Value(after[i - 1], At(from, i - 1)) \in Data
                                 /\ after[i] = Put(after[i - 1], At(to, i - 1),
                                                   Value(after[i - 1], At(from, i - 1)))
  BY CopyTurns
<1>2. n \in 0..n
  OBVIOUS
<1>3. QED
  BY <1>1, <1>2

\* CopyType: so does a transfer that ends.
LEMMA CopyType ==
    ASSUME MemInv, NEW to \in Nat, NEW from \in Nat, NEW n \in Nat, FaultOf(to, from, n) = "none"
    PROVE  Copy(to, from, n) \in [Cells -> Data]
<1>1. \A i \in 0..(n - 1) : ~BadBank(At(from, i))
  BY NoBadBank
<1>2. QED
  BY <1>1, CopyShape

\* SpritesTable: the table begins a page, and the page of a transfer is the table's own or
\* has no address in common with the table.
LEMMA SpritesTable ==
    ASSUME NEW page \in Pages
    PROVE  /\ page * PAGE \in Nat /\ GRAPHICS_RAM_SIZE \in Nat
           /\ \A i \in 0..(GRAPHICS_RAM_SIZE - 1) :
                 page * PAGE + i \notin
                    GRAPHICS_RAM_OFFSET..(GRAPHICS_RAM_OFFSET + i - 1)
<1> DEFINE q == GRAPHICS_RAM_OFFSET \div PAGE
<1>1. PAGE \in Nat \ {0} /\ page \in Nat /\ GRAPHICS_RAM_SIZE \in Nat /\ GRAPHICS_RAM_SIZE <= PAGE
      /\ GRAPHICS_RAM_OFFSET \in Nat /\ GRAPHICS_RAM_OFFSET % PAGE = 0
  BY MemoryAssumption, Offsets
<1>2. \A n \in Nat, d \in Nat \ {0} : n % d = 0 => n \div d \in Nat /\ n = (n \div d) * d
  OBVIOUS
<1>3. q \in Nat /\ GRAPHICS_RAM_OFFSET = q * PAGE
  BY <1>1, <1>2
<1> HIDE DEF q
<1>4. \A a, b, d \in Nat : a < b => a * d + d <= b * d
  <2>1. SUFFICES ASSUME NEW a \in Nat, NEW b \in Nat, NEW d \in Nat, a < b
                 PROVE  a * d + d <= b * d
    OBVIOUS
  <2>2. PICK c \in Nat : b = a + 1 + c
    <3>1. b - a - 1 \in Nat /\ b = a + 1 + (b - a - 1)
      BY <2>1
    <3>2. QED
      BY <3>1
  <2>3. b * d = a * d + d + c * d /\ c * d \in Nat /\ a * d \in Nat
    BY <2>2
  <2>4. QED
    BY <2>3
<1> DEFINE start == page * PAGE
           table == q * PAGE
<1>5. start \in Nat /\ table \in Nat
  BY <1>1, <1>3
<1>6. start = table \/ start + PAGE <= table \/ table + PAGE <= start
  <2>1. page = q \/ page < q \/ q < page
    BY <1>1, <1>3
  <2>2. CASE page = q
    BY <2>2
  <2>3. CASE page < q
    BY <1>1, <1>3, <1>4, <2>3
  <2>4. CASE q < page
    BY <1>1, <1>3, <1>4, <2>4
  <2>5. QED
    BY <2>1, <2>2, <2>3, <2>4
<1>7. GRAPHICS_RAM_OFFSET = table
  BY <1>3
<1> HIDE DEF start, table
<1>8. ASSUME NEW i \in 0..(GRAPHICS_RAM_SIZE - 1)
      PROVE  start + i \notin table..(table + i - 1)
  BY <1>1, <1>5, <1>6
<1>9. QED
  BY <1>1, <1>5, <1>7, <1>8 DEF start

\* MemInvNext: nothing the program does takes memory its shape.
LEMMA MemInvNext ==
    ASSUME MemInv, [Next]_vars
    PROVE  MemInv'
<1> USE DEF MemInv, BankIsNatural
<1>1. CASE UNCHANGED vars
  BY <1>1 DEF vars, registers
<1>2. CASE Next
  <2>1. CASE \E a \in Addresses : Read(a)
    BY <2>1 DEF Read, registers
  <2>2. ASSUME NEW a \in Addresses, NEW v \in Data, Write(a, v) PROVE MemInv'
    BY <2>2, PutType DEF Write, registers
  <2>3. CASE \E b \in {0, 1} : SelectVram(b)
    BY <2>3 DEF SelectVram
  <2>4. CASE \E b \in Selects : SelectWram(b)
    BY <2>4, MemoryAssumption DEF SelectWram
  <2>5. CASE \E s \in Sources, t \in Targets : SetDma(s, t)
    BY <2>5, MemoryAssumption DEF SetDma
  <2>6. ASSUME NEW page \in Pages, OamDma(page) PROVE MemInv'
    <3>1. page * PAGE \in Nat /\ GRAPHICS_RAM_SIZE \in Nat /\ GRAPHICS_RAM_OFFSET \in Nat
      BY SpritesTable, Offsets
    <3>2. fault' = "none" => mem' \in [Cells -> Data]
      BY <2>6, <3>1, CopyType DEF OamDma
    <3>3. QED
      BY <2>6, <3>2 DEF OamDma, registers
  <2>7. ASSUME NEW length \in Lengths, VramDma(length) PROVE MemInv'
    <3>1. length \in Nat
      BY MemoryAssumption
    <3>2. /\ Aligned(source) \in Nat /\ Aligned(target) \in Nat
          /\ (length + 1) * BLOCK \in Nat
      BY <3>1, Blocks
    <3>3. CASE dmaMode
      BY <2>7, <3>3 DEF VramDma
    <3>4. CASE ~dmaMode
      <4>1. fault' = "none" => mem' \in [Cells -> Data]
        BY <2>7, <3>2, <3>4, CopyType DEF VramDma
      <4>2. QED
        BY <2>7, <3>4, <4>1 DEF VramDma
    <3>5. QED
      BY <3>3, <3>4
  <2>8. CASE UnlockBiosRegion
    BY <2>8 DEF UnlockBiosRegion, registers
  <2>9. CASE \E colour \in BOOLEAN : SetCartridge(colour)
    BY <2>9, MemoryAssumption DEF SetCartridge, registers
  <2>10. QED
    BY <1>2, <2>1, <2>2, <2>3, <2>4, <2>5, <2>6, <2>7, <2>8, <2>9 DEF Next
<1>3. QED
  BY <1>1, <1>2

\* MemoryHolds: memory keeps its shape, whatever is written and transferred.
THEOREM MemoryHolds == Spec => []MemInv
<1>1. Init => MemInv
  BY MemoryAssumption DEF Init, MemInv, BankIsNatural
<1>2. MemInv /\ [Next]_vars => MemInv'
  BY MemInvNext
<1>3. QED
  BY <1>1, <1>2, PTL DEF Spec

\* OamHolds: the loop of GPU_DMA_OAM copies its page.
LEMMA OamHolds ==
    ASSUME MemInv
    PROVE  OamIsCopied
<1>1. SUFFICES ASSUME NEW page \in Pages, fault' = "none", OamDma(page),
                      NEW i \in 0..(GRAPHICS_RAM_SIZE - 1)
               PROVE  Value(mem', GRAPHICS_RAM_OFFSET + i) = Value(mem, page * PAGE + i)
  BY DEF OamIsCopied
<1> DEFINE to == GRAPHICS_RAM_OFFSET
           from == page * PAGE
           n == GRAPHICS_RAM_SIZE
<1>2. mem' = Copy(to, from, n) /\ FaultOf(to, from, n) = "none"
  BY <1>1 DEF OamDma
<1>3. to \in Nat /\ from \in Nat /\ n \in Nat
      /\ \A j \in 0..(n - 1) : from + j \notin to..(to + j - 1)
  BY SpritesTable, Offsets
<1>4. from + n - 1 \in Addresses
  BY MemoryAssumption
<1>5. to + n = UNUSABLE_MEM_OFFSET
  BY DEF UNUSABLE_MEM_OFFSET
<1> HIDE DEF to, from, n
<1>6. \A j \in 0..(n - 1) : At(from, j) = from + j
  <2>1. SUFFICES ASSUME NEW j \in 0..(n - 1) PROVE At(from, j) = from + j
    OBVIOUS
  <2>2. from + j \in Addresses
    BY <1>3, <1>4, Offsets DEF Addresses
  <2>3. QED
    BY <1>3, <2>2, InSpace
<1>7. \A j \in 0..(n - 1) : At(to, j) = to + j /\ Find(to + j) \in {"vram", "oam"}
  <2>1. SUFFICES ASSUME NEW j \in 0..(n - 1)
                 PROVE  At(to, j) = to + j /\ Find(to + j) \in {"vram", "oam"}
    OBVIOUS
  <2>2. GRAPHICS_RAM_OFFSET <= to + j /\ to + j < UNUSABLE_MEM_OFFSET
    BY <1>3, <1>5 DEF to
  <2>3. to + j \in Addresses /\ to + j \in Nat /\ j \in Nat
    BY <1>3, <2>2, Offsets, MemoryAssumption DEF Addresses
  <2>4. Find(to + j) \in RegionNames /\ IsAddressed(Find(to + j), to + j)
    BY <2>2, <2>3, FindsIt, Offsets
  <2>5. Find(to + j) = "oam"
    BY <2>2, <2>3, <2>4, RegionSpans, Offsets DEF RegionNames, Spans
  <2>6. QED
    BY <1>3, <2>3, <2>5, InSpace
<1>8. \A j \in 0..(n - 1) : ~BadBank(At(from, j))
  BY <1>2, NoBadBank
<1>9. \A j \in 0..(n - 1) : At(from, j) \notin to..(to + j - 1)
  BY <1>3, <1>6
<1>10. \A j \in 0..(n - 1) : Value(Copy(to, from, n), to + j) = Value(mem, At(from, j))
  BY <1>3, <1>7, <1>8, <1>9, CopyHolds
<1>11. Value(mem', to + i) = Value(mem, from + i)
  BY <1>2, <1>6, <1>10 DEF n
<1>12. QED
  BY <1>11 DEF to, from

\* BlocksHold: the loop of GPU_DMA_MODE copies its blocks and nothing beyond them.
LEMMA BlocksHold ==
    ASSUME MemInv
    PROVE  BlocksAreCopied
<1> DEFINE to == Aligned(target)
           from == Aligned(source)
<1>1. SUFFICES ASSUME NEW length \in Lengths, ~dmaMode, fault' = "none", VramDma(length),
                      to..(to + (length + 1) * BLOCK - 1)
                         \subseteq GPU_RAM_OFFSET..(EXT_RAM_OFFSET - 1),
                      ~ReadsWhatItWrote(to, from, (length + 1) * BLOCK)
               PROVE  /\ \A i \in 0..((length + 1) * BLOCK - 1) :
                            Value(mem', to + i) = Value(mem, At(from, i))
                      /\ \A a \in Addresses \ (to..(to + (length + 1) * BLOCK - 1)) :
                            ~BadBank(a) => Value(mem', a) = Value(mem, a)
  BY Zenon DEF BlocksAreCopied
<1> DEFINE n == (length + 1) * BLOCK
<1>2. mem' = Copy(to, from, n) /\ FaultOf(to, from, n) = "none"
  BY <1>1 DEF VramDma
<1>3. to \in Nat /\ from \in Nat /\ n \in Nat
  <2>1. length \in Nat
    BY MemoryAssumption
  <2>2. QED
    BY <2>1, Blocks
<1>4. to..(to + n - 1) \subseteq GPU_RAM_OFFSET..(EXT_RAM_OFFSET - 1)
      /\ ~ReadsWhatItWrote(to, from, n)
  BY <1>1
<1> HIDE DEF to, from, n
<1>5. \A j \in 0..(n - 1) : At(to, j) = to + j /\ Find(to + j) \in {"vram", "oam"}
  <2>1. SUFFICES ASSUME NEW j \in 0..(n - 1)
                 PROVE  At(to, j) = to + j /\ Find(to + j) \in {"vram", "oam"}
    OBVIOUS
  <2>2. GPU_RAM_OFFSET <= to + j /\ to + j < EXT_RAM_OFFSET
    <3>1. to + j \in to..(to + n - 1)
      BY <1>3
    <3>2. to + j \in GPU_RAM_OFFSET..(EXT_RAM_OFFSET - 1)
      BY <1>4, <3>1
    <3>3. QED
      BY <3>2, Offsets
  <2>3. to + j \in Addresses /\ to + j \in Nat /\ j \in Nat
    BY <1>3, <2>2, Offsets, MemoryAssumption DEF Addresses
  <2>4. Find(to + j) \in RegionNames /\ IsAddressed(Find(to + j), to + j)
    BY <2>2, <2>3, FindsIt, Offsets
  <2>5. Find(to + j) = "vram"
    BY <2>2, <2>3, <2>4, RegionSpans, Offsets DEF RegionNames, Spans
  <2>6. QED
    BY <1>3, <2>3, <2>5, InSpace
<1>6. \A j \in 0..(n - 1) : ~BadBank(At(from, j))
  BY <1>2, NoBadBank
<1>7. \A j \in 0..(n - 1) : At(from, j) \notin to..(to + j - 1)
  BY <1>4 DEF ReadsWhatItWrote
<1>8. /\ \A i \in 0..(n - 1) : Value(Copy(to, from, n), to + i) = Value(mem, At(from, i))
      /\ \A a \in Addresses : ~BadBank(a) /\ a \notin to..(to + n - 1)
            => Value(Copy(to, from, n), a) = Value(mem, a)
  BY <1>3, <1>5, <1>6, <1>7, CopyHolds
<1>9. /\ \A i \in 0..(n - 1) : Value(mem', to + i) = Value(mem, At(from, i))
      /\ \A a \in Addresses \ (to..(to + n - 1)) :
            ~BadBank(a) => Value(mem', a) = Value(mem, a)
  BY <1>2, <1>8
<1>10. QED
  BY <1>9 DEF n

\* TransfersDoCopy: both DMA engines of MappedIO copy what they were asked to, whatever banks
\* the game has selected and whether or not the BIOS is still in front of the cartridge.
THEOREM TransfersDoCopy == Spec => TransfersCopy
<1>1. MemInv => OamIsCopied /\ BlocksAreCopied
  BY OamHolds, BlocksHold
<1>2. QED
  BY <1>1, MemoryHolds, PTL DEF TransfersCopy
=============================================================================

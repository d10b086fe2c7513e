----------------------------- MODULE Cartridge -----------------------------
(***************************************************************************)
(* A cartridge (src/src/hardware/cartridge.cpp): what its header says, the *)
(* registers of its bank controller, MBC1 or MBC3, its RAM, the file that  *)
(* keeps the RAM of a cartridge with a battery, and the latched clock of   *)
(* an MBC3.                                                                *)
(*                                                                         *)
(* Abstracted: a bank of RAM is one cell; of a reading of the clock only   *)
(* the day of the year is kept.                                            *)
(***************************************************************************)
EXTENDS Integers

CONSTANTS
    Headers,         \* the cartridges: the type byte of the header, and that of the RAM's size
    Values,          \* the bytes a game writes to a register
    Contents,        \* what a game stores in its RAM; Zero is what fresh RAM holds
    Zero, Absent,    \* ... and Absent is what a file holds past its end
    Days,            \* the days of the year on which the clock is read
    MaxCrashes       \* bound: how often the program ends, or is killed

ASSUME CartridgeAssumption ==
    /\ Headers \subseteq [type : {"MBC_1", "MBC_1R", "MBC_1RB", "MBC_3RB", "MBC_3TRB", "unknown"},
                          size : 0..3]
    /\ Values \subseteq 0..255 /\ Zero \in Contents /\ Absent \notin Contents
    /\ Days \subseteq 0..365 /\ Days # {} /\ MaxCrashes \in Nat

VARIABLES
    header,          \* the header of the cartridge
    phase,           \* "off", "read" or "truncated" within initRAM(), "running", "writing"
    ramEnable,       \* m_ramEnable
    romBank,         \* m_romBank: its lower five bits, and the set of its upper three
    ramBank,         \* m_ramBank
    mode,            \* MBC1: m_mode
    latch,           \* MBC3: m_latch, the value last written to the latch register
    day,             \* MBC3: m_rtc.day: the lower byte, and the lowest bit of the upper
    ram,             \* m_ram
    good,            \* m_nvRam.good()
    file,            \* the .sav file: what it holds of each bank, Absent past its end
    low, high,       \* history: the values last written to the two registers of m_romBank
    today,           \* history: the day of the latest latch
    progress,        \* history: what the game has stored in each bank
    lossy,           \* history: was the file cut short, or could it not be written?
    crashes          \* history: bounds the number of restarts

registerVars == <<ramEnable, romBank, ramBank, mode, latch, day>>
saveVars == <<ram, good, file, progress, lossy>>
historyVars == <<low, high, today>>
vars == <<header, phase, registerVars, saveVars, historyVars, crashes>>

\* initMemoryBankController(): the class of m_bank, whether it has a battery, and m_ram.size(),
\* which leaves a RAM of 2K without a bank.  A greater size byte throws and ends the program.
mbc == IF header.type \in {"MBC_3RB", "MBC_3TRB"} THEN "MBC3" ELSE "MBC1"
m_hasBattery == header.type \in {"MBC_1RB", "MBC_3RB", "MBC_3TRB"}
RAM_BANKS == <<4, 0, 1, 4>>[header.size + 1]
Banks == 0..(RAM_BANKS - 1)
UpperBits(value) == {i \in 0..2 : (value \div 2^i) % 2 = 1}

\* MBC3::latch(): the lower byte of the day, and the bit that goes to the upper register.
Latch(d) == [lower |-> d % 256, upper |-> (d \div 128) % 2]

\* A program without a cartridge, and no file of an earlier one.
Init ==
    /\ header \in Headers
    /\ phase = "off" /\ ramEnable = FALSE
    /\ romBank = [low |-> 1, high |-> {}] /\ ramBank = 0 /\ mode = "ROM" /\ latch = 0
    /\ \E d \in Days : today = d /\ day = Latch(d)
    /\ ram = [b \in Banks |-> Zero] /\ good = FALSE
    /\ file = [b \in Banks |-> Absent]
    /\ low = 1 /\ high = 0
    /\ progress = [b \in Banks |-> Zero]
    /\ lossy = FALSE /\ crashes = 0

-----------------------------------------------------------------------------
(* Cartridge::Cartridge(): a new bank controller, and initRAM().           *)

\* The registers are those of the constructors, and the RAM of a cartridge with a battery is
\* read from the file as far as that goes.  A stream that was never opened is good.
Load ==
    /\ phase = "off" /\ phase' = IF m_hasBattery THEN "read" ELSE "running"
    /\ ramEnable' = FALSE /\ ramBank' = 0 /\ mode' = "ROM" /\ latch' = 0
    /\ romBank' = [low |-> 1, high |-> {}] /\ low' = 1 /\ high' = 0
    /\ \E d \in Days : today' = d /\ day' = Latch(d)
    /\ ram' = [b \in Banks |-> IF file[b] = Absent THEN Zero ELSE file[b]]
    /\ progress' = IF lossy THEN ram' ELSE progress
    /\ good' = (IF m_hasBattery THEN good ELSE TRUE)
    /\ UNCHANGED <<file, lossy, crashes>>

\* The ofstream truncates the file it opens, unless it cannot open it.
Truncate ==
    /\ phase = "read"
    /\ \/ phase' = "truncated" /\ good' = TRUE
          /\ file' = [b \in Banks |-> Absent] /\ lossy' = FALSE
       \/ phase' = "running" /\ good' = FALSE /\ lossy' = TRUE /\ UNCHANGED file
    /\ UNCHANGED <<registerVars, ram, progress, historyVars, crashes>>

\* The RAM is written back and flushed, or the disk fails part way.
Rewrite ==
    /\ phase = "truncated" /\ phase' = "running"
    /\ \/ file' = ram /\ UNCHANGED <<good, lossy>>
       \/ good' = FALSE /\ lossy' = TRUE
          /\ \E n \in Banks : file' = [b \in Banks |-> IF b < n THEN ram[b] ELSE Absent]
    /\ UNCHANGED <<registerVars, ram, progress, historyVars, crashes>>

\* The program ends at any moment; what the stream had written so far is in the file.
Crash ==
    /\ phase # "off" /\ crashes < MaxCrashes
    /\ phase' = "off" /\ crashes' = crashes + 1
    /\ IF phase = "truncated"
          THEN /\ \E n \in 0..RAM_BANKS : file' = [b \in Banks |-> IF b < n THEN ram[b] ELSE Absent]
               /\ lossy' = TRUE
          ELSE UNCHANGED <<file, lossy>>
    /\ progress' = IF phase = "writing" /\ m_hasBattery /\ ~lossy THEN file ELSE progress
    /\ UNCHANGED <<registerVars, ram, good, historyVars>>

-----------------------------------------------------------------------------
(* The addresses of the ROM are the registers of the controller.           *)

EnableRam(value) ==                                  \* address < 0x2000
    /\ ramEnable' = (value % 16 = 10)
    /\ UNCHANGED <<phase, romBank, ramBank, mode, latch, day, saveVars, historyVars, crashes>>

\* Slip: the bank number 0 is not replaced by 1.
SelectRomZero(value) ==
    /\ romBank' = IF mbc = "MBC1"
                     THEN [romBank EXCEPT !.low = value % 32]
                     ELSE [low |-> value % 32, high |-> UpperBits((value % 128) \div 32)]
    /\ low' = IF mbc = "MBC1" THEN value ELSE low
    /\ UNCHANGED <<phase, ramEnable, ramBank, mode, latch, day, saveVars, high, today, crashes>>

\* address < 0x4000: MBC1 replaces the lower five bits, MBC3 the lower seven.
SelectRom(value) ==
    /\ romBank' = IF mbc = "MBC1"
                     THEN [romBank EXCEPT !.low = IF value % 32 = 0 THEN 1 ELSE value % 32]
                     ELSE IF value % 128 = 0 THEN [low |-> 1, high |-> {}]
                     ELSE [low |-> value % 32, high |-> UpperBits((value % 128) \div 32)]
    /\ low' = IF mbc = "MBC1" THEN value ELSE low
    /\ UNCHANGED <<phase, ramEnable, ramBank, mode, latch, day, saveVars, high, today, crashes>>

\* address < 0x6000: in the ROM mode of an MBC1 the value is or-ed to the upper bits of
\* m_romBank; otherwise it selects a bank of RAM, or a register of the clock.
SelectUpper(value) ==
    /\ IF mbc = "MBC1" /\ mode = "ROM"
          THEN /\ romBank' = [romBank EXCEPT !.high = @ \cup UpperBits(value)]
               /\ high' = value /\ UNCHANGED ramBank
          ELSE /\ ramBank' = IF mbc = "MBC1" THEN value % 8 ELSE value
               /\ UNCHANGED <<romBank, high>>
    /\ UNCHANGED <<phase, ramEnable, mode, latch, day, saveVars, low, today, crashes>>

\* address < 0x8000: an MBC1 changes its mode, an MBC3 latches the clock at a 1 after a 0.
SelectMode(value) ==
    /\ IF mbc = "MBC1"
          THEN /\ mode' = IF value = 0 THEN "ROM" ELSE "RAM"
               /\ UNCHANGED <<latch, day, today>>
          ELSE /\ latch' = value
               /\ IF latch = 0 /\ value = 1
                     THEN \E d \in Days : today' = d /\ day' = Latch(d)
                     ELSE UNCHANGED <<day, today>>
               /\ UNCHANGED mode
    /\ UNCHANGED <<phase, ramEnable, romBank, ramBank, saveVars, low, high, crashes>>

WriteRegister ==
    /\ phase = "running"
    /\ \E value \in Values :
          EnableRam(value) \/ SelectRom(value) \/ SelectUpper(value) \/ SelectMode(value)

-----------------------------------------------------------------------------
(* The addresses of the RAM.                                               *)

RAM_BANK_COUNT == 4                                  \* MBC3: the banks that are not the clock

ClockSelected == mbc = "MBC3" /\ ramBank >= RAM_BANK_COUNT

\* MemoryBankController::writeRAM(): the byte is stored in memory, and then in the file.  What
\* a bank beyond the end of m_ram does is undefined, and not modelled.
WriteRam ==
    /\ phase = "running" /\ ramEnable /\ ~ClockSelected /\ ramBank \in Banks
    /\ \E x \in Contents :
          /\ ram' = [ram EXCEPT ![ramBank] = x]
          /\ progress' = [progress EXCEPT ![ramBank] = x]
    /\ phase' = IF good THEN "writing" ELSE "running"
    /\ UNCHANGED <<registerVars, good, file, lossy, historyVars, crashes>>

\* Slip: the write goes to the start of the file, whatever bank is selected.
SaveFirst ==
    /\ phase = "writing" /\ phase' = "running"
    /\ \/ file' = [file EXCEPT ![0] = ram[ramBank]] /\ UNCHANGED <<good, lossy>>
       \/ good' = FALSE /\ lossy' = TRUE /\ UNCHANGED file
    /\ UNCHANGED <<registerVars, ram, progress, historyVars, crashes>>

\* The byte is written and flushed; a failure closes the file to all later ones, and without
\* a battery there is none.
Save ==
    /\ phase = "writing" /\ phase' = "running"
    /\ \/ m_hasBattery /\ file' = [file EXCEPT ![ramBank] = ram[ramBank]] /\ UNCHANGED <<good, lossy>>
       \/ good' = FALSE /\ lossy' = TRUE /\ UNCHANGED file
    /\ UNCHANGED <<registerVars, ram, progress, historyVars, crashes>>

\* MBC3::writeRAM() with a register of the clock selected.
WriteClock ==
    /\ phase = "running" /\ ramEnable /\ ClockSelected
    /\ \E value \in Values :
          day' = IF ramBank = 11 THEN [day EXCEPT !.lower = value]
                 ELSE IF ramBank = 12 THEN [day EXCEPT !.upper = value % 2] ELSE day
    /\ today' = IF day' = day THEN today ELSE -1
    /\ UNCHANGED <<phase, ramEnable, romBank, ramBank, mode, latch, saveVars, low, high, crashes>>

-----------------------------------------------------------------------------
\* The cartridge stays the one the console was started with.
Next ==
    /\ header' = header
    /\ \/ Load \/ Truncate \/ Rewrite \/ Crash
       \/ WriteRegister \/ WriteRam \/ Save \/ WriteClock

Spec == Init /\ [][Next]_vars

-----------------------------------------------------------------------------
(* Properties                                                              *)

Files == [Banks -> Contents \cup {Absent}]

\* Every variable has the type its declaration gives it.
TypeOK ==
    /\ header \in Headers
    /\ phase \in {"off", "read", "truncated", "running", "writing"}
    /\ ramEnable \in BOOLEAN /\ ramBank \in 0..255 /\ mode \in {"ROM", "RAM"} /\ latch \in Values \cup {0}
    /\ romBank \in [low : 0..31, high : SUBSET (0..2)] /\ day \in [lower : 0..255, upper : 0..1]
    /\ ram \in [Banks -> Contents] /\ progress \in [Banks -> Contents] /\ file \in Files
    /\ good \in BOOLEAN /\ lossy \in BOOLEAN /\ crashes \in 0..MaxCrashes
    /\ low \in Values \cup {1} /\ high \in Values \cup {0} /\ today \in Days \cup {-1}

\* readROM() asserts m_romBank > 0: no sequence of register writes selects bank 0, and the
\* lower five bits of an MBC1's bank are those the game wrote last, through all writes of the
\* upper ones and changes of mode (MBC1::writeROM(), MBC3::writeROM()).
SelectedRomBank ==
    /\ romBank.low # 0 \/ romBank.high # {}
    /\ mbc = "MBC1" => romBank.low = IF low % 32 = 0 THEN 1 ELSE low % 32

Saved == [b \in Banks |-> IF file[b] = Absent THEN Zero ELSE file[b]]

\* What a game has stored survives the end of the program at any moment, unless the file was
\* being rewritten or could not be written (initRAM(), writeRAM()).
ProgressKept ==
    m_hasBattery /\ ~lossy /\ phase \in {"off", "read", "running"} => Saved = progress

\* "writes to this address set upper 3 bits of the ROM bank number, so we need to or the lower
\* 5 bits of the current bank number with the value that we are writing" (MBC1::writeROM()).
UpperBitsFollow == mbc = "MBC1" => romBank.high = UpperBits(high)

\* "The day is stored in 9 bits.  The lower 8 bits are stored in the lower day register, and
\* the MSB is stored in the LSB of the upper day register" (MBC3::latch()).
DayInNineBits ==
    mbc = "MBC3" /\ today # -1 => day.lower + 256 * day.upper = today

\* "assert(index < m_ram[m_ramBank].size())" (readRAM(), writeRAM()): there is such a bank.
AccessInRange == phase = "running" /\ ramEnable /\ ~ClockSelected => ramBank \in Banks
=============================================================================

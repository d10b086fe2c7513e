-------------------------- MODULE Cartridge_proofs --------------------------
(***************************************************************************)
(* Proofs that the bank of ROM is never 0 and that a saved game survives,  *)
(* for all headers, values and contents.                                   *)
(*                                                                         *)
(* BankInv relates m_romBank to what was last written to its registers.    *)
(* SaveInv says, for each phase of initRAM() and writeRAM(), what memory,  *)
(* the file and the player's progress have in common, as long as the file  *)
(* has not failed.                                                         *)
(***************************************************************************)
EXTENDS Cartridge, TLAPS

-----------------------------------------------------------------------------
(* The bank of ROM.                                                        *)

\* What the bank of ROM is made of.
BankInv ==
    /\ romBank \in [low : 0..31, high : SUBSET (0..2)] /\ low \in Nat /\ header \in Headers
    /\ SelectedRomBank

\* A number of more than five bits has one in its upper three.
LEMMA UpperBitsSet ==
    ASSUME NEW w \in 1..3
    PROVE  UpperBits(w) # {}
<1>1. 2^0 = 1 /\ 2^1 = 2
  OBVIOUS
<1>2. w % 2 = 1 \/ (w \div 2) % 2 = 1
  OBVIOUS
<1>3. w \div 1 = w
  OBVIOUS
<1>4. 0 \in 0..2 /\ 1 \in 0..2
  OBVIOUS
<1>5. CASE w % 2 = 1
  <2>1. (w \div 2^0) % 2 = 1
    BY <1>1, <1>3, <1>5
  <2>2. 0 \in UpperBits(w)
    BY <1>4, <2>1 DEF UpperBits
  <2>3. QED
    BY <2>2
<1>6. CASE (w \div 2) % 2 = 1
  <2>1. (w \div 2^1) % 2 = 1
    BY <1>1, <1>6
  <2>2. 1 \in UpperBits(w)
    BY <1>4, <2>1 DEF UpperBits
  <2>3. QED
    BY <2>2
<1>7. QED
  BY <1>2, <1>5, <1>6

\* Each write of the register of the lower bits leaves a bank other than 0.
LEMMA SelectRomInv ==
    ASSUME BankInv, NEW value \in Values, SelectRom(value), header' = header
    PROVE  BankInv'
<1>1. value \in Nat
  BY CartridgeAssumption
<1>2. value % 32 \in 0..31 /\ value % 128 \in 0..127
  BY <1>1
<1>3. (value % 128) \div 32 \in 0..3
  BY <1>2
<1>4. value % 32 = 0 /\ value % 128 # 0 => (value % 128) \div 32 \in 1..3
  BY <1>1
<1>5. value % 32 = 0 /\ value % 128 # 0 => UpperBits((value % 128) \div 32) # {}
  BY <1>4, UpperBitsSet
<1>6. \A w : UpperBits(w) \in SUBSET (0..2)
  BY DEF UpperBits
<1>7. mbc' = mbc
  BY DEF mbc
<1>8. CASE mbc = "MBC1"
  <2>1. romBank' = [romBank EXCEPT !.low = IF value % 32 = 0 THEN 1 ELSE value % 32] /\ low' = value
    BY <1>8 DEF SelectRom
  <2>2. (IF value % 32 = 0 THEN 1 ELSE value % 32) \in 1..31
    BY <1>2
  <2>3. romBank' \in [low : 0..31, high : SUBSET (0..2)]
        /\ romBank'.low = IF value % 32 = 0 THEN 1 ELSE value % 32
    BY <2>1, <2>2 DEF BankInv
  <2>4. QED
    BY <1>1, <1>7, <2>1, <2>2, <2>3 DEF BankInv, SelectedRomBank
<1>9. CASE mbc # "MBC1"
  <2>1. romBank' = (IF value % 128 = 0 THEN [low |-> 1, high |-> {}]
                    ELSE [low |-> value % 32, high |-> UpperBits((value % 128) \div 32)])
        /\ low' = low
    BY <1>9 DEF SelectRom
  <2>2. romBank' \in [low : 0..31, high : SUBSET (0..2)]
    BY <1>2, <1>6, <2>1
  <2>3. romBank'.low # 0 \/ romBank'.high # {}
    BY <1>5, <2>1
  <2>4. QED
    BY <1>7, <1>9, <2>1, <2>2, <2>3 DEF BankInv, SelectedRomBank
<1>10. QED
  BY <1>8, <1>9

\* readROM() asserts m_romBank > 0 (MBC1::writeROM(), MBC3::writeROM()).
THEOREM RomBankIsSelected == Spec => []SelectedRomBank
<1>1. Init => BankInv
  BY CartridgeAssumption DEF Init, BankInv, SelectedRomBank, mbc
<1>2. ASSUME BankInv, [Next]_vars PROVE BankInv'
  <2>1. CASE \E value \in Values : SelectRom(value) /\ header' = header
    BY <1>2, <2>1, SelectRomInv
  <2>2. ASSUME NEW value \in Values, SelectUpper(value), header' = header PROVE BankInv'
    <3>1. UNCHANGED low /\ romBank'.low = romBank.low /\ romBank.high \subseteq romBank'.high
          /\ romBank' \in [low : 0..31, high : SUBSET (0..2)]
      BY <1>2, <2>2 DEF SelectUpper, BankInv, UpperBits
    <3>2. QED
      BY <1>2, <2>2, <3>1 DEF BankInv, SelectedRomBank, mbc
  <2>3. ASSUME Load, header' = header PROVE BankInv'
    BY <1>2, <2>3 DEF Load, BankInv, SelectedRomBank, mbc
  <2>4. CASE UNCHANGED <<header, romBank, low>>
    BY <1>2, <2>4 DEF BankInv, SelectedRomBank, mbc
  <2>5. QED
    BY <1>2, <2>1, <2>2, <2>3, <2>4 DEF Next, Truncate, Rewrite, Crash,
       WriteRegister, EnableRam, SelectMode, WriteRam, Save, WriteClock, vars, registerVars,
       historyVars
<1>3. BankInv => SelectedRomBank
  BY DEF BankInv
<1>4. QED
  BY <1>1, <1>2, <1>3, PTL DEF Spec

-----------------------------------------------------------------------------
(* The RAM and its file.                                                   *)

\* The types of the RAM and of its file.
SaveTypes ==
    /\ header \in Headers /\ ramBank \in 0..255
    /\ phase \in {"off", "read", "truncated", "running", "writing"}
    /\ ram \in [Banks -> Contents] /\ progress \in [Banks -> Contents] /\ file \in Files
    /\ good \in BOOLEAN /\ lossy \in BOOLEAN

\* Memory holds the progress; the file does, too, but for the bank that is being written, once
\* it has been rewritten, and then every bank is in it; a file that is not good is lossy.
SaveInv ==
    m_hasBattery =>
        /\ phase # "off" => ram = progress
        /\ phase = "writing" => ramBank \in Banks
        /\ ~lossy /\ phase \in {"off", "read", "running"} => Saved = progress
        /\ ~lossy /\ phase \in {"truncated", "running", "writing"} => good
        /\ ~lossy /\ phase \in {"running", "writing"} => file \in [Banks -> Contents]
        /\ ~lossy /\ phase = "writing" =>
              \A b \in Banks : b # ramBank => file[b] = progress[b]

\* Every step keeps the types of the RAM and of its file.
LEMMA SaveTypesNext ==
    ASSUME SaveTypes, SaveInv, [Next]_vars
    PROVE  SaveTypes'
<1> USE DEF SaveTypes, Files, saveVars, registerVars
<1>1. Zero \in Contents /\ Zero # Absent /\ Values \subseteq 0..255
  BY CartridgeAssumption
<1>2. ASSUME header' = header PROVE Banks' = Banks /\ Files' = Files
  BY <1>2 DEF Banks, RAM_BANKS, Files
<1>3. CASE UNCHANGED vars
  BY <1>3 DEF vars, Banks, RAM_BANKS
<1> SUFFICES ASSUME header' = header, Next PROVE SaveTypes'
  BY <1>3 DEF Next
<1>4. \A value \in Values : value % 8 \in 0..255 /\ value \in 0..255
  <2>1. \A value \in 0..255 : value % 8 \in 0..255
    OBVIOUS
  <2>2. QED
    BY <1>1, <2>1
<1>5. CASE Load
  <2>1. ram' \in [Banks -> Contents]
    BY <1>1, <1>5 DEF Load
  <2>2. progress' \in [Banks -> Contents] /\ good' \in BOOLEAN /\ phase' \in {"read", "running"}
    BY <1>5, <2>1 DEF Load
  <2>3. UNCHANGED <<file, lossy>> /\ ramBank' = 0
    BY <1>5 DEF Load
  <2>4. QED
    BY <1>2, <2>1, <2>2, <2>3
<1>6. CASE Truncate
  BY <1>2, <1>6 DEF Truncate
<1>7. CASE Rewrite
  BY <1>2, <1>7 DEF Rewrite
<1>8. CASE Crash
  <2>1. file' \in Files /\ lossy' \in BOOLEAN
    BY <1>8 DEF Crash
  <2>2. progress' \in [Banks -> Contents]
    BY <1>8 DEF Crash, SaveInv
  <2>3. QED
    BY <1>2, <1>8, <2>1, <2>2 DEF Crash
<1>9. CASE WriteRegister
  BY <1>2, <1>4, <1>9 DEF WriteRegister, EnableRam, SelectRom, SelectUpper, SelectMode
<1>10. CASE WriteRam
  BY <1>2, <1>10 DEF WriteRam
<1>11. CASE Save
  BY <1>2, <1>11 DEF Save
<1>12. CASE WriteClock
  BY <1>2, <1>12 DEF WriteClock
<1>13. QED
  BY <1>5, <1>6, <1>7, <1>8, <1>9, <1>10, <1>11, <1>12 DEF Next

\* Each phase of initRAM() and writeRAM(), and a crash within it, keeps the progress.
LEMMA SaveInvNext ==
    ASSUME SaveTypes, SaveInv, [Next]_vars
    PROVE  SaveInv'
<1> USE DEF saveVars, registerVars
<1>1. /\ ram \in [Banks -> Contents] /\ progress \in [Banks -> Contents]
      /\ file \in [Banks -> Contents \cup {Absent}] /\ Zero \in Contents /\ Absent \notin Contents
  BY CartridgeAssumption DEF SaveTypes, Files
<1>2. CASE UNCHANGED vars
  BY <1>2 DEF vars, SaveInv, Saved, Banks, RAM_BANKS, m_hasBattery
<1> SUFFICES ASSUME header' = header, Next PROVE SaveInv'
  BY <1>2 DEF Next
<1>3. Banks' = Banks /\ m_hasBattery' = m_hasBattery
  BY DEF Banks, RAM_BANKS, m_hasBattery
<1> SUFFICES ASSUME m_hasBattery
             PROVE  /\ phase' # "off" => ram' = progress'
                    /\ phase' = "writing" => ramBank' \in Banks
                    /\ ~lossy' /\ phase' \in {"off", "read", "running"} => Saved' = progress'
                    /\ ~lossy' /\ phase' \in {"truncated", "running", "writing"} => good'
                    /\ ~lossy' /\ phase' \in {"running", "writing"} =>
                          file' \in [Banks -> Contents]
                    /\ ~lossy' /\ phase' = "writing" =>
                          \A b \in Banks : b # ramBank' => file'[b] = progress'[b]
  BY <1>3 DEF SaveInv
<1>4. Saved' = [b \in Banks |-> IF file'[b] = Absent THEN Zero ELSE file'[b]]
  BY <1>3 DEF Saved
<1>5. file' \in [Banks -> Contents] => Saved' = file'
  BY <1>1, <1>4
<1>6. CASE Load
  <2>1. /\ phase = "off" /\ phase' = "read" /\ UNCHANGED <<file, lossy>>
        /\ ram' = Saved /\ progress' = IF lossy THEN ram' ELSE progress
    BY <1>6 DEF Load, Saved
  <2>2. Saved' = Saved
    BY <1>4, <2>1 DEF Saved
  <2>3. QED
    BY <2>1, <2>2 DEF SaveInv
<1>7. CASE Truncate
  BY <1>4, <1>7 DEF Truncate, SaveInv
<1>8. CASE Rewrite
  <2>1. phase = "truncated" /\ phase' = "running" /\ UNCHANGED <<ram, progress>> /\ ram = progress
    BY <1>8 DEF Rewrite, SaveInv
  <2>2. lossy' \/ (file' = ram /\ UNCHANGED <<good, lossy>>)
    BY <1>8 DEF Rewrite
  <2>3. QED
    BY <1>1, <1>5, <2>1, <2>2 DEF SaveInv
<1>9. CASE Crash
  <2>1. phase' = "off" /\ UNCHANGED ram
    BY <1>9 DEF Crash
  <2>2. CASE phase = "truncated"
    BY <1>9, <2>1, <2>2 DEF Crash
  <2>3. CASE phase = "writing"
    BY <1>1, <1>5, <1>9, <2>1, <2>3 DEF Crash, SaveInv
  <2>4. CASE phase \notin {"truncated", "writing"}
    BY <1>4, <1>9, <2>1, <2>4 DEF Crash, SaveInv, Saved, SaveTypes
  <2>5. QED
    BY <2>2, <2>3, <2>4
<1>10. CASE WriteRegister
  <2>1. UNCHANGED <<phase, ram, good, file, progress, lossy>> /\ phase = "running"
    BY <1>10 DEF WriteRegister, EnableRam, SelectRom, SelectUpper, SelectMode
  <2>2. QED
    BY <1>4, <2>1 DEF SaveInv, Saved
<1>11. CASE WriteRam
  <2>1. PICK x \in Contents : /\ ram' = [ram EXCEPT ![ramBank] = x]
                              /\ progress' = [progress EXCEPT ![ramBank] = x]
    BY <1>11 DEF WriteRam
  <2>2. /\ phase = "running" /\ ramBank \in Banks /\ UNCHANGED <<ramBank, good, file, lossy>>
        /\ phase' = IF good THEN "writing" ELSE "running"
    BY <1>11 DEF WriteRam
  <2>3. ~lossy => Saved = progress /\ file \in [Banks -> Contents] /\ good
    BY <2>2 DEF SaveInv
  <2>4. ~lossy => file = progress
    BY <1>1, <2>3 DEF Saved
  <2>5. QED
    BY <1>1, <2>1, <2>2, <2>3, <2>4 DEF SaveInv
<1>12. CASE Save
  <2>1. phase = "writing" /\ phase' = "running" /\ UNCHANGED <<ram, progress>> /\ ram = progress
    BY <1>12 DEF Save, SaveInv
  <2>2. \/ lossy'
        \/ file' = [file EXCEPT ![ramBank] = ram[ramBank]] /\ UNCHANGED <<good, lossy>>
    BY <1>12 DEF Save
  <2>3. ramBank \in Banks
    BY <2>1 DEF SaveInv
  <2>4. ASSUME ~lossy' PROVE file' = progress /\ good'
    <3>1. file' = [file EXCEPT ![ramBank] = progress[ramBank]] /\ ~lossy /\ good' = good
      BY <2>1, <2>2, <2>4
    <3>2. file \in [Banks -> Contents] /\ good
          /\ \A b \in Banks : b # ramBank => file[b] = progress[b]
      BY <2>1, <3>1 DEF SaveInv
    <3>3. QED
      BY <1>1, <2>3, <3>1, <3>2
  <2>5. QED
    BY <1>1, <1>5, <2>1, <2>4
<1>13. CASE WriteClock
  <2>1. UNCHANGED <<phase, ram, good, file, progress, lossy>> /\ phase = "running"
    BY <1>13 DEF WriteClock
  <2>2. QED
    BY <1>4, <2>1 DEF SaveInv, Saved
<1>14. QED
  BY <1>6, <1>7, <1>8, <1>9, <1>10, <1>11, <1>12, <1>13 DEF Next

\* Nothing has been stored in a cartridge without a file.
LEMMA SaveInit == Init => SaveTypes /\ SaveInv
<1> SUFFICES ASSUME Init PROVE SaveTypes /\ SaveInv
  OBVIOUS
<1>1. ram = progress /\ file = [b \in Banks |-> Absent] /\ progress = [b \in Banks |-> Zero]
      /\ phase = "off" /\ lossy = FALSE /\ good = FALSE /\ ramBank = 0 /\ header \in Headers
  BY DEF Init
<1>2. SaveTypes
  <2>1. Zero \in Contents
    BY CartridgeAssumption
  <2>2. ram \in [Banks -> Contents] /\ progress \in [Banks -> Contents] /\ file \in Files
    BY <1>1, <2>1 DEF Files
  <2>3. good \in BOOLEAN /\ lossy \in BOOLEAN
    BY <1>1
  <2>4. QED
    BY <1>1, <2>2, <2>3 DEF SaveTypes
<1>3. Saved = progress
  BY <1>1 DEF Saved
<1>4. QED
  BY <1>1, <1>2, <1>3 DEF SaveInv

\* What a game has stored survives the end of the program (initRAM(), writeRAM()).
THEOREM SavedGameSurvives == Spec => []ProgressKept
<1>1. SaveInv => ProgressKept
  BY DEF SaveInv, ProgressKept
<1>2. QED
  BY <1>1, SaveInit, SaveTypesNext, SaveInvNext, PTL DEF Spec
=============================================================================

-------------------------- MODULE FrontEnds_proofs --------------------------
(***************************************************************************)
(* Proofs about the two programs: the settings survive the end of the      *)
(* program and are obeyed, and the keys reach the game in order.  The      *)
(* values of a loop, and what holds of them, are found by induction over   *)
(* its turns (SetInduction, Iteration).                                    *)
(***************************************************************************)
EXTENDS FrontEnds, Integers, SequenceTheorems, WellFoundedInduction, TLAPS

\* Induction: the natural numbers are contained in every set that has 0 and successors.
LEMMA SetInduction ==
    ASSUME NEW S, 0 \in S, \A n \in Nat : n \in S => n + 1 \in S
    PROVE  Nat \subseteq S
<1>1. SUFFICES ASSUME Nat \ S # {} PROVE FALSE
  OBVIOUS
<1>2. PICK x \in Nat \ S : \A y \in Nat \ S : ~(<<y, x>> \in OpToRel(<, Nat))
  BY <1>1, NatLessThanWellFounded, WFMin
<1>3. \A y \in Nat : y < x => y \in S
  BY <1>2 DEF OpToRel
<1>4. x \in Nat /\ x \notin S /\ x # 0
  BY <1>2
<1>5. x - 1 \in Nat /\ x - 1 < x /\ (x - 1) + 1 = x
  BY <1>4
<1>6. x - 1 \in S
  BY <1>3, <1>5
<1>7. QED
  BY <1>4, <1>5, <1>6

\* The values of a loop of n turns, the i-th of which makes s[<<i, x>>] of x.
Runs(g, n, first, s) == g[0] = first /\ \A i \in 1..n : g[i] = s[<<i, g[i - 1]>>]

\* Iteration: a loop of n turns, the i-th of which makes s[<<i, x>>] of x, has a result.
LEMMA Iteration ==
    ASSUME NEW n \in Nat, NEW X, NEW first \in X, NEW s \in [((1..n) \X X) -> X]
    PROVE  \E g \in [0..n -> X] : Runs(g, n, first, s)
<1> DEFINE Turns(g, m) == g[0] = first /\ \A i \in 1..m : g[i] = s[<<i, g[i - 1]>>]
           S == {m \in Nat : m <= n => \E g \in [0..m -> X] : Turns(g, m)}
<1>1. 0 \in S
  <2> DEFINE g == [i \in 0..0 |-> first]
  <2>1. g \in [0..0 -> X] /\ Turns(g, 0)
    OBVIOUS
  <2>2. QED
    BY <2>1
<1>2. ASSUME NEW m \in Nat, m \in S PROVE m + 1 \in S
  <2> SUFFICES ASSUME m + 1 <= n PROVE \E h \in [0..(m + 1) -> X] : Turns(h, m + 1)
    OBVIOUS
  <2>1. PICK g \in [0..m -> X] : Turns(g, m)
    BY <1>2
  <2> DEFINE h == [i \in 0..(m + 1) |-> IF i = m + 1 THEN s[<<m + 1, g[m]>>] ELSE g[i]]
  <2>2. h \in [0..(m + 1) -> X]
    <3>1. g[m] \in X
      BY <2>1
    <3>2. s[<<m + 1, g[m]>>] \in X
      BY <3>1
    <3>3. QED
      BY <2>1, <3>2
  <2>3. Turns(h, m + 1)
    <3>1. h[0] = first
      BY <2>1
    <3>2. ASSUME NEW i \in 1..(m + 1) PROVE h[i] = s[<<i, h[i - 1]>>]
      <4>1. h[i - 1] = g[i - 1]
        BY <2>1
      <4>2. CASE i = m + 1
        <5>1. i - 1 = m
          BY <4>2
        <5>2. h[i] = s[<<i, g[i - 1]>>]
          BY <4>2, <5>1
        <5>3. QED
          BY <4>1, <5>2
      <4>3. CASE i # m + 1
        <5>1. i \in 1..m
          BY <4>3
        <5>2. h[i] = g[i]
          BY <4>3
        <5>3. QED
          BY <2>1, <4>1, <5>1, <5>2
      <4>4. QED
        BY <4>2, <4>3
    <3>3. QED
      BY <3>1, <3>2
  <2> HIDE DEF h
  <2>4. QED
    BY <2>2, <2>3
<1>3. n \in S
  BY <1>1, <1>2, SetInduction
<1>4. QED
  BY <1>3 DEF Runs

\* RereadTurns: split() and join() are a loop over the pieces of a value.
LEMMA RereadTurns ==
    ASSUME NEW T, NEW value \in Seq(T)
    PROVE  \E kept :
              /\ Ui!Reread(value) = kept[Len(value)]
              /\ kept[0] = <<>>
              /\ \A i \in 1..Len(value) :
                    kept[i] = IF i # Len(value) /\ value[i] = "" THEN kept[i - 1]
                              ELSE Append(kept[i - 1], value[i])
<1> DEFINE n == Len(value)
           kept[i \in 0..n] == IF i = 0 THEN <<>>
                               ELSE IF i # n /\ value[i] = "" THEN kept[i - 1]
                               ELSE Append(kept[i - 1], value[i])
           s == [p \in (1..n) \X Seq(T) |-> IF p[1] # n /\ value[p[1]] = "" THEN p[2]
                                               ELSE Append(p[2], value[p[1]])]
<1>1. n \in Nat
  OBVIOUS
<1>2. Ui!Reread(value) = kept[n]
  BY Zenon DEF Ui!Reread
<1>3. \A i \in 1..n : value[i] \in T
  OBVIOUS
<1> HIDE DEF n, kept
<1>4. s \in [((1..n) \X Seq(T)) -> Seq(T)]
  <2>1. \A i \in 1..n, x \in Seq(T) : Append(x, value[i]) \in Seq(T)
    BY <1>3, AppendProperties
  <2>2. QED
    BY <2>1
<1>5. <<>> \in Seq(T)
  BY EmptySeq
<1> HIDE DEF s
<1>6. PICK g \in [0..n -> Seq(T)] :
          g[0] = <<>> /\ \A i \in 1..n : g[i] = s[<<i, g[i - 1]>>]
  <2> DEFINE X == Seq(T)
  <2> HIDE DEF X
  <2>1. s \in [((1..n) \X X) -> X] /\ <<>> \in X
    BY <1>4, <1>5 DEF X
  <2>2. \E g \in [0..n -> X] : Runs(g, n, <<>>, s)
    BY <1>1, <2>1, Iteration
  <2>3. QED
    BY <2>2 DEF X, Runs
<1>7. g = [i \in 0..n |-> IF i = 0 THEN <<>>
                          ELSE IF i # n /\ value[i] = "" THEN g[i - 1]
                          ELSE Append(g[i - 1], value[i])]
  <2>1. ASSUME NEW i \in 0..n, i # 0
        PROVE  g[i] = IF i # n /\ value[i] = "" THEN g[i - 1] ELSE Append(g[i - 1], value[i])
    <3>1. i \in 1..n /\ i \in Nat /\ i - 1 \in 0..n
      BY <1>1, <2>1
    <3>2. g[i - 1] \in Seq(T)
      BY <1>6, <3>1
    <3>3. g[i] = s[<<i, g[i - 1]>>]
      BY <1>6, <3>1
    <3>4. QED
      BY <3>1, <3>2, <3>3 DEF s
  <2>2. QED
    BY <1>6, <2>1
<1>8. kept = [i \in 0..n |-> IF i = 0 THEN <<>>
                             ELSE IF i # n /\ value[i] = "" THEN kept[i - 1]
                             ELSE Append(kept[i - 1], value[i])]
  BY <1>7, Zenon DEF kept
<1>9. kept[0] = <<>>
  <2>1. 0 \in 0..n
    BY <1>1
  <2>2. QED
    BY <1>8, <2>1
<1>10. \A i \in 1..n : kept[i] = IF i # n /\ value[i] = "" THEN kept[i - 1]
                                 ELSE Append(kept[i - 1], value[i])
  <2>1. \A i \in 1..n : i \in 0..n /\ i # 0
    BY <1>1
  <2>2. QED
    BY <1>8, <2>1
<1>11. QED
  BY <1>2, <1>9, <1>10 DEF n

\* RereadType: a value stays a sequence of pieces.
LEMMA RereadType ==
    ASSUME NEW T, NEW value \in Seq(T)
    PROVE  Ui!Reread(value) \in Seq(T)
<1> DEFINE n == Len(value)
<1>1. PICK kept : /\ Ui!Reread(value) = kept[n]
                  /\ kept[0] = <<>>
                  /\ \A i \in 1..n : kept[i] = IF i # n /\ value[i] = "" THEN kept[i - 1]
                                              ELSE Append(kept[i - 1], value[i])
  BY RereadTurns
<1>2. n \in Nat /\ \A i \in 1..n : value[i] \in T
  OBVIOUS
<1> HIDE DEF n
<1> DEFINE S == {i \in Nat : i <= n => kept[i] \in Seq(T)}
<1>3. 0 \in S
  BY <1>1, EmptySeq
<1>4. ASSUME NEW i \in Nat, i \in S PROVE i + 1 \in S
  <2>1. SUFFICES ASSUME i + 1 <= n PROVE kept[i + 1] \in Seq(T)
    OBVIOUS
  <2>2. i + 1 \in 1..n /\ (i + 1) - 1 = i /\ i <= n
    BY <1>2, <2>1
  <2>3. kept[i] \in Seq(T) /\ value[i + 1] \in T
    BY <1>2, <1>4, <2>2
  <2>4. kept[i + 1] \in {kept[i], Append(kept[i], value[i + 1])}
    BY <1>1, <2>2
  <2> DEFINE some == kept[i]
             piece == value[i + 1]
  <2>5. some \in Seq(T) /\ Append(some, piece) \in Seq(T)
    <3>1. some \in Seq(T) /\ piece \in T
      BY <2>3
    <3> HIDE DEF some, piece
    <3>2. QED
      BY <3>1, AppendProperties
  <2>6. QED
    BY <2>4, <2>5, Zenon
<1>5. n \in S
  BY <1>2, <1>3, <1>4, SetInduction
<1>6. kept[n] \in Seq(T)
  BY <1>2, <1>5
<1>7. QED
  BY <1>1, <1>6, Zenon

\* PlainRereads: a value without empty pieces, but for the last, is read as it was written.
LEMMA PlainRereads ==
    ASSUME NEW T, NEW value \in Seq(T), Ui!Plain(value)
    PROVE  Ui!Reread(value) = value
<1> DEFINE n == Len(value)
<1>1. PICK kept : /\ Ui!Reread(value) = kept[n]
                  /\ kept[0] = <<>>
                  /\ \A i \in 1..n : kept[i] = IF i # n /\ value[i] = "" THEN kept[i - 1]
                                              ELSE Append(kept[i - 1], value[i])
  BY RereadTurns
<1>2. n \in Nat
  OBVIOUS
<1>3. \A i \in 1..n : i # n => value[i] # ""
  <2>1. \A i \in 1..(n - 1) : value[i] # ""
    BY DEF Ui!Plain
  <2>2. \A i \in 1..n : i # n => i \in 1..(n - 1)
    BY <1>2
  <2>3. QED
    BY <2>1, <2>2
<1>4. SubSeq(value, 1, 0) = <<>> /\ SubSeq(value, 1, n) = value
  OBVIOUS
<1>5. \A i \in 1..n : SubSeq(value, 1, i) = Append(SubSeq(value, 1, i - 1), value[i])
  OBVIOUS
<1> HIDE DEF n
<1> DEFINE S == {i \in Nat : i <= n => kept[i] = SubSeq(value, 1, i)}
<1>6. 0 \in S
  BY <1>1, <1>4
<1>7. ASSUME NEW i \in Nat, i \in S PROVE i + 1 \in S
  <2>1. SUFFICES ASSUME i + 1 <= n PROVE kept[i + 1] = SubSeq(value, 1, i + 1)
    OBVIOUS
  <2>2. i + 1 \in 1..n /\ (i + 1) - 1 = i /\ i <= n
    BY <1>2, <2>1
  <2>3. kept[i + 1] = Append(kept[i], value[i + 1])
    BY <1>1, <1>3, <2>2
  <2>4. QED
    BY <1>5, <1>7, <2>2, <2>3
<1>8. n \in S
  BY <1>2, <1>6, <1>7, SetInduction
<1>9. kept[n] = SubSeq(value, 1, n)
  BY <1>2, <1>8
<1>10. QED
  BY <1>1, <1>4, <1>9, Zenon

-----------------------------------------------------------------------------
(* The settings.                                                           *)

\* The pieces of values: strings, those the program itself writes named for the provers.
Pieces == STRING \cup {"", "0", "1", "2"}
Lines == [type : {"string", "int", "bool"}, value : Seq(Pieces)]

UiTypes ==
    /\ \A k \in DOMAIN file : file[k] \in Lines
    /\ settings \in [Ui!Keys -> Lines]
    /\ mRom \in Seq(Pieces) /\ path \in Seq(Pieces)

\* The console that is shown is registered from its construction on, and obeys the settings
\* as soon as they have been broadcast; a change of the ROM leaves its speed alone.
Registered ==
    /\ console \in {0, 1}
    /\ ui = "off" => handlers = <<>>
    /\ handlers = <<>> \/ handlers = <<console>>
    /\ ui \in {"save", "broadcast", "load", "idle"} => handlers = <<console>>
    /\ ui \in {"load", "idle"} => speed = Ui!SpeedOf(settings["SPEED"])
    /\ ui = "idle" => path = Ui!NoPath
    /\ ui \in {"save", "broadcast"} /\ path # Ui!NoPath => speed = Ui!SpeedOf(settings["SPEED"])

UiInv == UiTypes /\ SettingsSurvive /\ Registered

LEMMA InputsTyped ==
    /\ Roms \subseteq Seq(Pieces) /\ HandWritten \subseteq Lines
    /\ Ui!Default \in [Ui!Keys -> Lines] /\ Ui!NoRom \in Seq(Pieces)
    /\ Ui!NoPath \in Seq(Pieces) /\ Ui!Speeds \subseteq Seq(Pieces)
<1>1. Seq(STRING) \subseteq Seq(Pieces)
  <2>1. STRING \subseteq Pieces
    BY DEF Pieces
  <2>2. QED
    BY <2>1, SeqMonotonic
<1>2. <<"">> \in Seq(Pieces) /\ <<"0">> \in Seq(Pieces)
      /\ <<"1">> \in Seq(Pieces) /\ <<"2">> \in Seq(Pieces)
  BY DEF Pieces
<1>3. <<>> \in Seq(Pieces)
  BY EmptySeq
<1>4. Roms \subseteq Seq(Pieces)
  BY <1>1, FrontEndsAssumption
<1>5. HandWritten \subseteq Lines
  BY <1>1, FrontEndsAssumption DEF Lines
<1>6. Ui!Default \in [Ui!Keys -> Lines]
  <2>1. [type |-> "string", value |-> <<"">>] \in Lines
        /\ [type |-> "int", value |-> <<"2">>] \in Lines
    BY <1>2 DEF Lines
  <2>2. \A r, s \in Lines : [ROM |-> r, SPEED |-> s] \in [{"ROM", "SPEED"} -> Lines]
    OBVIOUS
  <2>3. QED
    BY <2>1, <2>2 DEF Ui!Default, Ui!Keys, Ui!Setting, Ui!NoRom
<1>7. QED
  BY <1>2, <1>3, <1>4, <1>5, <1>6 DEF Ui!NoRom, Ui!NoPath, Ui!Speeds

\* ParseType: parse() leaves settings of the types the file has.
LEMMA ParseType ==
    ASSUME NEW lines, \A k \in DOMAIN lines : lines[k] \in Lines
    PROVE  Ui!Parse(lines) \in [Ui!Keys -> Lines]
<1>1. \A l \in Lines : [l EXCEPT !.value = Ui!Reread(@)] \in Lines
  BY RereadType DEF Lines
<1>2. QED
  BY <1>1, InputsTyped DEF Ui!Parse

\* SavedIsParsed: what save() writes is read again as it was, if the format allows it.
LEMMA SavedIsParsed ==
    ASSUME NEW set \in [Ui!Keys -> Lines], NEW k \in Ui!Keys, Ui!Plain(set[k].value)
    PROVE  Ui!Parse(set)[k] = set[k]
<1>1. set[k] \in Lines /\ DOMAIN set = Ui!Keys
  OBVIOUS
<1>2. Ui!Reread(set[k].value) = set[k].value
  BY <1>1, PlainRereads DEF Lines
<1>3. [set[k] EXCEPT !.value = Ui!Reread(@)] = set[k]
  BY <1>1, <1>2 DEF Lines
<1>4. QED
  BY <1>1, <1>3 DEF Ui!Parse

\* UpdateSaves: what update() does to the settings, their file and the thread.
LEMMA UpdateSaves ==
    ASSUME UiTypes, NEW key \in Ui!Keys, NEW value \in Seq(Pieces), NEW otherwise,
           Ui!Update(key, value, otherwise), SettingsSurvive, ui \notin {"off", "save"},
           disk' = disk
    PROVE  /\ settings' \in [Ui!Keys -> Lines]
           /\ \A k \in DOMAIN file' : file'[k] \in Lines
           /\ ui' \in {otherwise, "broadcast", "save"}
           /\ ui' # "save" /\ disk' = "good" => UNCHANGED <<settings, file>> /\ ui' = otherwise
           /\ \A k \in Ui!Keys \ {key} : settings'[k] = settings[k]
           /\ ui' = otherwise \/ ui' \in {"broadcast", "save"}
<1>1. CASE settings[key].type # Ui!Default[key].type
  BY <1>1 DEF Ui!Update, UiTypes
<1>2. CASE settings[key].type = Ui!Default[key].type
  <2>1. /\ settings' = [settings EXCEPT ![key].value = value]
        /\ file' = IF disk = "locked" THEN file ELSE << >>
        /\ ui' = IF disk = "locked" THEN "broadcast" ELSE "save"
    BY <1>2 DEF Ui!Update
  <2>2. settings' \in [Ui!Keys -> Lines]
    BY <2>1 DEF UiTypes, Lines
  <2>3. \A k \in DOMAIN file' : file'[k] \in Lines
    BY <2>1 DEF UiTypes
  <2>4. QED
    BY <2>1, <2>2, <2>3 DEF UiTypes
<1>3. QED
  BY <1>1, <1>2

\* Single: a sequence of one element.
LEMMA Single ==
    ASSUME NEW T, NEW s \in Seq(T), Len(s) = 1
    PROVE  s = <<s[1]>>
  OBVIOUS

\* Replaces: the console that is registered replaces the one that was before.
LEMMA Replaces ==
    ASSUME NEW old \in Nat, NEW new \in Nat, old # new,
           NEW hs \in Seq(Nat), hs = <<>> \/ hs = <<old>>
    PROVE  Ui!RemoveFirst(Append(hs, new), old) = <<new>>
<1> DEFINE s == Append(hs, new)
<1>1. s \in Seq(Nat) /\ Len(s) = Len(hs) + 1 /\ s[Len(s)] = new
      /\ \A i \in 1..Len(hs) : s[i] = hs[i]
  BY AppendProperties
<1>2. CASE hs = <<>>
  <2>1. Len(s) = 1 /\ s[1] = new
    BY <1>1, <1>2
  <2> HIDE DEF s
  <2>2. ~\E i \in 1..Len(s) : s[i] = old
    BY <2>1
  <2>3. Ui!RemoveFirst(s, old) = s
    BY <2>2 DEF Ui!RemoveFirst
  <2>4. s = <<new>>
    BY <1>1, <2>1, Single
  <2>5. QED
    BY <2>3, <2>4 DEF s
<1>3. CASE hs = <<old>>
  <2>1. Len(s) = 2 /\ s[1] = old /\ s[2] = new
    BY <1>1, <1>3
  <2> HIDE DEF s
  <2> DEFINE I == {i \in 1..Len(s) : s[i] = old}
  <2>2. I = {1}
    BY <2>1
  <2>3. Ui!RemoveFirst(s, old) = Ui!RemoveAt(s, Ui!Min(I))
    BY <2>1, <2>2 DEF Ui!RemoveFirst, Ui!SelectInSeq
  <2>4. Ui!Min({1}) = 1
    BY DEF Ui!Min
  <2>5. Ui!RemoveAt(s, 1) = <<new>>
    <3> DEFINE r == Ui!RemoveAt(s, 1)
    <3>1. r = SubSeq(s, 1, 0) \o SubSeq(s, 2, 2)
      BY <2>1 DEF Ui!RemoveAt
    <3>2. SubSeq(s, 1, 0) = <<>>
      BY <1>1
    <3>3. SubSeq(s, 2, 2) \in Seq(Nat) /\ Len(SubSeq(s, 2, 2)) = 1 /\ SubSeq(s, 2, 2)[1] = new
      BY <1>1, <2>1
    <3>4. r = SubSeq(s, 2, 2)
      BY <3>1, <3>2, <3>3, ConcatEmptySeq
    <3> HIDE DEF r
    <3>5. r = <<new>>
      BY <3>3, <3>4, Single
    <3>6. QED
      BY <3>5 DEF r
  <2>6. QED
    BY <2>2, <2>3, <2>4, <2>5 DEF s
<1>4. QED
  BY <1>2, <1>3
\* At first there is a file, written by hand or not, and no console.
LEMMA UiStarts == Ui!Init => UiInv
<1> SUFFICES ASSUME Ui!Init PROVE UiInv
  OBVIOUS
<1>1. \A k \in DOMAIN file : file[k] \in Lines
  <2>1. PICK ks \in SUBSET Ui!Keys : file \in [ks -> HandWritten]
    BY DEF Ui!Init
  <2>2. QED
    BY <2>1, InputsTyped
<1>2. UiTypes
  BY <1>1, InputsTyped DEF Ui!Init, UiTypes
<1>3. SettingsSurvive /\ Registered
  BY DEF Ui!Init, SettingsSurvive, Ui!SettingsSurvive, Registered
<1>4. QED
  BY <1>2, <1>3 DEF UiInv

\* Every step of the program with the user interface keeps the invariant.
LEMMA UiSteps == UiInv /\ Ui!Next => UiInv'
<1> SUFFICES ASSUME UiInv, Ui!Next PROVE UiInv'
  OBVIOUS
<1> USE DEF UiInv
<1>k. "ROM" \in Ui!Keys /\ "SPEED" \in Ui!Keys
  BY DEF Ui!Keys
<1>1. CASE Ui!Start
  <2>1. settings' = Ui!Parse(file) /\ settings' \in [Ui!Keys -> Lines]
    BY <1>1, ParseType DEF Ui!Start, UiTypes
  <2>2. settings'["ROM"].value \in Seq(Pieces)
    BY <1>k, <2>1 DEF Lines
  <2>3. UiTypes'
    BY <1>1, <2>1, <2>2, InputsTyped DEF Ui!Start, UiTypes
  <2>4. SettingsSurvive'
    BY <1>1, <2>1 DEF Ui!Start, SettingsSurvive, Ui!SettingsSurvive
  <2>5. Registered'
    BY <1>1 DEF Ui!Start, Registered
  <2>6. QED
    BY <2>3, <2>4, <2>5
<1>2. CASE Ui!Construct
  <2>1. ui = "reset" /\ console' = 1 - console /\ speed' = Ui!SpeedOf(settings["SPEED"])
        /\ UNCHANGED <<disk, mRom, path>>
        /\ handlers' = Ui!RemoveFirst(Append(handlers, console'), console)
    BY <1>2 DEF Ui!Construct
  <2>2. handlers' = <<console'>> /\ console' \in {0, 1}
    <3>1. console \in Nat /\ console' \in Nat /\ console # console' /\ console' \in {0, 1}
      BY <2>1 DEF Registered
    <3>2. handlers = <<>> \/ handlers = <<console>>
      BY DEF Registered
    <3>3. handlers \in Seq(Nat)
      <4>1. \A c \in Nat : <<c>> \in Seq(Nat)
        OBVIOUS
      <4>2. QED
        BY <3>1, <3>2, <4>1, EmptySeq
    <3>4. QED
      BY <2>1, <3>1, <3>2, <3>3, Replaces
  <2>3. /\ settings' \in [Ui!Keys -> Lines] /\ \A k \in DOMAIN file' : file'[k] \in Lines
        /\ ui' \in {"load", "broadcast", "save"}
        /\ ui' # "save" /\ disk = "good" => UNCHANGED <<settings, file>>
        /\ settings'["SPEED"] = settings["SPEED"]
    <3>1. CASE path = Ui!NoRom
      BY <1>2, <3>1 DEF Ui!Construct, UiTypes
    <3>2. CASE path # Ui!NoRom
      <4>1. Ui!Update("ROM", path, "load") /\ path \in Seq(Pieces)
        BY <1>2, <3>2 DEF Ui!Construct, UiTypes
      <4>2. "SPEED" \in Ui!Keys \ {"ROM"}
        BY DEF Ui!Keys
      <4>3. QED
        BY <1>k, <2>1, <4>1, <4>2, UpdateSaves
    <3>3. QED
      BY <3>1, <3>2
  <2>4. UiTypes'
    BY <2>1, <2>3 DEF UiTypes
  <2>5. SettingsSurvive'
    BY <2>1, <2>3 DEF SettingsSurvive, Ui!SettingsSurvive
  <2>6. Registered'
    BY <2>1, <2>2, <2>3 DEF Registered
  <2>7. QED
    BY <2>4, <2>5, <2>6
<1>3. CASE Ui!Save
  <2>1. ui = "save" /\ ui' = "broadcast" /\ file' \in {file, settings}
        /\ UNCHANGED <<disk, settings, handlers, console, speed, mRom, path>>
        /\ (disk = "good" => file' = settings)
    BY <1>3 DEF Ui!Save
  <2>2. UiTypes'
    BY <2>1 DEF UiTypes
  <2>3. SettingsSurvive'
    <3> SUFFICES ASSUME disk = "good", NEW k \in Ui!Keys, Ui!Plain(settings[k].value)
                 PROVE  Ui!Parse(settings)[k] = settings[k]
      BY <2>1 DEF SettingsSurvive, Ui!SettingsSurvive
    <3> QED
      BY SavedIsParsed DEF UiTypes
  <2>4. Registered'
    BY <2>1 DEF Registered
  <2>5. QED
    BY <2>2, <2>3, <2>4
<1>4. CASE Ui!Broadcast
  <2>1. ui = "broadcast" /\ ui' = (IF path = Ui!NoPath THEN "idle" ELSE "load")
        /\ UNCHANGED <<file, disk, settings, handlers, console, mRom, path>>
        /\ speed' = IF path = Ui!NoPath /\ console \in Ui!Range(handlers)
                       THEN Ui!SpeedOf(settings["SPEED"]) ELSE speed
    BY <1>4 DEF Ui!Broadcast
  <2>2. handlers = <<console>>
    BY <2>1 DEF Registered
  <2>3. console \in Ui!Range(handlers)
    <3>1. 1 \in DOMAIN handlers /\ handlers[1] = console
      BY <2>2
    <3>2. QED
      BY <3>1 DEF Ui!Range
  <2>4. UiTypes'
    BY <2>1 DEF UiTypes
  <2>5. SettingsSurvive'
    BY <2>1 DEF SettingsSurvive, Ui!SettingsSurvive
  <2>6. Registered'
    BY <2>1, <2>2, <2>3 DEF Registered
  <2>7. QED
    BY <2>4, <2>5, <2>6
<1>5. CASE Ui!Load
  <2>1. ui = "load" /\ ui' = "idle" /\ path' = Ui!NoPath
        /\ UNCHANGED <<file, disk, settings, handlers, console, speed, mRom>>
    BY <1>5 DEF Ui!Load
  <2>2. UiTypes'
    BY <2>1, InputsTyped DEF UiTypes
  <2>3. SettingsSurvive'
    BY <2>1 DEF SettingsSurvive, Ui!SettingsSurvive
  <2>4. Registered'
    BY <2>1 DEF Registered
  <2>5. QED
    BY <2>2, <2>3, <2>4
<1>6. CASE Ui!End
  <2>1. UiTypes'
    BY <1>6, InputsTyped DEF Ui!End, UiTypes
  <2>2. SettingsSurvive' /\ Registered'
    BY <1>6 DEF Ui!End, SettingsSurvive, Ui!SettingsSurvive, Registered
  <2>3. QED
    BY <2>1, <2>2
<1>7. ASSUME NEW v \in Ui!Speeds, Ui!SetSpeed(v) PROVE UiInv'
  <2>1. ui = "idle" /\ Ui!Update("SPEED", v, "idle")
        /\ UNCHANGED <<disk, handlers, console, speed, mRom, path>>
    BY <1>7 DEF Ui!SetSpeed
  <2>2. /\ settings' \in [Ui!Keys -> Lines] /\ \A k \in DOMAIN file' : file'[k] \in Lines
        /\ ui' \in {"idle", "broadcast", "save"}
        /\ ui' # "save" /\ disk' = "good" => UNCHANGED <<settings, file>>
        /\ ui' = "idle" => settings' = settings
    <3>1. v \in Seq(Pieces)
      BY InputsTyped
    <3>2. QED
      BY <1>k, <2>1, <3>1, UpdateSaves DEF Ui!Update
  <2>3. UiTypes'
    BY <2>1, <2>2 DEF UiTypes
  <2>4. SettingsSurvive'
    BY <2>1, <2>2 DEF SettingsSurvive, Ui!SettingsSurvive
  <2>5. Registered'
    BY <2>1, <2>2 DEF Registered
  <2>6. QED
    BY <2>3, <2>4, <2>5
<1>8. ASSUME NEW r \in Roms \cup {mRom}, Ui!Reset(r) PROVE UiInv'
  <2>1. ui = "idle" /\ ui' = "reset" /\ path' = r
        /\ UNCHANGED <<file, disk, settings, handlers, console, speed, mRom>>
    BY <1>8 DEF Ui!Reset
  <2>2. UiTypes'
    BY <2>1, InputsTyped DEF UiTypes
  <2>3. SettingsSurvive'
    BY <2>1 DEF SettingsSurvive, Ui!SettingsSurvive
  <2>4. Registered'
    BY <2>1 DEF Registered
  <2>5. QED
    BY <2>2, <2>3, <2>4
<1>9. QED
  BY <1>1, <1>2, <1>3, <1>4, <1>5, <1>6, <1>7, <1>8 DEF Ui!Next

\* Steps of the web server leave all of this alone.
LEMMA UiStutters == UiInv /\ UNCHANGED uiVars => UiInv'
<1> SUFFICES ASSUME UiInv, UNCHANGED uiVars PROVE UiInv'
  OBVIOUS
<1>1. UiTypes'
  BY DEF UiInv, UiTypes, uiVars
<1>2. SettingsSurvive'
  BY DEF UiInv, SettingsSurvive, Ui!SettingsSurvive, uiVars
<1>3. Registered'
  BY DEF UiInv, Registered, uiVars
<1>4. QED
  BY <1>1, <1>2, <1>3 DEF UiInv

\* The invariant of the settings.
THEOREM UiInvariant == Spec => []UiInv
<1>1. Init => UiInv
  BY UiStarts DEF Init
<1>2. UiInv /\ [Next]_vars => UiInv'
  BY UiSteps, UiStutters DEF Next, vars
<1>3. QED
  BY <1>1, <1>2, PTL DEF Spec

\* The settings survive the end of the program, whatever file it started with, whatever was
\* changed, refused and saved before, and whichever values the ROM files' paths are (update(),
\* save(), parse(), split(), join()).
THEOREM SettingsSurviveHolds == Spec => []SettingsSurvive
<1>1. UiInv => SettingsSurvive
  BY DEF UiInv
<1>2. QED
  BY <1>1, UiInvariant, PTL

\* The console that is shown is the only listener, and runs at the speed of the settings
\* (Screen::reset(), registerListener(), unregisterListener(), broadcastUpdate()).
THEOREM ConsoleObeysHolds == Spec => []ConsoleObeys
<1>1. UiInv => ConsoleObeys
  BY DEF UiInv, Registered, ConsoleObeys, Ui!ConsoleObeys
<1>2. QED
  BY <1>1, UiInvariant, PTL

-----------------------------------------------------------------------------
(* The keys.                                                               *)

Bits == {1, 2, 4, 8}
ButtonCodes == {1, 2, 4, 8, 16, 32, 64, 128}
Nibbles == [1..2 -> 0..15]

\* Codes: the keys have different codes.
LEMMA Codes ==
    /\ \A k \in DOMAIN Web!GAME_KEY_MAP : Web!CodeOf(k) \in ButtonCodes
    /\ \A k, l \in DOMAIN Web!GAME_KEY_MAP : Web!CodeOf(k) = Web!CodeOf(l) => k = l
<1>1. DOMAIN Web!GAME_KEY_MAP = {"KeyA", "KeyB", "KeyF", "Space",
                                 "ArrowRight", "ArrowLeft", "ArrowUp", "ArrowDown"}
  BY DEF Web!GAME_KEY_MAP
<1>2. /\ Web!CodeOf("KeyA") = 16 /\ Web!CodeOf("KeyB") = 32
      /\ Web!CodeOf("KeyF") = 64 /\ Web!CodeOf("Space") = 128
      /\ Web!CodeOf("ArrowRight") = 1 /\ Web!CodeOf("ArrowLeft") = 2
      /\ Web!CodeOf("ArrowUp") = 4 /\ Web!CodeOf("ArrowDown") = 8
  BY DEF Web!GAME_KEY_MAP, Web!CodeOf
<1>3. QED
  BY <1>1, <1>2 DEF ButtonCodes

\* BitCleared: a button is pressed in its nibble, the others keep their bits.
LEMMA BitCleared ==
    ASSUME NEW b \in 0..15, NEW x \in Bits, NEW y \in Bits, Web!IsSet(b, x)
    PROVE  /\ b - x \in 0..15 /\ ~Web!IsSet(b - x, x)
           /\ x # y => (Web!IsSet(b - x, y) <=> Web!IsSet(b, y))
<1>1. CASE x = 1
  BY <1>1 DEF Bits, Web!IsSet
<1>2. CASE x = 2
  BY <1>2 DEF Bits, Web!IsSet
<1>3. CASE x = 4
  BY <1>3 DEF Bits, Web!IsSet
<1>4. CASE x = 8
  BY <1>4 DEF Bits, Web!IsSet
<1>5. QED
  BY <1>1, <1>2, <1>3, <1>4 DEF Bits

\* BitSet: a button is released in its nibble.
LEMMA BitSet ==
    ASSUME NEW b \in 0..15, NEW x \in Bits, NEW y \in Bits, ~Web!IsSet(b, x)
    PROVE  /\ b + x \in 0..15 /\ Web!IsSet(b + x, x)
           /\ x # y => (Web!IsSet(b + x, y) <=> Web!IsSet(b, y))
<1>1. CASE x = 1
  BY <1>1 DEF Bits, Web!IsSet
<1>2. CASE x = 2
  BY <1>2 DEF Bits, Web!IsSet
<1>3. CASE x = 4
  BY <1>3 DEF Bits, Web!IsSet
<1>4. CASE x = 8
  BY <1>4 DEF Bits, Web!IsSet
<1>5. QED
  BY <1>1, <1>2, <1>3, <1>4 DEF Bits

\* PressedBit: a game that selects its group finds a button in its shadow nibble.
LEMMA PressedBit ==
    ASSUME NEW s \in Nibbles, NEW c \in ButtonCodes
    PROVE  /\ Web!ShadowOf(c) \in 1..2 /\ Web!BitOf(c) \in Bits
           /\ Web!Pressed(s, c) <=> ~Web!IsSet(s[Web!ShadowOf(c)], Web!BitOf(c))
<1>1. Web!ShadowOf(c) \in 1..2 /\ Web!BitOf(c) \in Bits
  BY DEF ButtonCodes, Bits, Web!ShadowOf, Web!BitOf, Web!ShadowDirs
<1>2. \A b \in 0..15, x \in Bits : /\ Web!IsSet(32 + b, x) <=> Web!IsSet(b, x)
                                   /\ Web!IsSet(16 + b, x) <=> Web!IsSet(b, x)
  BY DEF Bits, Web!IsSet
<1>3. ~Web!IsSet(32, 16) /\ Web!IsSet(16, 16) /\ ~Web!IsSet(16, 32)
  BY DEF Web!IsSet
<1>4. s[1] \in 0..15 /\ s[2] \in 0..15
  BY DEF Nibbles
<1>5. CASE Web!ShadowOf(c) = 1
  <2>1. Web!SelectFor(c) = 32
    BY <1>5 DEF Web!SelectFor
  <2>2. Web!Register(s, 32) = 32 + s[1]
    BY <1>3 DEF Web!Register, Web!ShadowDirs
  <2>3. QED
    BY <1>1, <1>2, <1>4, <1>5, <2>1, <2>2 DEF Web!Pressed
<1>6. CASE Web!ShadowOf(c) = 2
  <2>1. Web!SelectFor(c) = 16
    BY <1>6 DEF Web!SelectFor
  <2>2. Web!Register(s, 16) = 16 + s[2]
    BY <1>3 DEF Web!Register, Web!ShadowDirs, Web!ShadowButtons
  <2>3. QED
    BY <1>1, <1>2, <1>4, <1>6, <2>1, <2>2 DEF Web!Pressed
<1>7. QED
  BY <1>1, <1>5, <1>6

\* OneButton: JoyPad::set() and clr() change what the game reads for one button only.
LEMMA OneButton ==
    ASSUME NEW s \in Nibbles, NEW c \in ButtonCodes, NEW d \in ButtonCodes
    PROVE  /\ Web!SetButton(s, c) \in Nibbles /\ Web!ClrButton(s, c) \in Nibbles
           /\ Web!Pressed(Web!SetButton(s, c), c) /\ ~Web!Pressed(Web!ClrButton(s, c), c)
           /\ d # c => /\ Web!Pressed(Web!SetButton(s, c), d) <=> Web!Pressed(s, d)
                       /\ Web!Pressed(Web!ClrButton(s, c), d) <=> Web!Pressed(s, d)
<1> DEFINE g == Web!ShadowOf(c)
           x == Web!BitOf(c)
           down == IF Web!IsSet(s[g], x) THEN s[g] - x ELSE s[g]
           up == IF Web!IsSet(s[g], x) THEN s[g] ELSE s[g] + x
<1>1. g \in 1..2 /\ x \in Bits /\ s[g] \in 0..15
  BY PressedBit DEF Nibbles
<1>2. Web!ShadowOf(d) \in 1..2 /\ Web!BitOf(d) \in Bits
  BY PressedBit
<1>3. d # c => Web!ShadowOf(d) # g \/ Web!BitOf(d) # x
  BY DEF ButtonCodes, Web!ShadowOf, Web!BitOf, Web!ShadowDirs
<1>4. Web!SetButton(s, c) = [s EXCEPT ![g] = down] /\ Web!ClrButton(s, c) = [s EXCEPT ![g] = up]
  BY DEF Web!SetButton, Web!ClrButton
<1>5. down \in 0..15 /\ up \in 0..15
  BY <1>1, BitCleared, BitSet
<1>6. ~Web!IsSet(down, x) /\ Web!IsSet(up, x)
  BY <1>1, BitCleared, BitSet
<1>7. \A y \in Bits : y # x => /\ Web!IsSet(down, y) <=> Web!IsSet(s[g], y)
                               /\ Web!IsSet(up, y) <=> Web!IsSet(s[g], y)
  BY <1>1, BitCleared, BitSet
<1>8. Web!SetButton(s, c) \in Nibbles /\ Web!ClrButton(s, c) \in Nibbles
  BY <1>1, <1>4, <1>5 DEF Nibbles
<1>9. /\ Web!SetButton(s, c)[g] = down /\ Web!ClrButton(s, c)[g] = up
      /\ \A h \in 1..2 : h # g => Web!SetButton(s, c)[h] = s[h] /\ Web!ClrButton(s, c)[h] = s[h]
  BY <1>1, <1>4 DEF Nibbles
<1>10. Web!Pressed(Web!SetButton(s, c), c) /\ ~Web!Pressed(Web!ClrButton(s, c), c)
  BY <1>6, <1>8, <1>9, PressedBit
<1>11. ASSUME d # c
       PROVE  /\ Web!Pressed(Web!SetButton(s, c), d) <=> Web!Pressed(s, d)
              /\ Web!Pressed(Web!ClrButton(s, c), d) <=> Web!Pressed(s, d)
  <2> HIDE DEF down, up
  <2>1. CASE Web!ShadowOf(d) # g
    BY <1>2, <1>8, <1>9, <2>1, PressedBit
  <2>2. CASE Web!ShadowOf(d) = g
    BY <1>2, <1>3, <1>7, <1>8, <1>9, <1>11, <2>2, PressedBit
  <2>3. QED
    BY <2>1, <2>2
<1>12. QED
  BY <1>8, <1>10, <1>11

\* The connections: what the browser sees of them.
Conns == [carries : {"nothing", "response"}, open : BOOLEAN]
             \cup [carries : {"request"}, event : Web!Events, open : BOOLEAN]

\* InUse: the browser waits for an answer over this connection.
InUse(c) == c.open /\ c.carries # "nothing"

\* The connections that are closed carry events of keys in gone, at most.
ClosedAreOf(conns, gone) ==
    \A i \in DOMAIN conns : Web!Asks(conns[i]) /\ ~conns[i].open => conns[i].event.key \in gone

NoneInUse(conns) == \A i \in DOMAIN conns : ~InUse(conns[i])
OneInUse(conns) ==
    \A i, j \in DOMAIN conns : InUse(conns[i]) /\ InUse(conns[j]) => i = j

WebTypes ==
    /\ busy \in BOOLEAN /\ queue \in Seq(Web!Events) /\ http \in Seq(Conns)
    /\ shadow \in Nibbles /\ asked \in [KeyCodes -> BOOLEAN] /\ lost \in SUBSET KeyCodes

\* The page has one request on its way, the events after it wait, and a connection that is
\* closed does not carry an event that counts.
OneAfterTheOther ==
    /\ ClosedAreOf(http, lost)
    /\ lost # KeyCodes => /\ OneInUse(http)
                          /\ ~busy => NoneInUse(http) /\ queue = <<>>

WebInv == WebTypes /\ OneAfterTheOther /\ KeysInOrder

\* Connections: the kinds of connections, and what becomes of them.
LEMMA Connections ==
    /\ Web!Idle \in Conns /\ Web!Idle.open /\ Web!Idle.carries = "nothing"
    /\ \A e \in Web!Events : LET c == Web!Asking(e) IN
          c \in Conns /\ c.open /\ Web!Asks(c) /\ c.event = e
    /\ \A c \in Conns : LET d == [c EXCEPT !.open = FALSE] IN
          /\ d \in Conns /\ ~d.open
          /\ Web!Asks(c) <=> Web!Asks(d)
          /\ Web!Asks(c) => d.event = c.event
    /\ \A c \in Conns : LET d == [carries |-> "response", open |-> c.open] IN
          d \in Conns /\ d.open = c.open /\ ~Web!Asks(d)
    /\ \A c \in Conns : c.open /\ c # Web!Idle => InUse(c)
    /\ \A c \in Conns : Web!Asks(c) => c.event \in Web!Events /\ c.event.key \in KeyCodes
    /\ \A c \in Conns : c.open \in BOOLEAN
<1>1. Web!Idle \in Conns /\ Web!Idle.open /\ Web!Idle.carries = "nothing"
  BY DEF Conns, Web!Idle
<1>2. ASSUME NEW e \in Web!Events
      PROVE  Web!Asking(e) \in Conns /\ Web!Asking(e).open /\ Web!Asks(Web!Asking(e))
             /\ Web!Asking(e).event = e
  BY DEF Conns, Web!Asking, Web!Asks
<1>3. ASSUME NEW c \in Conns
      PROVE  /\ [c EXCEPT !.open = FALSE] \in Conns /\ ~[c EXCEPT !.open = FALSE].open
             /\ Web!Asks(c) <=> Web!Asks([c EXCEPT !.open = FALSE])
             /\ Web!Asks(c) => [c EXCEPT !.open = FALSE].event = c.event
  <2>1. CASE c \in [carries : {"nothing", "response"}, open : BOOLEAN]
    BY <2>1 DEF Conns, Web!Asks
  <2>2. CASE c \in [carries : {"request"}, event : Web!Events, open : BOOLEAN]
    BY <2>2 DEF Conns, Web!Asks
  <2>3. QED
    BY <2>1, <2>2 DEF Conns
<1>4. ASSUME NEW c \in Conns
      PROVE  c.open \in BOOLEAN
  BY DEF Conns
<1>5. ASSUME NEW c \in Conns
      PROVE  /\ [carries |-> "response", open |-> c.open] \in Conns
             /\ [carries |-> "response", open |-> c.open].open = c.open
             /\ ~Web!Asks([carries |-> "response", open |-> c.open])
  BY <1>4 DEF Conns, Web!Asks
<1>6. ASSUME NEW c \in Conns, c.open, c # Web!Idle
      PROVE  InUse(c)
  <2>1. SUFFICES ASSUME c.carries = "nothing" PROVE FALSE
    BY <1>6 DEF InUse
  <2>2. c \in [carries : {"nothing", "response"}, open : BOOLEAN]
    BY <2>1 DEF Conns
  <2>3. c.open = TRUE
    BY <1>4, <1>6
  <2>4. c = [carries |-> "nothing", open |-> TRUE]
    BY <2>1, <2>2, <2>3
  <2>5. QED
    BY <1>6, <2>4 DEF Web!Idle
<1>7. ASSUME NEW c \in Conns, Web!Asks(c)
      PROVE  c.event \in Web!Events /\ c.event.key \in KeyCodes
  BY <1>7 DEF Conns, Web!Asks, Web!Events
<1>8. QED
  BY <1>1, <1>2, <1>3, <1>4, <1>5, <1>6, <1>7

\* The connections after a request was sent over the i-th.
Sent(old, new, i, e) ==
    /\ i \in DOMAIN new /\ new[i] = Web!Asking(e)
    /\ DOMAIN old \subseteq DOMAIN new
    /\ \A j \in DOMAIN new : j # i => j \in DOMAIN old /\ new[j] = old[j]
    /\ i \in DOMAIN old => old[i] = Web!Idle

\* SendsOne: a request is sent over an idle connection or a new one.
LEMMA SendsOne ==
    ASSUME NEW conns \in Seq(Conns), NEW e \in Web!Events, NEW new \in Web!Sends(conns, e)
    PROVE  new \in Seq(Conns) /\ \E i : Sent(conns, new, i, e)
<1>1. Web!Asking(e) \in Conns
  BY Connections
<1>2. CASE new = Append(conns, Web!Asking(e))
  <2>1. /\ new \in Seq(Conns) /\ Len(new) = Len(conns) + 1
        /\ new[Len(conns) + 1] = Web!Asking(e)
        /\ \A j \in 1..Len(conns) : new[j] = conns[j]
    BY <1>1, <1>2, AppendProperties
  <2>2. DOMAIN new = 1..(Len(conns) + 1) /\ DOMAIN conns = 1..Len(conns)
        /\ Len(conns) \in Nat
    BY <2>1
  <2>3. Sent(conns, new, Len(conns) + 1, e)
    BY <2>1, <2>2 DEF Sent
  <2>4. QED
    BY <2>1, <2>3
<1>3. CASE \E i \in DOMAIN conns : conns[i] = Web!Idle
                                  /\ new = [conns EXCEPT ![i] = Web!Asking(e)]
  <2>1. PICK i \in DOMAIN conns : conns[i] = Web!Idle
                                  /\ new = [conns EXCEPT ![i] = Web!Asking(e)]
    BY <1>3
  <2>2. new \in Seq(Conns)
    BY <1>1, <2>1
  <2>3. Sent(conns, new, i, e)
    BY <2>1 DEF Sent
  <2>4. QED
    BY <2>2, <2>3
<1>4. QED
  BY <1>2, <1>3 DEF Web!Sends

\* SentAlone: a request that is sent while no other is on its way is the only one that counts.
LEMMA SentAlone ==
    ASSUME NEW conns \in Seq(Conns), NEW gone, ClosedAreOf(conns, gone),
           NEW e \in Web!Events, NEW new \in Web!Sends(conns, e)
    PROVE  /\ new \in Seq(Conns) /\ ClosedAreOf(new, gone)
           /\ \E i \in DOMAIN new : new[i] = Web!Asking(e)
           /\ NoneInUse(conns) =>
                 /\ OneInUse(new)
                 /\ \A i \in DOMAIN new :
                       Web!Asks(new[i]) /\ new[i].event.key \notin gone => new[i].event = e
<1>1. PICK i : Sent(conns, new, i, e)
  BY SendsOne
<1>2. new \in Seq(Conns)
  BY SendsOne
<1>3. Web!Asking(e).open /\ Web!Asks(Web!Asking(e)) /\ Web!Asking(e).event = e
  BY Connections
<1>4. ClosedAreOf(new, gone)
  BY <1>1, <1>3 DEF ClosedAreOf, Sent
<1>5. ASSUME NoneInUse(conns)
      PROVE  OneInUse(new)
  BY <1>1, <1>5 DEF NoneInUse, OneInUse, Sent
<1>6. ASSUME NoneInUse(conns), NEW j \in DOMAIN new, Web!Asks(new[j]),
             new[j].event.key \notin gone
      PROVE  new[j].event = e
  <2>1. CASE j = i
    BY <1>1, <1>3, <2>1 DEF Sent
  <2>2. CASE j # i
    <3>1. j \in DOMAIN conns /\ new[j] = conns[j]
      BY <1>1, <2>2 DEF Sent
    <3>2. conns[j].open
      BY <1>6, <3>1 DEF ClosedAreOf
    <3>3. QED
      BY <1>6, <3>1, <3>2 DEF NoneInUse, InUse, Web!Asks
  <2>3. QED
    BY <2>1, <2>2
<1>7. QED
  BY <1>1, <1>2, <1>4, <1>5, <1>6 DEF Sent

\* The latest event of a key that waits is what the player last did, and without one the game
\* reads it.
Awaited(k) ==
    /\ \A i \in Web!Waiting(k) :
          (\A j \in Web!Waiting(k) : j <= i) => queue[i].down = asked[k]
    /\ Web!Waiting(k) = {} => Web!Pressed(shadow, Web!CodeOf(k)) = asked[k]

\* NextIsSent: the listener of 'loadend' keeps the order of the events.
LEMMA NextIsSent ==
    ASSUME WebTypes, NEW conns \in Seq(Conns), Web!SendNext(conns),
           shadow' = shadow, asked' = asked, lost' \in SUBSET KeyCodes,
           ClosedAreOf(conns, lost'),
           lost' # KeyCodes => NoneInUse(conns) /\ (~busy => queue = <<>>),
           \A k \in KeyCodes \ lost' : Awaited(k)
    PROVE  WebInv'
<1>1. CASE queue = <<>>
  <2>1. busy' = FALSE /\ http' = conns /\ queue' = <<>>
    BY <1>1 DEF Web!SendNext
  <2>2. WebTypes'
    BY <2>1, EmptySeq DEF WebTypes
  <2>3. OneAfterTheOther'
    BY <2>1 DEF OneAfterTheOther, NoneInUse, OneInUse
  <2>4. ASSUME NEW k \in KeyCodes \ lost'
        PROVE  /\ Web!Waiting(k) = {} /\ Web!Waiting(k)' = {}
               /\ Web!OnTheWay(k)' = {}
    <3>1. Web!Waiting(k) = {} /\ Web!Waiting(k)' = {}
      BY <1>1, <2>1 DEF Web!Waiting
    <3>2. lost' # KeyCodes
      BY <2>4
    <3>3. Web!OnTheWay(k)' = {}
      BY <2>1, <2>4, <3>2 DEF Web!OnTheWay, ClosedAreOf, NoneInUse, InUse, Web!Asks
    <3>4. QED
      BY <3>1, <3>3
  <2>5. KeysInOrder'
    BY <2>4 DEF KeysInOrder, Web!KeysInOrder, Awaited
  <2>6. QED
    BY <2>2, <2>3, <2>5 DEF WebInv
<1>2. CASE queue # <<>>
  <2> DEFINE e == Head(queue)
  <2>1. http' \in Web!Sends(conns, e) /\ queue' = Tail(queue) /\ busy' = busy
    BY <1>2 DEF Web!SendNext
  <2>2. e \in Web!Events /\ e = queue[1] /\ queue' \in Seq(Web!Events)
        /\ Len(queue) \in Nat /\ Len(queue) >= 1
        /\ Len(queue') = Len(queue) - 1
        /\ \A i \in 1..(Len(queue) - 1) : queue'[i] = queue[i + 1]
    BY <1>2, <2>1 DEF WebTypes
  <2> HIDE DEF e
  <2>3. /\ http' \in Seq(Conns) /\ ClosedAreOf(http', lost')
        /\ \E i \in DOMAIN http' : http'[i] = Web!Asking(e)
        /\ NoneInUse(conns) =>
              /\ OneInUse(http')
              /\ \A i \in DOMAIN http' :
                    Web!Asks(http'[i]) /\ http'[i].event.key \notin lost'
                        => http'[i].event = e
    BY <2>1, <2>2, SentAlone
  <2>4. WebTypes'
    BY <2>1, <2>2, <2>3 DEF WebTypes
  <2>5. OneAfterTheOther'
    <3>1. lost' # KeyCodes => busy' /\ OneInUse(http')
      BY <1>2, <2>1, <2>3 DEF WebTypes
    <3>2. QED
      BY <2>3, <3>1 DEF OneAfterTheOther
  <2>6. ASSUME NEW k \in KeyCodes \ lost'
        PROVE  /\ \A i \in Web!Waiting(k)' :
                     (\A j \in Web!Waiting(k)' : j <= i) => queue'[i].down = asked'[k]
               /\ Web!Waiting(k)' = {} =>
                     \A i \in Web!OnTheWay(k)' : http'[i].event.down = asked'[k]
               /\ Web!Waiting(k)' = {} /\ Web!OnTheWay(k)' = {} =>
                     Web!Pressed(shadow', Web!CodeOf(k)) = asked'[k]
    <3>1. Awaited(k) /\ NoneInUse(conns)
      BY <2>6
    <3>2. \A i \in Nat : i \in Web!Waiting(k)' <=> i >= 1 /\ i + 1 \in Web!Waiting(k)
      <4>1. DOMAIN queue = 1..Len(queue) /\ DOMAIN queue' = 1..(Len(queue) - 1)
        BY <2>2 DEF WebTypes
      <4>2. \A i \in Nat : i \in Web!Waiting(k)'
                              <=> i \in 1..(Len(queue) - 1) /\ queue'[i].key = k
        BY <4>1 DEF Web!Waiting
      <4>3. \A i \in Nat : i + 1 \in Web!Waiting(k)
                              <=> i + 1 \in 1..Len(queue) /\ queue[i + 1].key = k
        BY <4>1 DEF Web!Waiting
      <4>4. \A i \in Nat : i \in 1..(Len(queue) - 1) <=> i >= 1 /\ i + 1 \in 1..Len(queue)
        BY <2>2
      <4>5. QED
        BY <2>2, <4>2, <4>3, <4>4
    <3>3. Web!Waiting(k) \subseteq 1..Len(queue) /\ Web!Waiting(k)' \subseteq 1..Len(queue')
      BY <2>2 DEF Web!Waiting, WebTypes
    <3>4. ASSUME NEW i \in Web!Waiting(k)', \A j \in Web!Waiting(k)' : j <= i
          PROVE  queue'[i].down = asked'[k]
      <4>1. i + 1 \in Web!Waiting(k) /\ i \in 1..(Len(queue) - 1)
        BY <2>2, <3>2, <3>3
      <4>2. \A j \in Web!Waiting(k) : j <= i + 1
        <5>1. SUFFICES ASSUME NEW j \in Web!Waiting(k), j # 1 PROVE j <= i + 1
          BY <3>3, <4>1
        <5>2. j - 1 \in Nat /\ j - 1 >= 1 /\ (j - 1) + 1 = j
          BY <2>2, <3>3, <5>1
        <5>3. j - 1 \in Web!Waiting(k)'
          BY <3>2, <5>2
        <5>4. j - 1 <= i
          BY <3>4, <5>3
        <5>5. QED
          BY <4>1, <5>2, <5>4
      <4>3. queue[i + 1].down = asked[k]
        BY <3>1, <4>1, <4>2 DEF Awaited
      <4>4. QED
        BY <2>2, <4>1, <4>3
    <3>5. ASSUME Web!Waiting(k)' = {}, e.key = k
          PROVE  e.down = asked[k]
      <4>1. 1 \in Web!Waiting(k)
        BY <2>2, <3>5 DEF Web!Waiting, WebTypes
      <4>2. \A j \in Web!Waiting(k) : j <= 1
        <5>1. SUFFICES ASSUME NEW j \in Web!Waiting(k), j > 1 PROVE FALSE
          BY <2>2, <3>3
        <5>2. j - 1 \in Nat /\ j - 1 >= 1 /\ (j - 1) + 1 = j
          BY <2>2, <3>3, <5>1
        <5>3. j - 1 \in Web!Waiting(k)'
          BY <3>2, <5>2
        <5>4. QED
          BY <3>5, <5>3
      <4>3. QED
        BY <2>2, <3>1, <4>1, <4>2 DEF Awaited
    <3>6. ASSUME Web!Waiting(k)' = {}, NEW i \in Web!OnTheWay(k)'
          PROVE  http'[i].event.down = asked'[k]
      <4>1. http'[i].event = e /\ e.key = k
        BY <2>3, <2>6, <3>1, <3>6 DEF Web!OnTheWay
      <4>2. QED
        BY <3>5, <3>6, <4>1
    <3>7. ASSUME Web!Waiting(k)' = {}, Web!OnTheWay(k)' = {}
          PROVE  Web!Pressed(shadow', Web!CodeOf(k)) = asked'[k]
      <4>1. e.key # k
        <5>1. PICK i \in DOMAIN http' : http'[i] = Web!Asking(e)
          BY <2>3
        <5>2. Web!Asks(http'[i]) /\ http'[i].event = e
          BY <2>2, <5>1, Connections
        <5>3. QED
          BY <3>7, <5>2 DEF Web!OnTheWay
      <4>2. Web!Waiting(k) = {}
        <5>1. SUFFICES ASSUME NEW j \in Web!Waiting(k) PROVE FALSE
          OBVIOUS
        <5>2. queue[j].key = k /\ j \in 1..Len(queue)
          BY <3>3 DEF Web!Waiting
        <5>3. j # 1
          BY <2>2, <4>1, <5>2
        <5>4. j - 1 \in Nat /\ j - 1 >= 1 /\ (j - 1) + 1 = j
          BY <2>2, <5>2, <5>3
        <5>5. j - 1 \in Web!Waiting(k)'
          BY <3>2, <5>4
        <5>6. QED
          BY <3>7, <5>5
      <4>3. QED
        BY <3>1, <4>2 DEF Awaited
    <3>8. QED
      BY <3>4, <3>6, <3>7
  <2>7. KeysInOrder'
    BY <2>6 DEF KeysInOrder, Web!KeysInOrder
  <2>8. QED
    BY <2>4, <2>5, <2>7 DEF WebInv
<1>3. QED
  BY <1>1, <1>2

\* The events on their way before and after are the same.
SameRequests(old, new) ==
    /\ \A i \in DOMAIN new : Web!Asks(new[i]) =>
          \E j \in DOMAIN old : Web!Asks(old[j]) /\ old[j].event = new[i].event
    /\ \A j \in DOMAIN old : Web!Asks(old[j]) =>
          \E i \in DOMAIN new : Web!Asks(new[i]) /\ new[i].event = old[j].event

\* OrderStays: what leaves the events alone leaves them in order.
LEMMA OrderStays ==
    ASSUME KeysInOrder, SameRequests(http, http'), queue' = queue, shadow' = shadow,
           lost \subseteq lost', \A k \in KeyCodes \ lost' : asked'[k] = asked[k]
    PROVE  KeysInOrder'
<1> SUFFICES ASSUME NEW k \in KeyCodes \ lost'
             PROVE  /\ \A i \in Web!Waiting(k)' :
                          (\A j \in Web!Waiting(k)' : j <= i) => queue'[i].down = asked'[k]
                    /\ Web!Waiting(k)' = {} =>
                          \A i \in Web!OnTheWay(k)' : http'[i].event.down = asked'[k]
                    /\ Web!Waiting(k)' = {} /\ Web!OnTheWay(k)' = {} =>
                          Web!Pressed(shadow', Web!CodeOf(k)) = asked'[k]
  BY DEF KeysInOrder, Web!KeysInOrder
<1>1. /\ \A i \in Web!Waiting(k) :
            (\A j \in Web!Waiting(k) : j <= i) => queue[i].down = asked[k]
      /\ Web!Waiting(k) = {} => \A i \in Web!OnTheWay(k) : http[i].event.down = asked[k]
      /\ Web!Waiting(k) = {} /\ Web!OnTheWay(k) = {} =>
            Web!Pressed(shadow, Web!CodeOf(k)) = asked[k]
  BY DEF KeysInOrder, Web!KeysInOrder
<1>2. Web!Waiting(k)' = Web!Waiting(k) /\ asked'[k] = asked[k]
  BY DEF Web!Waiting
<1>3. \A i \in Web!OnTheWay(k)' : \E j \in Web!OnTheWay(k) : http[j].event = http'[i].event
  BY DEF Web!OnTheWay, SameRequests
<1>4. \A j \in Web!OnTheWay(k) : \E i \in Web!OnTheWay(k)' : TRUE
  BY DEF Web!OnTheWay, SameRequests
<1>5. Web!OnTheWay(k)' = {} => Web!OnTheWay(k) = {}
  BY <1>4
<1>6. ASSUME Web!Waiting(k) = {}, NEW i \in Web!OnTheWay(k)'
      PROVE  http'[i].event.down = asked[k]
  <2>1. PICK j \in Web!OnTheWay(k) : http[j].event = http'[i].event
    BY <1>3
  <2>2. QED
    BY <1>1, <1>6, <2>1
<1>7. QED
  BY <1>1, <1>2, <1>5, <1>6

\* NobodyAsks: without a request in use the events of the other keys have arrived.
LEMMA NobodyAsks ==
    ASSUME KeysInOrder, WebTypes, NEW gone, lost \subseteq gone,
           NEW k \in KeyCodes \ gone, ClosedAreOf(http, lost),
           \A i \in DOMAIN http : Web!Asks(http[i]) /\ http[i].open =>
                                      http[i].event.key \in gone
    PROVE  Awaited(k)
<1>1. Web!OnTheWay(k) = {}
  BY DEF Web!OnTheWay, ClosedAreOf
<1>2. QED
  BY <1>1 DEF KeysInOrder, Web!KeysInOrder, Awaited

\* EventSent: an event of a key is sent at once or waits behind the others.
LEMMA EventSent ==
    ASSUME WebInv, NEW e \in Web!Events, Web!SendEvent(e),
           asked' = [asked EXCEPT ![e.key] = e.down], shadow' = shadow, lost' = lost
    PROVE  WebInv'
<1> USE DEF WebInv
<1>1. e.key \in KeyCodes /\ e.down \in BOOLEAN
  BY DEF Web!Events
<1>2. asked' \in [KeyCodes -> BOOLEAN] /\ asked'[e.key] = e.down
      /\ \A k \in KeyCodes : k # e.key => asked'[k] = asked[k]
  BY <1>1 DEF WebTypes
<1>3. CASE busy
  <2>1. queue' = Append(queue, e) /\ busy' = busy /\ http' = http
    BY <1>3 DEF Web!SendEvent
  <2>2. queue \in Seq(Web!Events)
    BY DEF WebTypes
  <2>3. /\ queue' \in Seq(Web!Events) /\ Len(queue') = Len(queue) + 1
        /\ queue'[Len(queue) + 1] = e /\ Len(queue) \in Nat
        /\ \A i \in 1..Len(queue) : queue'[i] = queue[i]
    BY <2>1, <2>2, AppendProperties
  <2>4. DOMAIN queue = 1..Len(queue) /\ DOMAIN queue' = 1..(Len(queue) + 1)
    BY <2>2, <2>3
  <2>5. WebTypes'
    BY <1>2, <2>1, <2>3 DEF WebTypes
  <2>6. OneAfterTheOther'
    BY <1>3, <2>1 DEF OneAfterTheOther
  <2>7. ASSUME NEW k \in KeyCodes \ lost'
        PROVE  /\ \A i \in Web!Waiting(k)' :
                     (\A j \in Web!Waiting(k)' : j <= i) => queue'[i].down = asked'[k]
               /\ Web!Waiting(k)' = {} =>
                     \A i \in Web!OnTheWay(k)' : http'[i].event.down = asked'[k]
               /\ Web!Waiting(k)' = {} /\ Web!OnTheWay(k)' = {} =>
                     Web!Pressed(shadow', Web!CodeOf(k)) = asked'[k]
    <3>1. CASE k = e.key
      <4>1. Len(queue) + 1 \in Web!Waiting(k)' /\ Web!Waiting(k)' \subseteq 1..(Len(queue) + 1)
        BY <2>3, <2>4, <3>1 DEF Web!Waiting
      <4>2. \A i \in Web!Waiting(k)' :
               (\A j \in Web!Waiting(k)' : j <= i) => i = Len(queue) + 1
        BY <2>3, <4>1
      <4>3. QED
        BY <1>2, <2>3, <3>1, <4>1, <4>2
    <3>2. CASE k # e.key
      <4>1. Web!Waiting(k)' = Web!Waiting(k)
        <5>1. \A i \in 1..(Len(queue) + 1) : queue'[i].key = k =>
                 i \in 1..Len(queue)
          BY <2>3, <3>2
        <5>2. QED
          BY <2>3, <2>4, <5>1 DEF Web!Waiting
      <4>2. \A i \in Web!Waiting(k) : queue'[i] = queue[i]
        BY <2>3, <2>4 DEF Web!Waiting
      <4>3. Web!OnTheWay(k)' = Web!OnTheWay(k) /\ asked'[k] = asked[k]
        BY <1>2, <2>1, <3>2 DEF Web!OnTheWay
      <4>4. QED
        BY <2>1, <2>7, <4>1, <4>2, <4>3 DEF KeysInOrder, Web!KeysInOrder
    <3>3. QED
      BY <3>1, <3>2
  <2>8. KeysInOrder'
    BY <2>7 DEF KeysInOrder, Web!KeysInOrder
  <2>9. QED
    BY <2>5, <2>6, <2>8
<1>4. CASE ~busy
  <2>1. busy' = TRUE /\ http' \in Web!Sends(http, e) /\ queue' = queue
    BY <1>4 DEF Web!SendEvent
  <2>2. /\ http' \in Seq(Conns) /\ ClosedAreOf(http', lost)
        /\ \E i \in DOMAIN http' : http'[i] = Web!Asking(e)
        /\ NoneInUse(http) =>
              /\ OneInUse(http')
              /\ \A i \in DOMAIN http' :
                    Web!Asks(http'[i]) /\ http'[i].event.key \notin lost
                        => http'[i].event = e
    BY <2>1, SentAlone DEF WebTypes, OneAfterTheOther
  <2>3. WebTypes'
    BY <1>2, <2>1, <2>2 DEF WebTypes
  <2>4. OneAfterTheOther'
    BY <1>4, <2>1, <2>2 DEF OneAfterTheOther
  <2>5. ASSUME NEW k \in KeyCodes \ lost'
        PROVE  /\ Web!Waiting(k)' = {}
               /\ \A i \in Web!OnTheWay(k)' : http'[i].event.down = asked'[k]
               /\ Web!OnTheWay(k)' = {} =>
                     Web!Pressed(shadow', Web!CodeOf(k)) = asked'[k]
    <3>1. NoneInUse(http) /\ queue = <<>>
      BY <1>4, <2>5 DEF OneAfterTheOther, WebTypes
    <3>2. Web!Waiting(k) = {} /\ Web!Waiting(k)' = {}
      BY <2>1, <3>1 DEF Web!Waiting
    <3>3. \A i \in Web!OnTheWay(k)' : http'[i].event = e /\ e.key = k
      BY <2>2, <2>5, <3>1 DEF Web!OnTheWay
    <3>4. ASSUME Web!OnTheWay(k)' = {}
          PROVE  Web!Pressed(shadow', Web!CodeOf(k)) = asked'[k]
      <4>1. e.key # k
        <5>1. PICK i \in DOMAIN http' : http'[i] = Web!Asking(e)
          BY <2>2
        <5>2. Web!Asks(http'[i]) /\ http'[i].event = e
          BY <5>1, Connections
        <5>3. QED
          BY <3>4, <5>2 DEF Web!OnTheWay
      <4>2. Awaited(k)
        BY <2>5, <3>1, NobodyAsks DEF OneAfterTheOther, NoneInUse, InUse, Web!Asks
      <4>3. QED
        BY <1>2, <3>2, <4>1, <4>2 DEF Awaited
    <3>5. QED
      BY <1>2, <3>2, <3>3, <3>4
  <2>6. KeysInOrder'
    BY <2>5 DEF KeysInOrder, Web!KeysInOrder
  <2>7. QED
    BY <2>3, <2>4, <2>6
<1>5. QED
  BY <1>3, <1>4

\* What leaves the page's queue, the connections and the joypad alone.
keyVars == <<busy, queue, http, shadow, asked, lost>>

LEMMA KeysStutter == WebInv /\ UNCHANGED keyVars => WebInv'
<1> SUFFICES ASSUME WebInv, UNCHANGED keyVars PROVE WebInv'
  OBVIOUS
<1> USE DEF keyVars, WebInv
<1>1. WebTypes'
  BY DEF WebTypes
<1>2. OneAfterTheOther'
  BY DEF OneAfterTheOther
<1>3. SameRequests(http, http')
  BY DEF SameRequests
<1>4. KeysInOrder'
  BY <1>3, OrderStays
<1>5. QED
  BY <1>1, <1>2, <1>4

\* The page.
LEMMA LoadEndSteps == WebInv /\ Web!OnLoadEnd => WebInv'
<1> SUFFICES ASSUME WebInv, Web!OnLoadEnd PROVE WebInv'
  OBVIOUS
<1> USE DEF WebInv
<1>1. PICK i \in DOMAIN http :
         /\ http[i].carries = "response" /\ http[i].open
         /\ Web!SendNext([http EXCEPT ![i] = Web!Idle])
         /\ shadow' = shadow /\ asked' = asked /\ lost' = lost
  BY DEF Web!OnLoadEnd
<1> DEFINE conns == [http EXCEPT ![i] = Web!Idle]
<1>2. http \in Seq(Conns) /\ lost \in SUBSET KeyCodes
  BY DEF WebTypes
<1>3. /\ conns \in Seq(Conns) /\ DOMAIN conns = DOMAIN http /\ conns[i] = Web!Idle
      /\ \A j \in DOMAIN http : j # i => conns[j] = http[j]
  BY <1>2, Connections
<1> HIDE DEF conns
<1>4. ClosedAreOf(conns, lost)
  BY <1>3, Connections DEF OneAfterTheOther, ClosedAreOf
<1>5. InUse(http[i]) /\ ~Web!Asks(http[i])
  BY <1>1 DEF InUse, Web!Asks
<1>6. lost # KeyCodes => NoneInUse(conns) /\ (~busy => queue = <<>>)
  <2>1. SUFFICES ASSUME lost # KeyCodes, NEW j \in DOMAIN http, j # i PROVE ~InUse(http[j])
    BY <1>3, Connections DEF OneAfterTheOther, NoneInUse, InUse
  <2>2. QED
    BY <1>5, <2>1 DEF OneAfterTheOther, OneInUse
<1>7. ASSUME NEW k \in KeyCodes \ lost
      PROVE  Awaited(k)
  <2>1. \A j \in DOMAIN http : InUse(http[j]) => j = i
    BY <1>5, <1>7 DEF OneAfterTheOther, OneInUse
  <2>2. \A j \in DOMAIN http : ~(Web!Asks(http[j]) /\ http[j].open)
    BY <1>5, <2>1 DEF InUse, Web!Asks
  <2>3. QED
    BY <1>7, <2>2, NobodyAsks DEF OneAfterTheOther
<1>8. Web!SendNext(conns)
  BY <1>1 DEF conns
<1>9. QED
  BY <1>1, <1>2, <1>3, <1>4, <1>6, <1>7, <1>8, NextIsSent

LEMMA DropSteps == WebInv /\ Web!DropRequest => WebInv'
<1> SUFFICES ASSUME WebInv, Web!DropRequest PROVE WebInv'
  OBVIOUS
<1> USE DEF WebInv
<1>1. PICK i \in DOMAIN http :
         /\ http[i].open /\ http[i] # Web!Idle
         /\ lost' = IF Web!Asks(http[i]) THEN lost \cup {http[i].event.key} ELSE lost
         /\ \E end \in {[http[i] EXCEPT !.open = FALSE], [Web!Idle EXCEPT !.open = FALSE]} :
               Web!SendNext([http EXCEPT ![i] = end])
         /\ shadow' = shadow /\ asked' = asked
  BY DEF Web!DropRequest
<1>2. PICK end \in {[http[i] EXCEPT !.open = FALSE], [Web!Idle EXCEPT !.open = FALSE]} :
               Web!SendNext([http EXCEPT ![i] = end])
  BY <1>1
<1> DEFINE conns == [http EXCEPT ![i] = end]
<1>3. http \in Seq(Conns) /\ lost \in SUBSET KeyCodes /\ http[i] \in Conns
  BY <1>1 DEF WebTypes
<1>4. /\ end \in Conns /\ ~end.open
      /\ Web!Asks(end) => Web!Asks(http[i]) /\ end.event = http[i].event
  <2>1. CASE end = [http[i] EXCEPT !.open = FALSE]
    BY <1>3, <2>1, Connections
  <2>2. CASE end = [Web!Idle EXCEPT !.open = FALSE]
    BY <2>2, Connections DEF Web!Asks
  <2>3. QED
    BY <1>2, <2>1, <2>2
<1>5. /\ conns \in Seq(Conns) /\ DOMAIN conns = DOMAIN http /\ conns[i] = end
      /\ \A j \in DOMAIN http : j # i => conns[j] = http[j]
  BY <1>1, <1>3, <1>4
<1>6. Web!SendNext(conns)
  BY <1>2
<1> HIDE DEF conns
<1>7. lost' \in SUBSET KeyCodes /\ lost \subseteq lost'
      /\ (Web!Asks(http[i]) => http[i].event.key \in lost')
  BY <1>1, <1>3, Connections
<1>8. ClosedAreOf(conns, lost')
  <2> SUFFICES ASSUME NEW j \in DOMAIN conns, Web!Asks(conns[j]), ~conns[j].open
               PROVE  conns[j].event.key \in lost'
    BY DEF ClosedAreOf
  <2>1. CASE j = i
    BY <1>4, <1>5, <1>7, <2>1
  <2>2. CASE j # i
    BY <1>5, <1>7, <2>2 DEF OneAfterTheOther, ClosedAreOf
  <2>3. QED
    BY <2>1, <2>2
<1>9. InUse(http[i])
  BY <1>1, <1>3, Connections
<1>10. lost' # KeyCodes => lost # KeyCodes
  BY <1>3, <1>7
<1>11. lost' # KeyCodes => NoneInUse(conns) /\ (~busy => queue = <<>>)
  <2>1. SUFFICES ASSUME lost' # KeyCodes, NEW j \in DOMAIN http, j # i PROVE ~InUse(http[j])
    BY <1>4, <1>5, <1>10 DEF OneAfterTheOther, NoneInUse, InUse
  <2>2. QED
    BY <1>9, <1>10, <2>1 DEF OneAfterTheOther, OneInUse
<1>12. ASSUME NEW k \in KeyCodes \ lost'
       PROVE  Awaited(k)
  <2>1. lost # KeyCodes
    BY <1>3, <1>7, <1>12
  <2>2. \A j \in DOMAIN http : InUse(http[j]) => j = i
    BY <1>9, <2>1 DEF OneAfterTheOther, OneInUse
  <2>3. \A j \in DOMAIN http : Web!Asks(http[j]) /\ http[j].open => http[j].event.key \in lost'
    BY <1>7, <2>2 DEF InUse, Web!Asks
  <2>4. QED
    BY <1>7, <1>12, <2>3, NobodyAsks DEF OneAfterTheOther
<1>13. QED
  BY <1>1, <1>5, <1>6, <1>7, <1>8, <1>11, <1>12, NextIsSent

LEMMA ReconnectSteps == WebInv /\ Web!Reconnect => WebInv'
<1> SUFFICES ASSUME WebInv, Web!Reconnect PROVE WebInv'
  OBVIOUS
<1> USE DEF WebInv
<1>1. /\ busy' = FALSE /\ queue' = <<>> /\ lost' = IF busy THEN KeyCodes ELSE lost
      /\ http' = http /\ shadow' = shadow /\ asked' = asked
  BY DEF Web!Reconnect
<1>2. WebTypes'
  BY <1>1, EmptySeq DEF WebTypes
<1>3. CASE busy
  <2>1. lost' = KeyCodes
    BY <1>1, <1>3
  <2>2. ClosedAreOf(http', lost')
    BY <1>1, <2>1 DEF OneAfterTheOther, ClosedAreOf, WebTypes
  <2>3. OneAfterTheOther' /\ KeysInOrder'
    BY <2>1, <2>2 DEF OneAfterTheOther, KeysInOrder, Web!KeysInOrder
  <2>4. QED
    BY <1>2, <2>3
<1>4. CASE ~busy
  <2>1. OneAfterTheOther'
    BY <1>1, <1>4 DEF OneAfterTheOther
  <2>2. KeysInOrder'
    <3>1. CASE lost = KeyCodes
      BY <1>1, <1>4, <3>1 DEF KeysInOrder, Web!KeysInOrder
    <3>2. CASE lost # KeyCodes
      <4>1. queue' = queue
        BY <1>1, <1>4, <3>2 DEF OneAfterTheOther
      <4>2. QED
        BY <1>1, <1>4, <4>1, OrderStays DEF SameRequests
    <3>3. QED
      BY <3>1, <3>2
  <2>3. QED
    BY <1>2, <2>1, <2>2
<1>5. QED
  BY <1>3, <1>4

LEMMA ReloadSteps == WebInv /\ Web!Reload => WebInv'
<1> SUFFICES ASSUME WebInv, Web!Reload PROVE WebInv'
  OBVIOUS
<1> USE DEF WebInv
<1>1. /\ busy' = FALSE /\ queue' = <<>> /\ shadow' = shadow
      /\ http' = [i \in DOMAIN http |->
                     IF http[i] = Web!Idle THEN Web!Idle ELSE [http[i] EXCEPT !.open = FALSE]]
      /\ asked' = [k \in KeyCodes |-> FALSE]
      /\ lost' = IF busy THEN KeyCodes ELSE lost \cup {k \in KeyCodes : asked[k]}
  BY DEF Web!Reload
<1>2. http \in Seq(Conns) /\ lost \in SUBSET KeyCodes /\ asked \in [KeyCodes -> BOOLEAN]
  BY DEF WebTypes
<1>3. lost' \in SUBSET KeyCodes /\ lost \subseteq lost'
  BY <1>1, <1>2
<1>4. ASSUME NEW i \in DOMAIN http
      PROVE  /\ http'[i] \in Conns /\ ~InUse(http'[i])
             /\ Web!Asks(http'[i]) <=> Web!Asks(http[i])
             /\ Web!Asks(http[i]) => http'[i].event = http[i].event
  <2>1. http[i] \in Conns
    BY <1>2
  <2>2. CASE http[i] = Web!Idle
    BY <1>1, <2>2, Connections DEF InUse
  <2>3. CASE http[i] # Web!Idle
    BY <1>1, <2>1, <2>3, Connections DEF InUse
  <2>4. QED
    BY <2>2, <2>3
<1>5. DOMAIN http' = DOMAIN http /\ http' \in Seq(Conns)
  <2>1. DOMAIN http = 1..Len(http) /\ Len(http) \in Nat
    BY <1>2
  <2>2. DOMAIN http' = DOMAIN http
    BY <1>1
  <2>3. http' = [i \in 1..Len(http) |-> http'[i]]
    BY <1>1, <2>1
  <2>4. \A i \in 1..Len(http) : http'[i] \in Conns
    BY <1>4, <2>1
  <2>5. QED
    BY <2>1, <2>2, <2>3, <2>4
<1>6. WebTypes'
  BY <1>1, <1>3, <1>5, EmptySeq DEF WebTypes
<1>7. NoneInUse(http') /\ SameRequests(http, http')
  BY <1>4, <1>5 DEF NoneInUse, SameRequests
<1>8. CASE lost' = KeyCodes
  <2>1. ClosedAreOf(http', lost')
    BY <1>5, <1>8, Connections DEF ClosedAreOf
  <2>2. QED
    BY <1>6, <1>8, <2>1 DEF OneAfterTheOther, KeysInOrder, Web!KeysInOrder
<1>9. CASE lost' # KeyCodes
  <2>1. ~busy /\ lost # KeyCodes
    BY <1>1, <1>2, <1>9
  <2>2. NoneInUse(http) /\ queue = <<>>
    BY <2>1 DEF OneAfterTheOther
  <2>3. ClosedAreOf(http', lost')
    <3> SUFFICES ASSUME NEW i \in DOMAIN http', Web!Asks(http'[i])
                 PROVE  http'[i].event.key \in lost'
      BY DEF ClosedAreOf
    <3>1. i \in DOMAIN http /\ Web!Asks(http[i]) /\ http'[i].event = http[i].event
      BY <1>4, <1>5
    <3>2. ~http[i].open
      BY <2>2, <3>1 DEF NoneInUse, InUse, Web!Asks
    <3>3. QED
      BY <1>3, <3>1, <3>2 DEF OneAfterTheOther, ClosedAreOf
  <2>4. OneAfterTheOther'
    BY <1>1, <1>7, <2>3 DEF OneAfterTheOther, NoneInUse, OneInUse
  <2>5. \A k \in KeyCodes \ lost' : asked'[k] = asked[k]
    <3>1. ASSUME NEW k \in KeyCodes \ lost' PROVE asked'[k] = asked[k]
      <4>1. asked[k] \in BOOLEAN /\ ~asked[k]
        BY <1>1, <1>2, <2>1, <3>1
      <4>2. QED
        BY <1>1, <3>1, <4>1
    <3>2. QED
      BY <3>1
  <2>6. KeysInOrder'
    BY <1>1, <1>3, <1>7, <2>2, <2>5, OrderStays
  <2>7. QED
    BY <1>6, <2>4, <2>6
<1>10. QED
  BY <1>8, <1>9

\* The HTTP thread.
LEMMA HandleSteps == WebInv /\ Web!HandleRequest => WebInv'
<1> SUFFICES ASSUME WebInv, Web!HandleRequest PROVE WebInv'
  OBVIOUS
<1> USE DEF WebInv
<1> DEFINE e == http[1].event
           answer == [carries |-> "response", open |-> http[1].open]
<1>1. http \in Seq(Conns) /\ http # <<>> /\ Head(http) = http[1] /\ 1 \in DOMAIN http
  BY DEF Web!HandleRequest, WebTypes
<1>2. http[1] \in Conns /\ Web!Asks(http[1])
  BY <1>1 DEF Web!HandleRequest
<1>3. e \in Web!Events /\ e.key \in KeyCodes /\ e.down \in BOOLEAN
  BY <1>2, Connections DEF Web!Events
<1>4. answer \in Conns /\ answer.open = http[1].open /\ ~Web!Asks(answer)
  BY <1>2, Connections
<1>5. /\ shadow' = IF e.down THEN Web!SetButton(shadow, Web!CodeOf(e.key))
                   ELSE Web!ClrButton(shadow, Web!CodeOf(e.key))
      /\ http' = [http EXCEPT ![1] = answer]
      /\ busy' = busy /\ queue' = queue /\ asked' = asked /\ lost' = lost
  BY <1>1 DEF Web!HandleRequest, Web!pageVars
<1> HIDE DEF e, answer
<1>6. /\ http' \in Seq(Conns) /\ DOMAIN http' = DOMAIN http /\ http'[1] = answer
      /\ \A j \in DOMAIN http : j # 1 => http'[j] = http[j]
  BY <1>1, <1>4, <1>5
<1>7. \A k \in KeyCodes : Web!CodeOf(k) \in ButtonCodes
  BY Codes, FrontEndsAssumption
<1>8. \A k \in KeyCodes : k # e.key => Web!CodeOf(k) # Web!CodeOf(e.key)
  BY <1>3, Codes, FrontEndsAssumption
<1>9. /\ shadow' \in Nibbles
      /\ Web!Pressed(shadow', Web!CodeOf(e.key)) <=> e.down
      /\ \A k \in KeyCodes : k # e.key =>
            (Web!Pressed(shadow', Web!CodeOf(k)) <=> Web!Pressed(shadow, Web!CodeOf(k)))
  <2>1. shadow \in Nibbles
    BY DEF WebTypes
  <2>2. Web!CodeOf(e.key) \in ButtonCodes
    BY <1>3, <1>7
  <2>3. /\ shadow' \in Nibbles
        /\ Web!Pressed(shadow', Web!CodeOf(e.key)) <=> e.down
    BY <1>3, <1>5, <2>1, <2>2, OneButton
  <2>4. ASSUME NEW k \in KeyCodes, k # e.key
        PROVE  Web!Pressed(shadow', Web!CodeOf(k)) <=> Web!Pressed(shadow, Web!CodeOf(k))
    <3>1. Web!CodeOf(k) \in ButtonCodes /\ Web!CodeOf(k) # Web!CodeOf(e.key)
      BY <1>7, <1>8, <2>4
    <3>2. QED
      BY <1>5, <2>1, <2>2, <3>1, OneButton
  <2>5. QED
    BY <2>3, <2>4
<1>10. WebTypes'
  BY <1>5, <1>6, <1>9 DEF WebTypes
<1>11. OneAfterTheOther'
  <2>1. \A j \in DOMAIN http : InUse(http'[j]) => InUse(http[j])
    BY <1>2, <1>4, <1>6 DEF InUse, Web!Asks
  <2>2. ClosedAreOf(http', lost')
    BY <1>4, <1>5, <1>6 DEF OneAfterTheOther, ClosedAreOf
  <2>3. OneInUse(http) => OneInUse(http')
    BY <1>6, <2>1 DEF OneInUse
  <2>4. NoneInUse(http) => NoneInUse(http')
    BY <1>6, <2>1 DEF NoneInUse
  <2>5. QED
    BY <1>5, <2>2, <2>3, <2>4 DEF OneAfterTheOther
<1>12. ASSUME NEW k \in KeyCodes \ lost'
       PROVE  /\ Web!Waiting(k)' = Web!Waiting(k)
              /\ Web!Waiting(k) = {} => \A i \in Web!OnTheWay(k)' : http'[i].event.down = asked[k]
              /\ Web!Waiting(k) = {} /\ Web!OnTheWay(k)' = {} =>
                    Web!Pressed(shadow', Web!CodeOf(k)) = asked[k]
  <2>1. Web!Waiting(k)' = Web!Waiting(k)
    BY <1>5 DEF Web!Waiting
  <2>2. /\ Web!Waiting(k) = {} => \A i \in Web!OnTheWay(k) : http[i].event.down = asked[k]
        /\ Web!Waiting(k) = {} /\ Web!OnTheWay(k) = {} =>
              Web!Pressed(shadow, Web!CodeOf(k)) = asked[k]
    BY <1>5, <1>12 DEF KeysInOrder, Web!KeysInOrder
  <2>3. \A i \in Web!OnTheWay(k)' : i \in Web!OnTheWay(k) /\ http'[i] = http[i]
    BY <1>4, <1>6 DEF Web!OnTheWay
  <2>4. ASSUME Web!Waiting(k) = {}, Web!OnTheWay(k)' = {}
        PROVE  Web!Pressed(shadow', Web!CodeOf(k)) = asked[k]
    <3>1. asked[k] \in BOOLEAN /\ Web!Pressed(shadow', Web!CodeOf(k)) \in BOOLEAN
          /\ Web!Pressed(shadow, Web!CodeOf(k)) \in BOOLEAN
      BY DEF WebTypes, Web!Pressed
    <3>2. CASE k = e.key
      <4>1. 1 \in Web!OnTheWay(k)
        BY <1>1, <1>2, <3>2 DEF Web!OnTheWay, e
      <4>2. e.down = asked[k]
        BY <2>2, <2>4, <4>1 DEF e
      <4>3. QED
        BY <1>3, <1>9, <3>1, <3>2, <4>2
    <3>3. CASE k # e.key
      <4>1. Web!OnTheWay(k) = {}
        <5>1. ASSUME NEW i \in Web!OnTheWay(k) PROVE i \in Web!OnTheWay(k)'
          BY <1>6, <3>3, <5>1 DEF Web!OnTheWay, e
        <5>2. QED
          BY <2>4, <5>1
      <4>2. Web!Pressed(shadow, Web!CodeOf(k)) = asked[k]
        BY <2>2, <2>4, <4>1
      <4>3. QED
        BY <1>9, <3>1, <3>3, <4>2
    <3>4. QED
      BY <3>2, <3>3
  <2>5. QED
    BY <2>1, <2>2, <2>3, <2>4
<1>13. KeysInOrder'
  <2>1. \A k \in KeyCodes \ lost' : \A i \in Web!Waiting(k) :
           (\A j \in Web!Waiting(k) : j <= i) => queue[i].down = asked[k]
    BY <1>5 DEF KeysInOrder, Web!KeysInOrder
  <2>2. QED
    BY <1>5, <1>12, <2>1 DEF KeysInOrder, Web!KeysInOrder
<1>14. QED
  BY <1>10, <1>11, <1>13

LEMMA EndConnectionSteps == WebInv /\ Web!EndConnection => WebInv'
<1> SUFFICES ASSUME WebInv, Web!EndConnection PROVE WebInv'
  OBVIOUS
<1> USE DEF WebInv
<1>1. /\ http # <<>> /\ ~Head(http).open /\ ~Web!Asks(Head(http)) /\ http' = Tail(http)
      /\ busy' = busy /\ queue' = queue /\ shadow' = shadow /\ asked' = asked /\ lost' = lost
  BY DEF Web!EndConnection, Web!pageVars
<1>2. /\ http \in Seq(Conns) /\ http' \in Seq(Conns) /\ Len(http) \in Nat /\ Len(http) >= 1
      /\ Len(http') = Len(http) - 1 /\ Head(http) = http[1]
      /\ \A i \in 1..(Len(http) - 1) : http'[i] = http[i + 1]
  BY <1>1 DEF WebTypes
<1>3. DOMAIN http = 1..Len(http) /\ DOMAIN http' = 1..(Len(http) - 1)
  BY <1>2
<1>4. \A i \in DOMAIN http' : i + 1 \in DOMAIN http /\ http'[i] = http[i + 1]
  BY <1>2, <1>3
<1>5. \A j \in DOMAIN http : j # 1 =>
         j - 1 \in DOMAIN http' /\ http'[j - 1] = http[j]
  <2>1. ASSUME NEW j \in DOMAIN http, j # 1
        PROVE  j - 1 \in DOMAIN http' /\ http'[j - 1] = http[j]
    <3>1. j - 1 \in 1..(Len(http) - 1) /\ (j - 1) + 1 = j
      BY <1>2, <1>3, <2>1
    <3>2. QED
      BY <1>2, <1>3, <3>1
  <2>2. QED
    BY <2>1
<1>6. WebTypes'
  BY <1>1, <1>2 DEF WebTypes
<1>7. OneAfterTheOther'
  <2>1. ClosedAreOf(http', lost')
    BY <1>1, <1>4 DEF OneAfterTheOther, ClosedAreOf
  <2>2. ASSUME OneInUse(http) PROVE OneInUse(http')
    <3> SUFFICES ASSUME NEW i \in DOMAIN http', NEW j \in DOMAIN http',
                        InUse(http'[i]), InUse(http'[j])
                 PROVE  i = j
      BY DEF OneInUse
    <3>1. i + 1 = j + 1
      BY <1>4, <2>2 DEF OneInUse
    <3>2. i \in Int /\ j \in Int
      BY <1>3
    <3>3. QED
      BY <3>1, <3>2
  <2>3. NoneInUse(http) => NoneInUse(http')
    BY <1>4 DEF NoneInUse
  <2>4. QED
    BY <1>1, <2>1, <2>2, <2>3 DEF OneAfterTheOther
<1>8. SameRequests(http, http')
  <2>1. \A j \in DOMAIN http : Web!Asks(http[j]) => j # 1
    BY <1>1, <1>2
  <2>2. QED
    BY <1>4, <1>5, <2>1 DEF SameRequests
<1>9. KeysInOrder'
  BY <1>1, <1>8, OrderStays
<1>10. QED
  BY <1>6, <1>7, <1>9

\* The browser.
LEMMA OpenSteps == WebInv /\ Web!BrowserOpens => WebInv'
<1> SUFFICES ASSUME WebInv, Web!BrowserOpens PROVE WebInv'
  OBVIOUS
<1> USE DEF WebInv
<1>1. /\ http' = Append(http, Web!Idle)
      /\ busy' = busy /\ queue' = queue /\ shadow' = shadow /\ asked' = asked /\ lost' = lost
  BY DEF Web!BrowserOpens, Web!pageVars
<1>2. http \in Seq(Conns) /\ Web!Idle \in Conns /\ ~InUse(Web!Idle) /\ ~Web!Asks(Web!Idle)
  BY Connections DEF WebTypes, InUse, Web!Asks
<1>3. /\ http' \in Seq(Conns) /\ Len(http') = Len(http) + 1 /\ Len(http) \in Nat
      /\ http'[Len(http) + 1] = Web!Idle
      /\ \A i \in 1..Len(http) : http'[i] = http[i]
  BY <1>1, <1>2, AppendProperties
<1>4. DOMAIN http = 1..Len(http) /\ DOMAIN http' = 1..(Len(http) + 1)
  BY <1>2, <1>3
<1>5. \A i \in DOMAIN http' : http'[i] = Web!Idle \/ (i \in DOMAIN http /\ http'[i] = http[i])
  BY <1>3, <1>4
<1>6. \A i \in DOMAIN http : i \in DOMAIN http' /\ http'[i] = http[i]
  BY <1>3, <1>4
<1>7. WebTypes'
  BY <1>1, <1>3 DEF WebTypes
<1>8. OneAfterTheOther'
  <2>1. ClosedAreOf(http', lost')
    BY <1>1, <1>2, <1>5 DEF OneAfterTheOther, ClosedAreOf
  <2>2. OneInUse(http) => OneInUse(http')
    BY <1>2, <1>5 DEF OneInUse
  <2>3. NoneInUse(http) => NoneInUse(http')
    BY <1>2, <1>5 DEF NoneInUse
  <2>4. QED
    BY <1>1, <2>1, <2>2, <2>3 DEF OneAfterTheOther
<1>9. SameRequests(http, http')
  BY <1>2, <1>5, <1>6 DEF SameRequests
<1>10. KeysInOrder'
  BY <1>1, <1>9, OrderStays
<1>11. QED
  BY <1>7, <1>8, <1>10

LEMMA CloseSteps == ASSUME WebInv, NEW i, Web!BrowserCloses(i) PROVE WebInv'
<1> USE DEF WebInv
<1> DEFINE c == [http[i] EXCEPT !.open = FALSE]
<1>1. /\ i \in DOMAIN http /\ http[i] = Web!Idle /\ http' = [http EXCEPT ![i] = c]
      /\ busy' = busy /\ queue' = queue /\ shadow' = shadow /\ asked' = asked /\ lost' = lost
  BY DEF Web!BrowserCloses, Web!pageVars
<1>2. http \in Seq(Conns) /\ Web!Idle \in Conns /\ ~Web!Asks(Web!Idle)
  BY Connections DEF WebTypes, Web!Asks
<1>3. c \in Conns /\ ~c.open /\ ~Web!Asks(c)
  BY <1>1, <1>2, Connections
<1> HIDE DEF c
<1>4. /\ http' \in Seq(Conns) /\ DOMAIN http' = DOMAIN http /\ http'[i] = c
      /\ \A j \in DOMAIN http : j # i => http'[j] = http[j]
  BY <1>1, <1>2, <1>3
<1>5. WebTypes'
  BY <1>1, <1>4 DEF WebTypes
<1>6. OneAfterTheOther'
  <2>1. ClosedAreOf(http', lost')
    BY <1>1, <1>3, <1>4 DEF OneAfterTheOther, ClosedAreOf
  <2>2. \A j \in DOMAIN http' : InUse(http'[j]) => InUse(http[j])
    BY <1>3, <1>4 DEF InUse
  <2>3. OneInUse(http) => OneInUse(http')
    BY <1>4, <2>2 DEF OneInUse
  <2>4. NoneInUse(http) => NoneInUse(http')
    BY <1>4, <2>2 DEF NoneInUse
  <2>5. QED
    BY <1>1, <2>1, <2>3, <2>4 DEF OneAfterTheOther
<1>7. SameRequests(http, http')
  BY <1>1, <1>2, <1>3, <1>4 DEF SameRequests
<1>8. KeysInOrder'
  BY <1>1, <1>7, OrderStays
<1>9. QED
  BY <1>5, <1>6, <1>8

\* At first nothing is pressed, and the connection that loaded the page is idle.
LEMMA WebStarts == Web!Init => WebInv
<1> SUFFICES ASSUME Web!Init PROVE WebInv
  OBVIOUS
<1>1. /\ busy = FALSE /\ queue = <<>> /\ http = <<Web!Idle>> /\ shadow = <<15, 15>>
      /\ asked = [k \in KeyCodes |-> FALSE] /\ lost = {}
  BY DEF Web!Init, Web!IdleShadow, Web!ButtonsIdle
<1>2. shadow \in Nibbles
  BY <1>1 DEF Nibbles
<1>3. Web!Idle \in Conns /\ ~InUse(Web!Idle) /\ ~Web!Asks(Web!Idle)
  BY Connections DEF InUse, Web!Asks
<1>4. http \in Seq(Conns) /\ DOMAIN http = {1} /\ http[1] = Web!Idle
  <2>1. \A c \in Conns : <<c>> \in Seq(Conns) /\ DOMAIN <<c>> = {1} /\ <<c>>[1] = c
    OBVIOUS
  <2>2. QED
    BY <1>1, <1>3, <2>1
<1>5. WebTypes
  BY <1>1, <1>2, <1>4, EmptySeq DEF WebTypes
<1>6. OneAfterTheOther
  BY <1>1, <1>3, <1>4 DEF OneAfterTheOther, ClosedAreOf, NoneInUse, OneInUse
<1>7. KeysInOrder
  <2> SUFFICES ASSUME NEW k \in KeyCodes
               PROVE  /\ Web!Waiting(k) = {} /\ Web!OnTheWay(k) = {}
                      /\ Web!Pressed(shadow, Web!CodeOf(k)) = asked[k]
    BY DEF KeysInOrder, Web!KeysInOrder
  <2>1. Web!Waiting(k) = {} /\ Web!OnTheWay(k) = {}
    BY <1>1, <1>3, <1>4 DEF Web!Waiting, Web!OnTheWay
  <2>2. Web!CodeOf(k) \in ButtonCodes
    BY Codes, FrontEndsAssumption
  <2>3. \A x \in Bits : Web!IsSet(15, x)
    BY DEF Bits, Web!IsSet
  <2>4. \A g \in 1..2 : shadow[g] = 15
    BY <1>1
  <2>5. Web!Pressed(shadow, Web!CodeOf(k)) <=> FALSE
    BY <1>2, <2>2, <2>3, <2>4, PressedBit
  <2>6. Web!Pressed(shadow, Web!CodeOf(k)) \in BOOLEAN
    BY DEF Web!Pressed
  <2>7. QED
    BY <1>1, <2>1, <2>5, <2>6
<1>8. QED
  BY <1>5, <1>6, <1>7 DEF WebInv

\* Every step of the web server, its page, the browser and the network keeps the invariant.
LEMMA WebSteps == WebInv /\ Web!Next => WebInv'
<1> SUFFICES ASSUME WebInv, Web!Next PROVE WebInv'
  OBVIOUS
<1>1. ASSUME NEW k \in KeyCodes, NEW down \in BOOLEAN,
             Web!OnKeyPress(k, down) \/ Web!OnMouse(k, down)
      PROVE  WebInv'
  <2> DEFINE e == [key |-> k, down |-> down]
  <2>1. e \in Web!Events /\ e.key = k /\ e.down = down
    BY DEF Web!Events
  <2>2. Web!SendEvent(e) /\ asked' = [asked EXCEPT ![k] = down] /\ shadow' = shadow
        /\ lost' = lost
    BY <1>1 DEF Web!OnKeyPress, Web!OnMouse
  <2> HIDE DEF e
  <2>3. QED
    BY <2>1, <2>2, EventSent
<1>2. CASE Web!OnOpen \/ Web!OnMessage \/ Web!OnClose \/ Web!WsStep \/ Web!Publish
           \/ Web!DropSocket
  <2>1. UNCHANGED keyVars
    BY <1>2 DEF keyVars, Web!OnOpen, Web!OnMessage, Web!OnClose, Web!WsStep, Web!WsAccept,
                Web!WsHandshake, Web!WsGet, Web!WsSend, Web!WsRead, Web!Publish,
                Web!DropSocket, Web!pageVars
  <2>2. QED
    BY <2>1, KeysStutter
<1>3. CASE Web!HttpStep
  BY <1>3, HandleSteps, EndConnectionSteps DEF Web!HttpStep
<1>4. ASSUME NEW i \in DOMAIN http, Web!BrowserCloses(i) PROVE WebInv'
  BY <1>4, CloseSteps
<1>5. QED
  BY <1>1, <1>2, <1>3, <1>4, LoadEndSteps, ReconnectSteps, OpenSteps, DropSteps, ReloadSteps
     DEF Web!Next

\* The invariant of the keys.
THEOREM WebInvariant == Spec => []WebInv
<1>1. Init => WebInv
  BY WebStarts DEF Init
<1>2. WebInv /\ [Next]_vars => WebInv'
  <2>1. WebInv /\ UNCHANGED webVars => WebInv'
    BY KeysStutter DEF webVars, keyVars
  <2>2. QED
    BY <2>1, WebSteps DEF Next, vars
<1>3. QED
  BY <1>1, <1>2, PTL DEF Spec

\* Whatever the player presses, and whatever becomes of connections, requests and the page,
\* the game reads of every key what was last done with it, once the events have arrived,
\* but of those with which a request was lost (onKeyPress(), sendEventMessage(), the listener
\* of 'loadend', handleEvent(), JoyPad::set() and clr()).
THEOREM KeysInOrderHolds == Spec => []KeysInOrder
<1>1. WebInv => KeysInOrder
  BY DEF WebInv
<1>2. QED
  BY <1>1, WebInvariant, PTL
=============================================================================

-------------------------- MODULE Processor_proofs --------------------------
(***************************************************************************)
(* Proofs of HandlersRunAlone, LostOnlyWithinTheTick and ReturnsRestore of *)
(* Processor for every game, every number of sources, every stack with     *)
(* room for it, and every nesting of handlers and routines; and of         *)
(* DecimalAdjust and OperationsAgree of Alu for all bytes of accumulator   *)
(* and operands, and all flags.                                            *)
(***************************************************************************)
EXTENDS Processor, Alu, SequenceTheorems, FiniteSetTheorems, TLAPS

\* The frames are a sequence, whatever words they hold.
FramesOf(W) == [kind : {"handler", "call", "saved"}, word : W, opened : BOOLEAN]
FramesType == \E W : frames \in Seq(FramesOf(W))

TypeInv ==
    /\ enable \in BOOLEAN /\ flags \subseteq Sources /\ operand \subseteq Sources

IsHandler(i) == frames[i].kind = "handler"

\* Interrupts are enabled only if the handler that is executed has enabled them.
OpenInv == enable => \A i \in DOMAIN frames : IsHandler(i) => frames[i].opened

\* What Sensible allowed when an instruction was fetched is still so when it is executed.
FetchInv ==
    /\ at.op \in {"RET", "RETI", "POP"} => frames # <<>>
    /\ at.op = "RETI" => IsHandler(Len(frames))

\* Between the read and the write of a modification the flags have only grown.
OperandInv == at.op = "modified" => flags \subseteq operand \cup raised

FrameInv == FramesType /\ HandlersRunAlone /\ OpenInv

Inv == TypeInv /\ FrameInv /\ FetchInv /\ OperandInv

-----------------------------------------------------------------------------
(* Frames.                                                                 *)

\* A frame that is entered is the last one, and the others stay where they are.
LEMMA EnterFrame ==
    ASSUME FramesType, NEW kind \in {"handler", "call", "saved"}, NEW word,
           frames' = Append(frames, Frame(kind, word))
    PROVE  /\ FramesType' /\ Len(frames) \in Nat
           /\ Len(frames') = Len(frames) + 1
           /\ DOMAIN frames = 1..Len(frames) /\ DOMAIN frames' = 1..Len(frames')
           /\ \A i \in DOMAIN frames : frames'[i] = frames[i]
           /\ frames'[Len(frames')] = Frame(kind, word)
<1>1. PICK W : frames \in Seq(FramesOf(W))
  BY DEF FramesType
<1> DEFINE S == FramesOf(W \cup {word})
<1>2. FramesOf(W) \subseteq S /\ Frame(kind, word) \in S
  BY DEF FramesOf, Frame
<1> HIDE DEF S
<1>3. frames \in Seq(S)
  BY <1>1, <1>2, SeqMonotonic
<1>4. frames' \in Seq(S) /\ Len(frames') = Len(frames) + 1
  BY <1>2, <1>3, AppendProperties
<1>5. /\ \A i \in 1..Len(frames) : frames'[i] = frames[i]
      /\ frames'[Len(frames) + 1] = Frame(kind, word)
  BY <1>2, <1>3, AppendProperties
<1>6. FramesType'
  BY <1>4 DEF S, FramesType
<1>7. QED
  BY <1>3, <1>4, <1>5, <1>6, LenProperties

\* A frame that is left was the last one.
LEMMA LeaveFrame ==
    ASSUME FramesType, frames # <<>>, frames' = Front(frames)
    PROVE  /\ FramesType' /\ Len(frames) \in Nat
           /\ Len(frames') = Len(frames) - 1
           /\ DOMAIN frames = 1..Len(frames) /\ DOMAIN frames' = 1..Len(frames')
           /\ \A i \in DOMAIN frames' : frames'[i] = frames[i]
<1>1. PICK W : frames \in Seq(FramesOf(W))
  BY DEF FramesType
<1> DEFINE S == FramesOf(W)
           n == Len(frames) - 1
<1> HIDE DEF S
<1>2. Len(frames) \in Nat \ {0} /\ DOMAIN frames = 1..Len(frames) /\ frames \in Seq(S)
  BY <1>1, LenProperties, EmptySeq DEF S
<1>3. \A i \in 1..n : frames[i] \in S
  BY <1>2, ElementOfSeq
<1>4. frames' = SubSeq(frames, 1, n)
  BY DEF Front
<1>5. /\ frames' \in Seq(S)
      /\ Len(frames') = IF 1 <= n THEN n - 1 + 1 ELSE 0
      /\ \A i \in 1..(n - 1 + 1) : frames'[i] = frames[1 + i - 1]
  BY <1>2, <1>3, <1>4, SubSeqProperties
<1>6. FramesType'
  BY <1>5 DEF S, FramesType
<1>7. Len(frames') = n
  <2>1. n \in Nat /\ (IF 1 <= n THEN n - 1 + 1 ELSE 0) = n
    BY <1>2
  <2>2. QED
    BY <1>5, <2>1
<1>8. DOMAIN frames' = 1..Len(frames')
  BY <1>5, LenProperties
<1>9. \A i \in 1..n : i \in 1..(n - 1 + 1) /\ 1 + i - 1 = i
  BY <1>2
<1>10. \A i \in 1..n : frames'[i] = frames[i]
  BY <1>5, <1>9
<1>11. QED
  BY <1>2, <1>6, <1>7, <1>8, <1>10

\* A frame that is marked as open is otherwise what it was.
LEMMA Opened ==
    ASSUME NEW W, NEW frame \in FramesOf(W), NEW open, open = [frame EXCEPT !.opened = TRUE]
    PROVE  /\ open \in FramesOf(W) /\ open.opened = TRUE
           /\ open.kind = frame.kind /\ open.word = frame.word
  BY DEF FramesOf

\* EI marks the frame of the handler that is executed, and no other.
LEMMA OpenFrame ==
    ASSUME FramesType,
           frames' = [i \in DOMAIN frames |->
                         IF Innermost(i) THEN [frames[i] EXCEPT !.opened = TRUE] ELSE frames[i]]
    PROVE  /\ FramesType' /\ DOMAIN frames' = DOMAIN frames
           /\ \A i \in DOMAIN frames :
                 /\ frames'[i].kind = frames[i].kind
                 /\ IF Innermost(i) THEN frames'[i].opened ELSE frames'[i] = frames[i]
<1>1. PICK W : frames \in Seq(FramesOf(W))
  BY DEF FramesType
<1>2. DOMAIN frames = 1..Len(frames) /\ Len(frames) \in Nat
  BY <1>1, LenProperties
<1>3. ASSUME NEW i \in 1..Len(frames)
      PROVE  /\ frames'[i] \in FramesOf(W)
             /\ frames'[i].kind = frames[i].kind
             /\ IF Innermost(i) THEN frames'[i].opened ELSE frames'[i] = frames[i]
  <2>1. frames[i] \in FramesOf(W)
    BY <1>1, ElementOfSeq
  <2>2. frames'[i] = IF Innermost(i) THEN [frames[i] EXCEPT !.opened = TRUE] ELSE frames[i]
    BY <1>2
  <2>3. CASE Innermost(i)
    <3>1. frames'[i] = [frames[i] EXCEPT !.opened = TRUE]
      BY <2>2, <2>3
    <3> DEFINE before == frames[i]
               after == frames'[i]
    <3>2. after \in FramesOf(W) /\ after.opened = TRUE /\ after.kind = before.kind
      <4>1. before \in FramesOf(W) /\ after = [before EXCEPT !.opened = TRUE]
        BY <2>1, <3>1
      <4> HIDE DEF before, after
      <4>2. QED
        BY <4>1, Opened
    <3>3. QED
      BY <2>3, <3>2
  <2>4. CASE ~Innermost(i)
    BY <2>1, <2>2, <2>4
  <2>5. QED
    BY <2>3, <2>4
<1>4. frames' \in [1..Len(frames) -> FramesOf(W)]
  BY <1>2, <1>3
<1>5. frames' \in Seq(FramesOf(W))
  BY <1>2, <1>4, SeqDef
<1>6. QED
  BY <1>2, <1>3, <1>5 DEF FramesType

-----------------------------------------------------------------------------
(* The steps.                                                              *)

\* The flags grow between the read and the write of a modification.
LEMMA OperandNext ==
    ASSUME OperandInv, [Next]_vars
    PROVE  OperandInv'
<1> USE DEF OperandInv
<1>1. CASE Cycle
  <2>1. at'.op # "modified"
    BY <1>1 DEF Cycle, In, Sensible, Instructions, Length
  <2>2. QED
    BY <2>1
<1>2. CASE Raise
  BY <1>2 DEF Raise
<1>3. CASE ReadFlags
  BY <1>3 DEF ReadFlags
<1>4. CASE Instruction /\ ~ReadFlags
  <2>1. at' = Between
    BY <1>4 DEF Instruction, Executes, Idle, Other, EnableInterrupts, DisableInterrupts, Halt,
        Jump, Call, Return, PushPair, PopPair, LoadPair, StoreFlags, StoreMask, WriteFlags
  <2>2. QED
    BY <2>1 DEF Between, In
<1>5. CASE UNCHANGED vars
  BY <1>5 DEF vars, interruptVars
<1>6. QED
  BY <1>1, <1>2, <1>3, <1>4, <1>5 DEF Next

-----------------------------------------------------------------------------
(* Which handlers are open.                                                *)

\* A handler is entered while all others are open, and closes interrupts.
LEMMA EnterHandler ==
    ASSUME FrameInv, enable, NEW word, frames' = Append(frames, Frame("handler", word)),
           enable' = FALSE
    PROVE  FrameInv'
<1>1. /\ FramesType' /\ Len(frames) \in Nat
      /\ Len(frames') = Len(frames) + 1
      /\ DOMAIN frames = 1..Len(frames) /\ DOMAIN frames' = 1..Len(frames')
      /\ \A i \in DOMAIN frames : frames'[i] = frames[i]
  BY EnterFrame DEF FrameInv
<1>2. \A i \in DOMAIN frames : IsHandler(i) => frames[i].opened
  BY DEF FrameInv, OpenInv
<1>3. ASSUME NEW i \in DOMAIN frames', IsHandler(i)'
      PROVE  frames'[i].opened \/ Innermost(i)'
  <2>1. CASE i = Len(frames')
    BY <1>1, <1>3, <2>1 DEF Innermost, IsHandler
  <2>2. CASE i # Len(frames')
    <3>1. i \in DOMAIN frames
      BY <1>1, <2>2
    <3>2. QED
      BY <1>1, <1>2, <1>3, <3>1 DEF IsHandler
  <2>3. QED
    BY <2>1, <2>2
<1>4. HandlersRunAlone'
  BY <1>3 DEF HandlersRunAlone, IsHandler
<1>5. QED
  BY <1>1, <1>4 DEF FrameInv, OpenInv

\* A routine that is called, or a word that is saved, is no handler.
LEMMA EnterRoutine ==
    ASSUME FrameInv, NEW kind \in {"call", "saved"}, NEW word,
           frames' = Append(frames, Frame(kind, word)), UNCHANGED enable
    PROVE  FrameInv'
<1>1. /\ FramesType' /\ Len(frames) \in Nat
      /\ Len(frames') = Len(frames) + 1
      /\ DOMAIN frames = 1..Len(frames) /\ DOMAIN frames' = 1..Len(frames')
      /\ \A i \in DOMAIN frames : frames'[i] = frames[i]
      /\ frames'[Len(frames')] = Frame(kind, word)
  BY EnterFrame DEF FrameInv
<1>2. \A i \in DOMAIN frames' : IsHandler(i)' => i \in DOMAIN frames /\ IsHandler(i)
  <2>1. frames'[Len(frames')].kind # "handler"
    BY <1>1 DEF Frame
  <2>2. \A i \in DOMAIN frames' : i # Len(frames') => i \in DOMAIN frames
    BY <1>1
  <2>3. QED
    BY <1>1, <2>1, <2>2 DEF IsHandler
<1>3. \A i \in DOMAIN frames : Innermost(i) => Innermost(i)'
  BY <1>1, <1>2 DEF Innermost, IsHandler
<1>4. HandlersRunAlone'
  BY <1>1, <1>2, <1>3 DEF FrameInv, HandlersRunAlone, IsHandler
<1>5. OpenInv'
  BY <1>1, <1>2 DEF FrameInv, OpenInv
<1>6. QED
  BY <1>1, <1>4, <1>5 DEF FrameInv

\* What is returned from was the last to be entered; RETI leaves a handler, and the others
\* are open.
LEMMA LeaveInv ==
    ASSUME FrameInv, frames # <<>>, frames' = Front(frames),
           UNCHANGED enable \/ IsHandler(Len(frames))
    PROVE  FrameInv'
<1>1. /\ FramesType' /\ Len(frames) \in Nat
      /\ Len(frames') = Len(frames) - 1
      /\ DOMAIN frames = 1..Len(frames) /\ DOMAIN frames' = 1..Len(frames')
      /\ \A i \in DOMAIN frames' : frames'[i] = frames[i]
  BY LeaveFrame DEF FrameInv
<1>2. \A i \in DOMAIN frames' : i \in DOMAIN frames /\ (IsHandler(i)' <=> IsHandler(i))
  BY <1>1 DEF IsHandler
<1>3. \A i \in DOMAIN frames' : Innermost(i) => Innermost(i)'
  BY <1>1, <1>2 DEF Innermost, IsHandler
<1>4. HandlersRunAlone'
  BY <1>1, <1>2, <1>3 DEF FrameInv, HandlersRunAlone, IsHandler
<1>5. CASE UNCHANGED enable
  BY <1>1, <1>2, <1>4, <1>5 DEF FrameInv, OpenInv
<1>6. CASE IsHandler(Len(frames))
  <2>1. \A i \in DOMAIN frames' : ~Innermost(i)
    <3>1. Len(frames) \in DOMAIN frames /\ \A i \in DOMAIN frames' : ~(Len(frames) <= i)
      <4>1. Len(frames) # 0
        BY EmptySeq DEF FrameInv, FramesType
      <4>2. QED
        BY <1>1, <4>1
    <3>2. QED
      BY <1>6, <3>1 DEF Innermost, IsHandler
  <2>2. \A i \in DOMAIN frames' : IsHandler(i)' => frames'[i].opened
    BY <1>1, <1>2, <2>1 DEF FrameInv, HandlersRunAlone, IsHandler
  <2>3. QED
    BY <1>1, <1>4, <2>2 DEF FrameInv, OpenInv
<1>7. QED
  BY <1>5, <1>6

\* EI opens the handler that is executed: now all are open.
LEMMA OpenHandler ==
    ASSUME FrameInv,
           frames' = [i \in DOMAIN frames |->
                         IF Innermost(i) THEN [frames[i] EXCEPT !.opened = TRUE] ELSE frames[i]]
    PROVE  FrameInv'
<1>1. /\ FramesType' /\ DOMAIN frames' = DOMAIN frames
      /\ \A i \in DOMAIN frames :
            /\ frames'[i].kind = frames[i].kind
            /\ IF Innermost(i) THEN frames'[i].opened ELSE frames'[i] = frames[i]
  BY OpenFrame DEF FrameInv
<1>2. \A i \in DOMAIN frames' : IsHandler(i)' => frames'[i].opened
  BY <1>1 DEF FrameInv, HandlersRunAlone, IsHandler
<1>3. QED
  BY <1>1, <1>2 DEF FrameInv, HandlersRunAlone, OpenInv, IsHandler

\* Nothing happens to the frames, and interrupts are not enabled.
LEMMA SameFrames ==
    ASSUME FrameInv, UNCHANGED frames, UNCHANGED enable \/ enable' = FALSE
    PROVE  FrameInv'
  BY DEF FrameInv, FramesType, HandlersRunAlone, OpenInv, Innermost, IsHandler

-----------------------------------------------------------------------------
\* Every step keeps the types, the fetched instruction and what the frames say.
LEMMA FrameNext ==
    ASSUME TypeInv, FrameInv, FetchInv, [Next]_vars
    PROVE  TypeInv' /\ FrameInv' /\ FetchInv'
<1> USE DEF TypeInv
<1>1. CASE Cycle
  <2>1. TypeInv'
    BY <1>1 DEF Cycle, Dispatch
  <2>2. FrameInv'
    <3>1. CASE Interrupted /\ enable
      <4>1. frames' = Append(frames, Frame("handler", pc)) /\ enable' = FALSE
        BY <1>1, <3>1 DEF Cycle, Dispatch
      <4>2. QED
        BY <3>1, <4>1, EnterHandler
    <3>2. CASE ~(Interrupted /\ enable)
      <4>1. UNCHANGED <<frames, enable>>
        BY <1>1, <3>2 DEF Cycle, Dispatch
      <4>2. QED
        BY <4>1, SameFrames
    <3>3. QED
      BY <3>1, <3>2
  <2>3. FetchInv'
    <3>1. \/ at'.op \in {"idle", "other"}
          \/ Sensible(at'.op, frames')
      BY <1>1 DEF Cycle, In
    <3>2. QED
      BY <3>1 DEF FetchInv, Sensible, Last, IsHandler
  <2>4. QED
    BY <2>1, <2>2, <2>3
<1>2. ASSUME at'.op = "cycle"
      PROVE  FetchInv'
  BY <1>2 DEF FetchInv
<1>3. CASE Raise
  <2>1. UNCHANGED <<frames, enable, at>>
    BY <1>3 DEF Raise, flowVars
  <2>2. FrameInv' /\ FetchInv'
    BY <2>1, SameFrames DEF FetchInv, IsHandler
  <2>3. QED
    BY <1>3, <2>2 DEF Raise
<1>4. CASE ReadFlags
  <2>1. UNCHANGED <<frames, enable>> /\ at'.op = "modified"
    BY <1>4 DEF ReadFlags, flowVars, In
  <2>2. FrameInv' /\ FetchInv'
    BY <2>1, SameFrames DEF FetchInv
  <2>3. QED
    BY <1>4, <2>2 DEF ReadFlags
<1>5. CASE EnableInterrupts
  <2>1. FrameInv'
    BY <1>5, OpenHandler DEF EnableInterrupts
  <2>2. QED
    BY <1>2, <1>5, <2>1 DEF EnableInterrupts, Executes, Between, In
<1>6. CASE Call \/ PushPair
  <2>1. PICK kind, word : /\ kind \in {"call", "saved"}
                          /\ frames' = Append(frames, Frame(kind, word))
    BY <1>6 DEF Call, PushPair
  <2>2. UNCHANGED <<enable, flags, operand>> /\ at'.op = "cycle"
    BY <1>6 DEF Call, PushPair, Executes, Between, In, interruptVars
  <2>3. FrameInv'
    BY <2>1, <2>2, EnterRoutine
  <2>4. QED
    BY <1>2, <2>2, <2>3
<1>7. CASE Return \/ PopPair
  <2>1. at.op \in {"RET", "RETI", "POP"} /\ at'.op = "cycle"
    BY <1>7 DEF Return, PopPair, Executes, Between, In
  <2>2. frames' = Front(frames) /\ enable' \in BOOLEAN /\ UNCHANGED <<flags, operand>>
    BY <1>7 DEF Return, PopPair, Pop, interruptVars
  <2>3. UNCHANGED enable \/ at.op = "RETI"
    BY <1>7 DEF Return, PopPair, Executes, interruptVars
  <2>4. FrameInv'
    BY <2>1, <2>2, <2>3, LeaveInv DEF FetchInv
  <2>5. QED
    BY <1>2, <2>1, <2>2, <2>4
<1>8. CASE \/ Idle \/ Other \/ Halt \/ Jump \/ LoadPair \/ StoreMask \/ DisableInterrupts
           \/ StoreFlags \/ WriteFlags
  <2>1. UNCHANGED frames /\ (UNCHANGED enable \/ enable' = FALSE) /\ at'.op = "cycle"
    BY <1>8 DEF Idle, Other, Halt, Jump, LoadPair, StoreMask, DisableInterrupts, StoreFlags,
        WriteFlags, Executes, Between, In, flowVars, interruptVars
  <2>2. FrameInv' /\ FetchInv'
    BY <1>2, <2>1, SameFrames
  <2>3. flags' \subseteq Sources /\ operand' \subseteq Sources
    BY <1>8 DEF Idle, Other, Halt, Jump, LoadPair, StoreMask, DisableInterrupts, StoreFlags,
        WriteFlags, flowVars, interruptVars
  <2>4. QED
    BY <2>1, <2>2, <2>3
<1>9. CASE UNCHANGED vars
  <2>1. UNCHANGED <<frames, enable, at, flags, operand>>
    BY <1>9 DEF vars, flowVars, interruptVars
  <2>2. QED
    BY <2>1, SameFrames DEF FetchInv, IsHandler
<1>10. QED
  BY <1>1, <1>3, <1>4, <1>5, <1>6, <1>7, <1>8, <1>9 DEF Next, Instruction

LEMMA InitInv == Init => Inv
  BY EmptySeq DEF Init, Inv, TypeInv, FrameInv, FetchInv, OperandInv, FramesType,
      HandlersRunAlone, OpenInv, Between, In

LEMMA InvNext == Inv /\ [Next]_vars => Inv'
  BY FrameNext, OperandNext DEF Inv

-----------------------------------------------------------------------------
\* Whatever games do, a handler is interrupted only if it has executed EI: RETI is the last
\* thing a handler does, and a dispatch closes interrupts (interrupt(), ret()).
THEOREM HandlersAreAlone == Spec => []HandlersRunAlone
<1>1. Inv => HandlersRunAlone
  BY DEF Inv, FrameInv
<1>2. QED
  BY <1>1, InitInv, InvNext, PTL DEF Spec

\* res() and set() on the flags register lose no interrupt but the one they address, and those
\* of the tick between their read and their write (res(), set(), execute()).
THEOREM NoInterruptIsLost == Spec => LostOnlyWithinTheTick
<1>1. Inv /\ [Next]_vars =>
         [at.op = "modified" /\ at'.op = "cycle" =>
             \E s \in Sources : flags \ flags' \subseteq {s} \cup raised]_vars
  <2> SUFFICES ASSUME Inv, Next, at.op = "modified", at'.op = "cycle"
               PROVE  \E s \in Sources : flags \ flags' \subseteq {s} \cup raised
    OBVIOUS
  <2>1. WriteFlags
    BY DEF Next, Cycle, Raise, Instruction, Executes, Idle, Other, EnableInterrupts,
        DisableInterrupts, Halt, Jump, Call, Return, PushPair, PopPair, LoadPair, StoreFlags,
        StoreMask, ReadFlags
  <2>2. PICK s \in Sources : flags' \in {operand \ {s}, operand \cup {s}}
    BY <2>1 DEF WriteFlags
  <2>3. flags \subseteq operand \cup raised
    BY DEF Inv, OperandInv
  <2>4. QED
    BY <2>2, <2>3
<1>2. QED
  BY <1>1, InitInv, InvNext, PTL DEF Spec, LostOnlyWithinTheTick

-----------------------------------------------------------------------------
(* The stack.                                                              *)

Room == 2 * (MaxDepth + MaxCalls)

\* The j-th byte that is pushed.
Slot(j) == Wrap(StackTop - j)

LEMMA Remainders ==
    ASSUME NEW m \in Nat \ {0}, NEW x \in Int
    PROVE  /\ x \in 0..(m - 1) => x % m = x
           /\ x \in (-m)..(-1) => x % m = x + m
           /\ x \in m..(2 * m - 1) => x % m = x - m
<1>1. x = m * (x \div m) + (x % m) /\ x \div m \in Int /\ x % m \in 0..(m - 1)
  OBVIOUS
<1> DEFINE q == x \div m
           r == x % m
<1>2. x = m * q + r /\ q \in Int /\ r \in 0..(m - 1)
  BY <1>1
<1> HIDE DEF q, r
<1>3. ASSUME x \in 0..(m - 1) PROVE r = x
  <2>1. q = 0
    BY <1>2, <1>3
  <2>2. QED
    BY <1>2, <2>1
<1>4. ASSUME x \in (-m)..(-1) PROVE r = x + m
  <2>1. q = -1
    BY <1>2, <1>4
  <2>2. QED
    BY <1>2, <2>1
<1>5. ASSUME x \in m..(2 * m - 1) PROVE r = x - m
  <2>1. q = 1
    BY <1>2, <1>5
  <2>2. QED
    BY <1>2, <2>1
<1>6. QED
  BY <1>3, <1>4, <1>5 DEF r

\* SlotIs: the stack grows down from its top, and around the end of the address space.
LEMMA SlotIs ==
    /\ BYTE * BYTE \in Nat \ {0} /\ StackTop \in 0..(BYTE * BYTE - 1)
    /\ \A j \in 0..(BYTE * BYTE) :
          Slot(j) = IF j <= StackTop THEN StackTop - j ELSE StackTop - j + BYTE * BYTE
<1> DEFINE m == BYTE * BYTE
<1>1. m \in Nat \ {0} /\ StackTop \in 0..(m - 1)
  BY ProcessorAssumption DEF Addresses
<1>2. \A j \in 0..m : Slot(j) = (StackTop - j) % m
  BY DEF Slot, Wrap
<1> HIDE DEF m
<1>3. ASSUME NEW j \in 0..m
      PROVE  Slot(j) = IF j <= StackTop THEN StackTop - j ELSE StackTop - j + m
  <2>1. StackTop - j \in Int
    BY <1>1
  <2>2. CASE j <= StackTop
    <3>1. StackTop - j \in 0..(m - 1)
      BY <1>1, <2>2
    <3>2. QED
      BY <1>1, <1>2, <2>1, <2>2, <3>1, Remainders
  <2>3. CASE ~(j <= StackTop)
    <3>1. StackTop - j \in (-m)..(-1)
      BY <1>1, <2>3
    <3>2. QED
      BY <1>1, <1>2, <2>1, <2>3, <3>1, Remainders
  <2>4. QED
    BY <2>2, <2>3
<1>4. QED
  BY <1>1, <1>3 DEF m

\* SlotSteps: where SP goes, and that no two words share a byte.
LEMMA SlotSteps ==
    ASSUME NEW n \in Nat, 2 * n <= Room
    PROVE  /\ Slot(0) = StackTop
           /\ 2 * n < Room => /\ Wrap(Slot(2 * n) - 1) = Slot(2 * n + 1)
                              /\ Wrap(Slot(2 * n) - 2) = Slot(2 * n + 2)
           /\ n # 0 => /\ Wrap(Slot(2 * n) + 1) = Slot(2 * n - 1)
                       /\ Wrap(Slot(2 * n) + 2) = Slot(2 * n - 2)
<1> DEFINE m == BYTE * BYTE
<1>1. m \in Nat \ {0} /\ StackTop \in 0..(m - 1) /\ 2 * n <= m /\ Room <= m /\ Room \in Nat
      /\ \E h \in Nat : Room = 2 * h
  <2>1. m \in Nat \ {0} /\ StackTop \in 0..(m - 1)
    BY SlotIs
  <2>2. MaxDepth + MaxCalls \in Nat /\ Room = 2 * (MaxDepth + MaxCalls) /\ Room <= m
    BY ProcessorAssumption DEF Room
  <2> HIDE DEF m
  <2>3. QED
    BY <2>1, <2>2
<1>2. \A j \in 0..m : Slot(j) = IF j <= StackTop THEN StackTop - j ELSE StackTop - j + m
  BY SlotIs
<1>3. \A x \in Int : Wrap(x) = x % m
  BY DEF Wrap
<1> HIDE DEF m
<1>4. \A x \in Int : /\ x \in 0..(m - 1) => Wrap(x) = x
                     /\ x \in (-m)..(-1) => Wrap(x) = x + m
                     /\ x \in m..(2 * m - 1) => Wrap(x) = x - m
  BY <1>1, <1>3, Remainders
<1>5. Slot(0) = StackTop
  BY <1>1, <1>2
<1>6. ASSUME 2 * n < Room
      PROVE  /\ Wrap(Slot(2 * n) - 1) = Slot(2 * n + 1)
             /\ Wrap(Slot(2 * n) - 2) = Slot(2 * n + 2)
  <2>1. 2 * n + 2 <= m
    BY <1>1, <1>6
  <2>2. QED
    BY <1>1, <1>2, <1>4, <2>1
<1>7. ASSUME n # 0
      PROVE  /\ Wrap(Slot(2 * n) + 1) = Slot(2 * n - 1)
             /\ Wrap(Slot(2 * n) + 2) = Slot(2 * n - 2)
  BY <1>1, <1>2, <1>4, <1>7
<1>8. QED
  BY <1>5, <1>6, <1>7

\* SlotsDiffer: the bytes of the stack are in the game's RAM, each at an address of its own.
LEMMA SlotsDiffer ==
    /\ \A i \in 1..Room : Slot(i) \in Ram
    /\ \A i, j \in 1..Room : Slot(i) = Slot(j) => i = j
<1> DEFINE m == BYTE * BYTE
<1>1. \A i \in 1..Room : Slot(i) \in Ram
  BY ProcessorAssumption DEF Room, Slot, Wrap
<1>2. m \in Nat \ {0} /\ StackTop \in 0..(m - 1)
      /\ \A j \in 0..m : Slot(j) = IF j <= StackTop THEN StackTop - j ELSE StackTop - j + m
  BY SlotIs
<1>3. Room \in Nat /\ Room <= m
  BY ProcessorAssumption DEF Room
<1> HIDE DEF m
<1>4. \A i, j \in 1..Room : Slot(i) = Slot(j) => i = j
  BY <1>2, <1>3
<1>5. QED
  BY <1>1, <1>4

\* The two bytes of a word make it up again.
LEMMA Bytes ==
    ASSUME NEW w \in Int
    PROVE  BYTE * (w \div BYTE) + (w % BYTE) = w
<1>1. BYTE \in Nat \ {0}
  BY ProcessorAssumption
<1>2. QED
  BY <1>1

-----------------------------------------------------------------------------
(* The words on the stack.                                                 *)

\* The frames hold numbers, of which the stack takes the bytes.
StackTypes ==
    /\ pc \in Int /\ pair \in Int /\ at.args \in Int
    /\ frames \in Seq(FramesOf(Int)) /\ mem \in [Ram -> Int]

\* What a game is allowed to do keeps the stack within its room.
StackBounds ==
    /\ Handlers(frames) <= MaxDepth /\ (enable => Handlers(frames) < MaxDepth)
    /\ Len(frames) - Handlers(frames) <= MaxCalls

\* Every frame has the word on the stack that it goes back to.
Word(m, i) == BYTE * m[Slot(2 * i - 1)] + m[Slot(2 * i)]
StackHolds ==
    /\ sp = Slot(2 * Len(frames))
    /\ \A i \in 1..Len(frames) : frames[i].word = Word(mem, i)

\* What Sensible allowed when an instruction was fetched is still so when it is executed.
StackFetch ==
    /\ at.op = "EI" => Handlers(frames) < MaxDepth
    /\ at.op \in {"CALL", "RST", "PUSH"} => Len(frames) - Handlers(frames) < MaxCalls
    /\ at.op = "POP" => frames[Len(frames)].kind = "saved"
    /\ at.op \in {"RET", "RETI"} => frames[Len(frames)].kind # "saved"

StackInv == StackTypes /\ StackBounds /\ StackHolds /\ StackFetch

\* HandlerCount: the handlers are counted.
LEMMA HandlerCount ==
    ASSUME FramesType
    PROVE  /\ IsFiniteSet({i \in DOMAIN frames : frames[i].kind = "handler"})
           /\ Handlers(frames) \in Nat
<1>1. PICK W : frames \in Seq(FramesOf(W))
  BY DEF FramesType
<1>2. DOMAIN frames = 1..Len(frames) /\ Len(frames) \in Nat
  BY <1>1, LenProperties
<1>3. IsFiniteSet(1..Len(frames))
  BY <1>2, FS_Interval
<1>4. IsFiniteSet({i \in DOMAIN frames : frames[i].kind = "handler"})
  BY <1>2, <1>3, FS_Subset
<1>5. QED
  BY <1>4, FS_CardinalityType DEF Handlers

\* EnterCount, LeaveCount: how a frame that is entered or left counts.
LEMMA EnterCount ==
    ASSUME FramesType, NEW kind \in {"handler", "call", "saved"}, NEW word,
           frames' = Append(frames, Frame(kind, word))
    PROVE  Handlers(frames') = Handlers(frames) + (IF kind = "handler" THEN 1 ELSE 0)
<1> DEFINE H == {i \in DOMAIN frames : frames[i].kind = "handler"}
           G == {i \in DOMAIN frames' : frames'[i].kind = "handler"}
<1>1. IsFiniteSet(H) /\ Cardinality(H) \in Nat
  BY HandlerCount DEF Handlers
<1>2. /\ Len(frames) \in Nat /\ Len(frames') = Len(frames) + 1
      /\ DOMAIN frames = 1..Len(frames) /\ DOMAIN frames' = 1..Len(frames')
      /\ \A i \in DOMAIN frames : frames'[i] = frames[i]
      /\ frames'[Len(frames')] = Frame(kind, word)
  BY EnterFrame
<1>3. Len(frames') \notin H /\ frames'[Len(frames')].kind = kind
  BY <1>2 DEF Frame
<1>4. CASE kind = "handler"
  <2>1. G = H \cup {Len(frames')}
    BY <1>2, <1>3, <1>4
  <2> HIDE DEF G, H
  <2>2. Cardinality(G) = Cardinality(H) + 1
    BY <1>1, <1>3, <2>1, FS_AddElement
  <2>3. QED
    BY <1>4, <2>2 DEF G, H, Handlers
<1>5. CASE kind # "handler"
  <2>1. G = H
    BY <1>2, <1>3, <1>5
  <2>2. Handlers(frames') = Cardinality(G) /\ Handlers(frames) = Cardinality(H)
    BY DEF Handlers
  <2> HIDE DEF G, H
  <2>3. QED
    BY <1>1, <1>5, <2>1, <2>2
<1>6. QED
  BY <1>4, <1>5

LEMMA LeaveCount ==
    ASSUME FramesType, frames # <<>>, frames' = Front(frames)
    PROVE  Handlers(frames') = Handlers(frames) - (IF IsHandler(Len(frames)) THEN 1 ELSE 0)
<1> DEFINE H == {i \in DOMAIN frames : frames[i].kind = "handler"}
           G == {i \in DOMAIN frames' : frames'[i].kind = "handler"}
           n == Len(frames)
<1>1. IsFiniteSet(H) /\ Cardinality(H) \in Nat
  BY HandlerCount DEF Handlers
<1>2. /\ n \in Nat /\ Len(frames') = n - 1
      /\ DOMAIN frames = 1..n /\ DOMAIN frames' = 1..(n - 1)
      /\ \A i \in DOMAIN frames' : frames'[i] = frames[i]
  BY LeaveFrame
<1>3. n # 0
  BY EmptySeq DEF FramesType
<1> HIDE DEF n
<1>4. n \in DOMAIN frames /\ DOMAIN frames' = DOMAIN frames \ {n}
  BY <1>2, <1>3
<1>5. G = H \ {n}
  BY <1>2, <1>4
<1>6. n \in H <=> IsHandler(n)
  BY <1>4 DEF IsHandler
<1> HIDE DEF G, H
<1>7. CASE n \in H
  <2>1. Cardinality(G) = Cardinality(H) - 1
    BY <1>1, <1>5, <1>7, FS_RemoveElement
  <2>2. QED
    BY <1>6, <1>7, <2>1 DEF G, H, n, Handlers
<1>8. CASE n \notin H
  <2>1. G = H
    BY <1>5, <1>8
  <2>2. Handlers(frames') = Cardinality(G) /\ Handlers(frames) = Cardinality(H)
    BY DEF G, H, Handlers
  <2>3. QED
    BY <1>1, <1>6, <1>8, <2>1, <2>2 DEF n
<1>9. QED
  BY <1>7, <1>8

\* TypedFrames: frames of numbers are frames.
LEMMA TypedFrames ==
    ASSUME StackTypes
    PROVE  /\ FramesType /\ Len(frames) \in Nat /\ DOMAIN frames = 1..Len(frames)
           /\ Handlers(frames) \in Nat
<1>1. FramesType
  BY DEF StackTypes, FramesType
<1>2. QED
  BY <1>1, HandlerCount, LenProperties DEF StackTypes

\* RoomLeft: the bounds of the frames are those of the stack.
LEMMA RoomLeft ==
    ASSUME StackTypes, StackBounds
    PROVE  /\ 2 * Len(frames) <= Room
           /\ Handlers(frames) < MaxDepth \/ Len(frames) - Handlers(frames) < MaxCalls
                => 2 * Len(frames) < Room
  BY TypedFrames, ProcessorAssumption DEF StackBounds, Room

\* PushHolds: what is pushed is the word of the new frame, and the others stay.
LEMMA PushHolds ==
    ASSUME StackTypes, StackHolds, 2 * Len(frames) < Room,
           NEW kind \in {"handler", "call", "saved"}, NEW word \in Int,
           Push(word), frames' = Append(frames, Frame(kind, word))
    PROVE  /\ StackHolds' /\ mem' \in [Ram -> Int] /\ frames' \in Seq(FramesOf(Int))
           /\ Len(frames') = Len(frames) + 1
<1> DEFINE n == Len(frames)
           hi == Slot(2 * n + 1)
           lo == Slot(2 * n + 2)
<1>1. /\ n \in Nat /\ Len(frames') = n + 1
      /\ DOMAIN frames = 1..n
      /\ \A i \in 1..n : frames'[i] = frames[i]
      /\ frames'[n + 1] = Frame(kind, word)
  BY TypedFrames, EnterFrame
<1>2. Frame(kind, word) \in FramesOf(Int)
  BY DEF Frame, FramesOf
<1>3. frames' \in Seq(FramesOf(Int))
  BY <1>2, AppendProperties DEF StackTypes
<1> HIDE DEF n
<1>4. sp = Slot(2 * n) /\ 2 * n < Room /\ Room \in Nat /\ 2 * n + 2 <= Room
  <2>1. MaxDepth + MaxCalls \in Nat /\ Room = 2 * (MaxDepth + MaxCalls)
    BY ProcessorAssumption DEF Room
  <2>2. sp = Slot(2 * n) /\ 2 * n < Room
    BY DEF StackHolds, n
  <2>3. QED
    BY <1>1, <2>1, <2>2
<1>5. Wrap(sp - 1) = hi /\ Wrap(sp - 2) = lo
  BY <1>1, <1>4, SlotSteps
<1>6. sp' = lo /\ mem' = [mem EXCEPT ![hi] = word \div BYTE, ![lo] = word % BYTE]
  BY <1>5 DEF Push
<1>7. 2 * n + 1 \in 1..Room /\ 2 * n + 2 \in 1..Room
  BY <1>1, <1>4
<1>8. hi \in Ram /\ lo \in Ram /\ hi # lo
  <2>1. 2 * n + 1 # 2 * n + 2
    BY <1>1
  <2>2. QED
    BY <1>7, <2>1, SlotsDiffer
<1>9. word \div BYTE \in Int /\ word % BYTE \in Int
  BY ProcessorAssumption
<1>10. /\ mem' \in [Ram -> Int] /\ mem'[hi] = word \div BYTE /\ mem'[lo] = word % BYTE
       /\ \A x \in Ram : x # hi /\ x # lo => mem'[x] = mem[x]
  BY <1>6, <1>8, <1>9 DEF StackTypes
<1>11. sp' = Slot(2 * Len(frames'))
  <2>1. 2 * Len(frames') = 2 * n + 2
    BY <1>1
  <2>2. QED
    BY <1>6, <2>1
<1>12. ASSUME NEW i \in 1..Len(frames')
       PROVE  frames'[i].word = Word(mem', i)
  <2>1. CASE i = n + 1
    <3>1. 2 * i - 1 = 2 * n + 1 /\ 2 * i = 2 * n + 2
      BY <1>1, <2>1
    <3>2. Word(mem', i) = BYTE * (word \div BYTE) + (word % BYTE)
      BY <1>10, <3>1 DEF Word
    <3>3. frames'[i].word = word
      BY <1>1, <2>1 DEF Frame
    <3>4. QED
      BY <3>2, <3>3, Bytes
  <2>2. CASE i # n + 1
    <3>1. i \in 1..n /\ 2 * i - 1 \in 1..Room /\ 2 * i \in 1..Room
          /\ {2 * i - 1, 2 * i} \cap {2 * n + 1, 2 * n + 2} = {}
      BY <1>1, <1>4, <2>2
    <3>2. /\ Slot(2 * i - 1) \in Ram /\ Slot(2 * i - 1) # hi /\ Slot(2 * i - 1) # lo
          /\ Slot(2 * i) \in Ram /\ Slot(2 * i) # hi /\ Slot(2 * i) # lo
      BY <1>7, <3>1, SlotsDiffer
    <3>3. Word(mem', i) = Word(mem, i)
      BY <1>10, <3>2 DEF Word
    <3>4. QED
      BY <1>1, <3>1, <3>3 DEF StackHolds, n
  <2>3. QED
    BY <2>1, <2>2
<1>13. QED
  BY <1>1, <1>3, <1>10, <1>11, <1>12 DEF StackHolds, n

\* PopHolds: what is popped is the word of the latest frame.
LEMMA PopHolds ==
    ASSUME StackTypes, StackHolds, 2 * Len(frames) <= Room, frames # <<>>, Pop
    PROVE  /\ Popped = Last(frames).word /\ Popped \in Int
           /\ StackHolds' /\ mem' \in [Ram -> Int] /\ frames' \in Seq(FramesOf(Int))
           /\ Len(frames') = Len(frames) - 1
<1> DEFINE n == Len(frames)
<1>1. sp' = Wrap(sp + 2) /\ frames' = Front(frames) /\ mem' = mem
  BY DEF Pop
<1>2. /\ n \in Nat /\ n # 0 /\ Len(frames') = n - 1 /\ DOMAIN frames = 1..n
      /\ \A i \in 1..(n - 1) : frames'[i] = frames[i]
  BY <1>1, TypedFrames, LeaveFrame, EmptySeq DEF StackTypes
<1>3. frames' \in Seq(FramesOf(Int))
  BY <1>1, <1>2 DEF Front, StackTypes
<1>4. sp = Slot(2 * n) /\ Wrap(sp + 1) = Slot(2 * n - 1) /\ Wrap(sp + 2) = Slot(2 * n - 2)
  BY <1>2, SlotSteps DEF StackHolds
<1>5. Popped = Word(mem, n) /\ Word(mem, n) = frames[n].word
  BY <1>2, <1>4 DEF Popped, Word, StackHolds
<1>6. frames[n] \in FramesOf(Int)
  BY <1>2, ElementOfSeq DEF StackTypes
<1>7. Popped \in Int /\ Popped = Last(frames).word
  BY <1>5, <1>6 DEF FramesOf, Last
<1> HIDE DEF n
<1>8. sp' = Slot(2 * Len(frames'))
  <2>1. 2 * Len(frames') = 2 * n - 2
    BY <1>2
  <2>2. QED
    BY <1>1, <1>4, <2>1
<1>9. \A i \in 1..Len(frames') : frames'[i].word = Word(mem', i)
  BY <1>1, <1>2 DEF StackHolds, n
<1>10. QED
  BY <1>1, <1>2, <1>3, <1>7, <1>8, <1>9 DEF StackHolds, StackTypes, n

\* OpenHolds: EI changes no word.
LEMMA OpenHolds ==
    ASSUME StackTypes, StackHolds, UNCHANGED <<sp, mem>>,
           frames' = [i \in DOMAIN frames |->
                         IF Innermost(i) THEN [frames[i] EXCEPT !.opened = TRUE] ELSE frames[i]]
    PROVE  /\ StackHolds' /\ frames' \in Seq(FramesOf(Int)) /\ Len(frames') = Len(frames)
           /\ Handlers(frames') = Handlers(frames)
<1>1. DOMAIN frames = 1..Len(frames) /\ Len(frames) \in Nat
  BY TypedFrames
<1>2. ASSUME NEW i \in 1..Len(frames)
      PROVE  /\ frames'[i] \in FramesOf(Int)
             /\ frames'[i].kind = frames[i].kind /\ frames'[i].word = frames[i].word
  <2>1. frames[i] \in FramesOf(Int)
    BY ElementOfSeq DEF StackTypes
  <2>2. frames'[i] \in {frames[i], [frames[i] EXCEPT !.opened = TRUE]}
    BY <1>1
  <2> DEFINE before == frames[i]
             after == frames'[i]
  <2>3. after \in FramesOf(Int) /\ after.kind = before.kind /\ after.word = before.word
    <3>1. before \in FramesOf(Int) /\ after \in {before, [before EXCEPT !.opened = TRUE]}
      BY <2>1, <2>2
    <3> HIDE DEF before, after
    <3>2. CASE after = before
      BY <3>1, <3>2
    <3>3. CASE after = [before EXCEPT !.opened = TRUE]
      BY <3>1, <3>3, Opened
    <3>4. QED
      BY <3>1, <3>2, <3>3
  <2>4. QED
    BY <2>3
<1>3. DOMAIN frames' = 1..Len(frames)
  BY <1>1
<1>4. frames' \in [1..Len(frames) -> FramesOf(Int)]
  BY <1>1, <1>2
<1>5. frames' \in Seq(FramesOf(Int)) /\ Len(frames') = Len(frames)
  BY <1>1, <1>3, <1>4, SeqDef, LenProperties
<1>6. {i \in DOMAIN frames' : frames'[i].kind = "handler"}
         = {i \in DOMAIN frames : frames[i].kind = "handler"}
  BY <1>1, <1>2, <1>3
<1>7. Handlers(frames') = Handlers(frames)
  BY <1>6 DEF Handlers
<1>8. StackHolds'
  BY <1>2, <1>5 DEF StackHolds, Word
<1>9. QED
  BY <1>5, <1>7, <1>8

\* FetchedIsSensible: an instruction is fetched that the game may execute.
LEMMA FetchedIsSensible ==
    ASSUME at'.op \in {"idle", "other"} \/ Sensible(at'.op, frames')
    PROVE  StackFetch'
<1>1. CASE at'.op \in {"idle", "other"}
  BY <1>1 DEF StackFetch
<1>2. CASE Sensible(at'.op, frames')
  BY <1>2 DEF StackFetch, Sensible, Last
<1>3. QED
  BY <1>1, <1>2

\* Every step keeps the words of the frames on the stack.
LEMMA StackNext ==
    ASSUME Inv, StackInv, [Next]_vars
    PROVE  StackInv'
<1> USE DEF StackInv
<1>1. /\ FramesType /\ Len(frames) \in Nat /\ Handlers(frames) \in Nat
      /\ 2 * Len(frames) <= Room
      /\ (Handlers(frames) < MaxDepth \/ Len(frames) - Handlers(frames) < MaxCalls
             => 2 * Len(frames) < Room)
      /\ enable \in BOOLEAN /\ MaxDepth \in Nat /\ MaxCalls \in Nat
  BY TypedFrames, RoomLeft, ProcessorAssumption DEF Inv, TypeInv
<1>2. \A x \in Int : Wrap(x) \in Int
  BY SlotIs DEF Wrap
<1>3. ASSUME at'.op \in {"cycle", "modified"}
      PROVE  StackFetch'
  BY <1>3 DEF StackFetch
<1>4. ASSUME UNCHANGED <<sp, mem, frames>>, pc' \in Int, pair' \in Int, at'.args \in Int
      PROVE  StackTypes' /\ StackHolds'
  BY <1>4 DEF StackTypes, StackHolds, Word
<1>5. CASE Cycle
  <2>1. /\ pc' \in Int /\ pair' \in Int /\ at'.args \in Int
        /\ at'.op \in {"idle", "other"} \/ Sensible(at'.op, frames')
    <3>1. pair' = pair /\ pair \in Int /\ pc \in Int
      BY <1>5 DEF Cycle, StackTypes
    <3>2. CASE halted /\ ~Interrupted
      BY <1>5, <3>1, <3>2 DEF Cycle, In
    <3>3. CASE ~(halted /\ ~Interrupted)
      <4>1. PICK next, i : /\ next \in DOMAIN Code /\ i \in Code[next] /\ Sensible(i.op, frames')
                           /\ at' \in {[op |-> i.op, args |-> i.args], In("other")}
                           /\ pc' = Wrap(next + Length[i.op])
        BY <1>5, <3>3 DEF Cycle
      <4>2. next \in Int /\ i.args \in Int
        BY <4>1, ProcessorAssumption, SlotIs DEF Addresses
      <4>3. Length[i.op] \in Int
        <5>1. i.op \in DOMAIN Length
          BY <4>1 DEF Sensible, Instructions
        <5>2. \A op \in DOMAIN Length : Length[op] \in Int
          BY DEF Length
        <5>3. QED
          BY <5>1, <5>2
      <4>4. pc' \in Int
        BY <1>2, <4>1, <4>2, <4>3
      <4>5. QED
        BY <3>1, <4>1, <4>2, <4>4 DEF In
    <3>4. QED
      BY <3>2, <3>3
  <2>2. StackFetch'
    BY <2>1, FetchedIsSensible
  <2>3. CASE Interrupted /\ enable
    <3>1. Push(pc) /\ frames' = Append(frames, Frame("handler", pc)) /\ enable' = FALSE
      BY <1>5, <2>3 DEF Cycle, Dispatch
    <3>2. Handlers(frames) < MaxDepth
      BY <2>3 DEF StackBounds
    <3>3. /\ StackHolds' /\ mem' \in [Ram -> Int] /\ frames' \in Seq(FramesOf(Int))
          /\ Len(frames') = Len(frames) + 1
      BY <1>1, <3>1, <3>2, PushHolds DEF StackTypes
    <3>4. Handlers(frames') = Handlers(frames) + 1
      BY <1>1, <3>1, EnterCount
    <3>5. StackBounds'
      BY <1>1, <3>1, <3>2, <3>3, <3>4 DEF StackBounds
    <3>6. QED
      BY <2>1, <2>2, <3>3, <3>5 DEF StackTypes
  <2>4. CASE ~(Interrupted /\ enable)
    <3>1. UNCHANGED <<sp, mem, frames, enable>>
      BY <1>5, <2>4 DEF Cycle, Dispatch
    <3>2. QED
      BY <1>4, <2>1, <2>2, <3>1 DEF StackBounds
  <2>5. QED
    BY <2>3, <2>4
<1>6. CASE Raise
  <2>1. UNCHANGED <<at, pc, sp, pair, mem, frames, enable>>
    BY <1>6 DEF Raise, flowVars
  <2>2. QED
    BY <2>1, <1>4 DEF StackBounds, StackTypes, StackFetch
<1>7. CASE EnableInterrupts
  <2>1. /\ UNCHANGED <<pc, sp, pair, mem>> /\ at.op = "EI" /\ at'.op = "cycle" /\ at'.args = 0
        /\ frames' = [i \in DOMAIN frames |->
                         IF Innermost(i) THEN [frames[i] EXCEPT !.opened = TRUE] ELSE frames[i]]
    BY <1>7 DEF EnableInterrupts, Executes, Between, In
  <2>2. /\ StackHolds' /\ frames' \in Seq(FramesOf(Int)) /\ Len(frames') = Len(frames)
        /\ Handlers(frames') = Handlers(frames)
    BY <2>1, OpenHolds
  <2>3. StackBounds'
    BY <2>1, <2>2 DEF StackBounds, StackFetch
  <2>4. QED
    BY <1>3, <2>1, <2>2, <2>3 DEF StackTypes
<1>8. CASE Call \/ PushPair
  <2>1. PICK kind \in {"call", "saved"}, word \in Int :
           Push(word) /\ frames' = Append(frames, Frame(kind, word))
    BY <1>8 DEF Call, PushPair, StackTypes
  <2>2. /\ pc' \in Int /\ pair' = pair /\ UNCHANGED enable /\ at'.op = "cycle" /\ at'.args = 0
        /\ at.op \in {"CALL", "RST", "PUSH"}
    BY <1>8 DEF Call, PushPair, Executes, Between, In, interruptVars, StackTypes
  <2>3. Len(frames) - Handlers(frames) < MaxCalls
    BY <2>2 DEF StackFetch
  <2>4. /\ StackHolds' /\ mem' \in [Ram -> Int] /\ frames' \in Seq(FramesOf(Int))
        /\ Len(frames') = Len(frames) + 1
    BY <1>1, <2>1, <2>3, PushHolds
  <2>5. Handlers(frames') = Handlers(frames)
    BY <1>1, <2>1, EnterCount
  <2>6. StackBounds'
    BY <1>1, <2>2, <2>3, <2>4, <2>5 DEF StackBounds
  <2>7. QED
    BY <1>3, <2>2, <2>4, <2>6 DEF StackTypes
<1>9. CASE Return \/ PopPair
  <2>1. /\ at.op \in {"RET", "RETI", "POP"} /\ at'.op = "cycle" /\ at'.args = 0
        /\ Pop /\ pc' \in {pc, Popped} /\ pair' \in {pair, Popped}
        /\ UNCHANGED enable \/ (at.op = "RETI" /\ enable' = TRUE)
    BY <1>9 DEF Return, PopPair, Executes, Between, In, interruptVars
  <2>2. frames # <<>>
    BY <2>1 DEF Inv, FetchInv
  <2>3. /\ Popped \in Int /\ StackHolds' /\ mem' \in [Ram -> Int]
        /\ frames' \in Seq(FramesOf(Int)) /\ Len(frames') = Len(frames) - 1
    BY <1>1, <2>1, <2>2, PopHolds
  <2>4. Handlers(frames') = Handlers(frames) - (IF IsHandler(Len(frames)) THEN 1 ELSE 0)
    BY <1>1, <2>1, <2>2, LeaveCount DEF Pop
  <2>5. at.op = "RETI" => IsHandler(Len(frames))
    BY DEF Inv, FetchInv
  <2>6. StackBounds'
    BY <1>1, <2>1, <2>3, <2>4, <2>5 DEF StackBounds
  <2>7. QED
    BY <1>3, <2>1, <2>3, <2>6 DEF StackTypes
<1>10. CASE \/ Idle \/ Other \/ Halt \/ Jump \/ LoadPair \/ StoreMask \/ DisableInterrupts
            \/ StoreFlags \/ WriteFlags \/ ReadFlags
  <2>1. /\ UNCHANGED <<sp, mem, frames>> /\ (UNCHANGED enable \/ enable' = FALSE)
        /\ at'.op \in {"cycle", "modified"} /\ at'.args = 0
    BY <1>10 DEF Idle, Other, Halt, Jump, LoadPair, StoreMask, DisableInterrupts, StoreFlags,
        WriteFlags, ReadFlags, Executes, Between, In, flowVars, interruptVars
  <2>2. pair' \in Int
    BY <1>10 DEF Idle, Other, Halt, Jump, LoadPair, StoreMask, DisableInterrupts, StoreFlags,
        WriteFlags, ReadFlags, flowVars, StackTypes
  <2>3. pc' \in Int
    <3>1. CASE Jump
      <4>1. BYTE \in Int /\ pc \in Int /\ at.args \in Int /\ pair \in Int
        BY ProcessorAssumption DEF StackTypes
      <4>2. pc + at.args - (IF 2 * at.args >= BYTE THEN BYTE ELSE 0) \in Int
        BY <4>1
      <4>3. QED
        BY <1>2, <3>1, <4>1, <4>2 DEF Jump
    <3>2. CASE ~Jump
      BY <1>10, <3>2 DEF Idle, Other, Halt, LoadPair, StoreMask, DisableInterrupts, StoreFlags,
          WriteFlags, ReadFlags, flowVars, StackTypes
    <3>3. QED
      BY <3>1, <3>2
  <2>4. StackBounds'
    BY <2>1 DEF StackBounds
  <2>5. QED
    BY <1>3, <1>4, <2>1, <2>2, <2>3, <2>4
<1>11. CASE UNCHANGED vars
  <2>1. UNCHANGED <<at, pc, sp, pair, mem, frames, enable>>
    BY <1>11 DEF vars, flowVars, interruptVars
  <2>2. QED
    BY <2>1, <1>4 DEF StackBounds, StackTypes, StackFetch
<1>12. QED
  BY <1>5, <1>6, <1>7, <1>8, <1>9, <1>10, <1>11 DEF Next, Instruction

LEMMA StackInit == Init => StackInv
<1> SUFFICES ASSUME Init PROVE StackInv
  OBVIOUS
<1>1. frames = <<>> /\ Len(frames) = 0 /\ frames \in Seq(FramesOf(Int))
  BY EmptySeq DEF Init
<1>2. Handlers(frames) = 0
  <2>1. {i \in DOMAIN frames : frames[i].kind = "handler"} = {}
    BY <1>1
  <2>2. QED
    BY <2>1, FS_EmptySet DEF Handlers
<1>3. StackTypes
  BY <1>1 DEF Init, StackTypes, Between, In
<1>4. StackBounds
  BY <1>1, <1>2, ProcessorAssumption DEF StackBounds
<1>5. StackHolds
  <2>1. Slot(0) = StackTop
    BY SlotIs
  <2>2. QED
    BY <1>1, <2>1 DEF Init, StackHolds
<1>6. StackFetch
  BY DEF Init, StackFetch, Between, In
<1>7. QED
  BY <1>3, <1>4, <1>5, <1>6 DEF StackInv

\* In a game whose stack has room, every return goes back behind its call or to the
\* instruction that was interrupted, and every POP restores what was pushed, through any
\* nesting of handlers, routines and saved words (push(), pop(), call(), rst(), ret(),
\* interrupt()).
THEOREM ReturnsDoRestore == Spec => ReturnsRestore
<1>1. Inv /\ StackInv /\ [Next]_vars => Inv' /\ StackInv'
  BY InvNext, StackNext
<1>2. Inv /\ StackInv /\ [Next]_vars =>
         [Len(frames') < Len(frames) =>
             IF Last(frames).kind = "saved" THEN pair' = Last(frames).word
                                            ELSE pc' = Last(frames).word]_vars
  <2> SUFFICES ASSUME Inv, StackInv, Next, Len(frames') < Len(frames)
               PROVE  IF Last(frames).kind = "saved" THEN pair' = Last(frames).word
                                                     ELSE pc' = Last(frames).word
    OBVIOUS
  <2>1. StackTypes /\ Len(frames) \in Nat /\ StackHolds /\ 2 * Len(frames) <= Room
        /\ FramesType
    BY TypedFrames, RoomLeft DEF StackInv
  <2>2. Return \/ PopPair
    <3>1. CASE Cycle
      <4>1. frames' = frames \/ frames' = Append(frames, Frame("handler", pc))
        BY <3>1 DEF Cycle, Dispatch
      <4>2. Len(frames') \in {Len(frames), Len(frames) + 1}
        BY <2>1, <4>1, EnterFrame
      <4>3. QED
        BY <2>1, <4>2
    <3>2. CASE Call \/ PushPair
      <4>1. PICK kind \in {"call", "saved"}, word \in {pc, pair} :
               frames' = Append(frames, Frame(kind, word))
        BY <3>2 DEF Call, PushPair
      <4>2. Len(frames') = Len(frames) + 1
        BY <2>1, <4>1, EnterFrame
      <4>3. QED
        BY <2>1, <4>2
    <3>3. CASE EnableInterrupts
      <4>1. Len(frames') = Len(frames)
        BY <2>1, <3>3, OpenHolds DEF EnableInterrupts
      <4>2. QED
        BY <2>1, <4>1
    <3>4. CASE \/ Raise \/ Idle \/ Other \/ Halt \/ Jump \/ LoadPair \/ StoreMask
               \/ DisableInterrupts \/ StoreFlags \/ WriteFlags \/ ReadFlags
      <4>1. frames' = frames
        BY <3>4 DEF Raise, Idle, Other, Halt, Jump, LoadPair, StoreMask, DisableInterrupts,
            StoreFlags, WriteFlags, ReadFlags, flowVars
      <4>2. QED
        BY <2>1, <4>1
    <3>5. QED
      BY <3>1, <3>2, <3>3, <3>4 DEF Next, Instruction
  <2>3. Pop
    BY <2>2 DEF Return, PopPair
  <2>4. frames # <<>>
    BY <2>2 DEF Return, PopPair, Executes, Inv, FetchInv
  <2>5. Popped = Last(frames).word
    BY <2>1, <2>3, <2>4, PopHolds
  <2>6. Last(frames).kind = "saved" <=> PopPair
    <3>1. CASE PopPair
      BY <3>1 DEF PopPair, Executes, StackInv, StackFetch, Last
    <3>2. CASE Return
      BY <3>2 DEF Return, PopPair, Executes, StackInv, StackFetch, Last
    <3>3. QED
      BY <2>2, <3>1, <3>2
  <2>7. QED
    BY <2>2, <2>5, <2>6 DEF Return, PopPair
<1>3. QED
  BY <1>1, <1>2, InitInv, StackInit, PTL DEF Spec, ReturnsRestore

-----------------------------------------------------------------------------
(* The arithmetic (Alu), for all bytes, flags and operands.  What an       *)
(* instruction returns is stated by fields; the rest is about integers.    *)

\* Carry: the carry that an instruction takes along.
Carry(bits, carry) == One(carry /\ bits.c)

LEMMA CarryType == \A bits, carry : Carry(bits, carry) \in 0..1
  BY DEF Carry, One

\* AddFields: what add8() returns, with the carry k.
AddIs(r, x, y, k) ==
    /\ r.v = (x + y + k) % 256 /\ r.f.n = FALSE
    /\ r.f.h <=> (x % 16) + (y % 16) + k > 15
    /\ r.f.c <=> x + y + k > 255
LEMMA AddFields ==
    ASSUME NEW x, NEW y, NEW bits, NEW carry
    PROVE  AddIs(Add8(x, y, bits, carry), x, y, Carry(bits, carry))
  BY DEF Add8, Result, Carry, AddIs

\* SubFields: what sub8() and sbc() return.
SubIs(r, x, y, k) ==
    /\ r.v = (x - (y + k)) % 256 /\ r.f.n = TRUE
    /\ r.f.z <=> (x - (y + k)) % 256 = 0
    /\ r.f.h <=> x % 16 < (y % 16) + k
    /\ r.f.c <=> x < y + k
LEMMA SubFields ==
    ASSUME NEW x, NEW y, NEW bits, NEW carry
    PROVE  SubIs(Sub8(x, y, bits, carry), x, y, Carry(bits, carry))
  BY DEF Sub8, Result, Carry, SubIs

\* DaaFields: what daa() returns.
LowDigit(x, bits) ==
    IF bits.n THEN IF bits.h THEN (x - 6) % 256 ELSE x
    ELSE IF bits.h \/ x % 16 > 9 THEN x + 6 ELSE x
BothDigits(x, bits) ==
    IF bits.n THEN IF bits.c THEN (LowDigit(x, bits) - 96) % 65536 ELSE LowDigit(x, bits)
    ELSE IF bits.c \/ LowDigit(x, bits) > 159 THEN LowDigit(x, bits) + 96
         ELSE LowDigit(x, bits)
LEMMA DaaFields ==
    ASSUME NEW x, NEW bits
    PROVE  /\ Daa(x, bits).v = BothDigits(x, bits) % 256
           /\ Daa(x, bits).f.c <=> bits.c \/ BothDigits(x, bits) >= 256
<1> DEFINE value == BothDigits(x, bits)
           result == Result(value % 256, value % 256 = 0, bits.n, FALSE, bits.c \/ value >= 256)
<1>1. Daa(x, bits) = result
  BY SMT DEF Daa, LowDigit, BothDigits
<1>2. result.v = value % 256 /\ (result.f.c <=> bits.c \/ value >= 256)
  <2> HIDE DEF value
  <2>1. QED
    BY DEF Result
<1> HIDE DEF value, result
<1>3. QED
  BY <1>1, <1>2, Zenon DEF value

\* BytesOf: the bytes, and the digits in them.
LEMMA BytesOf ==
    /\ \A x \in 0..255 : x \div 16 \in 0..15 /\ x % 16 \in 0..15
                            /\ x = 16 * (x \div 16) + (x % 16)
    /\ \A h \in 0..15, l \in 0..15 : (16 * h + l) \div 16 = h /\ (16 * h + l) % 16 = l
    /\ \A n \in Int : /\ 0 <= n /\ n < 256 => n % 256 = n
                      /\ 256 <= n /\ n < 512 => n % 256 = n - 256
                      /\ 0 - 256 <= n /\ n < 0 => n % 256 = n + 256
  OBVIOUS

\* What DAA has to make of a sum and of a difference.
SumIsRight(x, y, bits, carry) ==
    LET added == Add8(x, y, bits, carry)  sum == Daa(added.v, added.f)
    IN /\ IsDecimal(sum.v)
       /\ Decimal(sum.v) + 100 * One(sum.f.c) = Decimal(x) + Decimal(y) + Carry(bits, carry)
DifferenceIsRight(x, y, bits, carry) ==
    LET taken == Sub8(x, y, bits, carry)  rest == Daa(taken.v, taken.f)
    IN /\ IsDecimal(rest.v)
       /\ Decimal(rest.v) - 100 * One(rest.f.c) = Decimal(x) - Decimal(y) - Carry(bits, carry)

\* DecimalSum: DAA after an addition of two decimal bytes.
LEMMA DecimalSum ==
    ASSUME NEW x \in 0..255, NEW y \in 0..255, IsDecimal(x), IsDecimal(y), NEW bits, NEW carry
    PROVE  SumIsRight(x, y, bits, carry)
<1> DEFINE k == Carry(bits, carry)
           added == Add8(x, y, bits, carry)
           sum == Daa(added.v, added.f)
           s == x + y + k
           v == added.v
           low == LowDigit(added.v, added.f)
           value == BothDigits(added.v, added.f)
           ones == (x % 16) + (y % 16) + k
           tens == (x \div 16) + (y \div 16)
           one == IF ones > 9 THEN 1 ELSE 0
           hundred == IF tens + one > 9 THEN 1 ELSE 0
           h == tens + one - 10 * hundred
           l == ones - 10 * one
<1>1. /\ v = s % 256 /\ added.f.n = FALSE
      /\ added.f.h <=> ones > 15
      /\ added.f.c <=> s > 255
  <2>1. AddIs(added, x, y, k)
    BY AddFields
  <2> HIDE DEF added, k
  <2>2. QED
    BY <2>1 DEF AddIs
<1>2. sum.v = value % 256 /\ (sum.f.c <=> added.f.c \/ value >= 256)
  BY DaaFields
<1>3. low = IF added.f.h \/ v % 16 > 9 THEN v + 6 ELSE v
  BY <1>1 DEF LowDigit
<1>4. value = IF added.f.c \/ low > 159 THEN low + 96 ELSE low
  BY <1>1 DEF BothDigits
<1>5. ones \in 0..19 /\ tens \in 0..18 /\ s = 16 * tens + ones
  BY BytesOf, CarryType DEF IsDecimal
<1>6. Decimal(x) + Decimal(y) + k = 10 * tens + ones
  BY BytesOf, CarryType DEF Decimal
<1> HIDE DEF ones, tens, low, value, v, sum, added, s, k
<1>7. /\ h \in 0..9 /\ l \in 0..9 /\ 10 * tens + ones = 100 * hundred + 10 * h + l
      /\ hundred \in 0..1
  BY <1>5
<1>8. v = IF s > 255 THEN s - 256 ELSE s
  BY <1>1, <1>5, BytesOf
<1>9. low = IF ones > 9 THEN v + 6 ELSE v
  <2>1. (ones > 15 \/ v % 16 > 9) <=> ones > 9
    BY <1>5, <1>8
  <2>2. QED
    BY <1>1, <1>3, <2>1
<1>10. value % 256 = 16 * h + l /\ ((s > 255 \/ value >= 256) <=> hundred = 1)
  <2>0. value = IF s > 255 \/ low > 159 THEN low + 96 ELSE low
    BY <1>1, <1>4
  <2>1. CASE ones <= 9
    BY <1>5, <1>8, <1>9, <2>0, <2>1
  <2>2. CASE ones > 9
    BY <1>5, <1>8, <1>9, <2>0, <2>2
  <2>3. QED
    BY <1>5, <2>1, <2>2
<1> HIDE DEF h, l, hundred
<1>11. sum.v = 16 * h + l /\ One(sum.f.c) = hundred
  BY <1>1, <1>2, <1>7, <1>10 DEF One
<1>12. IsDecimal(sum.v) /\ Decimal(sum.v) = 10 * h + l
  BY <1>7, <1>11, BytesOf DEF IsDecimal, Decimal
<1>13. QED
  BY <1>6, <1>7, <1>11, <1>12 DEF SumIsRight, sum, added, k

\* DecimalDifference: DAA after a subtraction.
LEMMA DecimalDifference ==
    ASSUME NEW x \in 0..255, NEW y \in 0..255, IsDecimal(x), IsDecimal(y), NEW bits, NEW carry
    PROVE  DifferenceIsRight(x, y, bits, carry)
<1> DEFINE k == Carry(bits, carry)
           taken == Sub8(x, y, bits, carry)
           rest == Daa(taken.v, taken.f)
           s == x - (y + k)
           v == taken.v
           low == LowDigit(taken.v, taken.f)
           value == BothDigits(taken.v, taken.f)
           ones == (x % 16) - (y % 16) - k
           tens == (x \div 16) - (y \div 16)
           one == IF ones < 0 THEN 1 ELSE 0
           hundred == IF tens - one < 0 THEN 1 ELSE 0
           h == tens - one + 10 * hundred
           l == ones + 10 * one
<1>1. /\ v = s % 256 /\ taken.f.n = TRUE
      /\ taken.f.h <=> x % 16 < (y % 16) + k
      /\ taken.f.c <=> x < y + k
  <2>1. SubIs(taken, x, y, k)
    BY SubFields
  <2> HIDE DEF taken, k
  <2>2. QED
    BY <2>1 DEF SubIs
<1>2. rest.v = value % 256 /\ (rest.f.c <=> taken.f.c \/ value >= 256)
  BY DaaFields
<1>3. low = IF taken.f.h THEN (v - 6) % 256 ELSE v
  BY <1>1 DEF LowDigit
<1>4. value = IF taken.f.c THEN (low - 96) % 65536 ELSE low
  BY <1>1 DEF BothDigits
<1>5. /\ ones \in (0 - 10)..9 /\ tens \in (0 - 9)..9 /\ s = 16 * tens + ones
      /\ x % 16 < (y % 16) + k <=> ones < 0
      /\ x < y + k <=> s < 0
  BY BytesOf, CarryType DEF IsDecimal
<1>6. Decimal(x) - Decimal(y) - k = 10 * tens + ones
  BY BytesOf, CarryType DEF Decimal
<1> HIDE DEF ones, tens, low, value, v, rest, taken, s, k
<1>7. /\ h \in 0..9 /\ l \in 0..9 /\ 10 * tens + ones = 10 * h + l - 100 * hundred
      /\ hundred \in 0..1
  BY <1>5
<1>8. v = IF s < 0 THEN s + 256 ELSE s
  BY <1>1, <1>5, BytesOf
<1>9. low = IF ones < 0 THEN (v - 6) % 256 ELSE v
  BY <1>1, <1>3, <1>5
<1>10. value % 256 = 16 * h + l /\ ((s < 0 \/ value >= 256) <=> hundred = 1)
  <2>0. value = IF s < 0 THEN (low - 96) % 65536 ELSE low
    BY <1>1, <1>4, <1>5
  <2>1. CASE ones >= 0
    BY <1>5, <1>8, <1>9, <2>0, <2>1
  <2>2. CASE ones < 0
    BY <1>5, <1>8, <1>9, <2>0, <2>2
  <2>3. QED
    BY <1>5, <2>1, <2>2
<1> HIDE DEF h, l, hundred
<1>11. rest.v = 16 * h + l /\ One(rest.f.c) = hundred
  BY <1>1, <1>2, <1>5, <1>7, <1>10 DEF One
<1>12. IsDecimal(rest.v) /\ Decimal(rest.v) = 10 * h + l
  BY <1>7, <1>11, BytesOf DEF IsDecimal, Decimal
<1>13. QED
  BY <1>6, <1>7, <1>11, <1>12 DEF DifferenceIsRight, rest, taken, k

\* Whole: an instruction returns a byte and four flags.
Whole(r) == r.v \in Byte /\ r.f \in Flags

\* Logic: the bits that AND, OR and XOR make, and bytes made of bits.
LEMMA Logic ==
    /\ \A p, q \in 0..1 : p * q \in 0..1 /\ p + q - p * q \in 0..1 /\ (p + q) % 2 \in 0..1
                             /\ p + q - p * q = ((p + q) % 2) + p * q
    /\ \A b0, b1, b2, b3, b4, b5, b6, b7 \in 0..1 :
          b0 + 2 * b1 + 4 * b2 + 8 * b3 + 16 * b4 + 32 * b5 + 64 * b6 + 128 * b7 \in Byte
  BY DEF Byte

\* Bits: the bits of a byte, by their weights.
LEMMA Bits ==
    ASSUME NEW x \in Byte
    PROVE  /\ BitOf(x, 0) = x % 2 /\ BitOf(x, 1) = (x \div 2) % 2
           /\ BitOf(x, 2) = (x \div 4) % 2 /\ BitOf(x, 3) = (x \div 8) % 2
           /\ BitOf(x, 4) = (x \div 16) % 2 /\ BitOf(x, 5) = (x \div 32) % 2
           /\ BitOf(x, 6) = (x \div 64) % 2 /\ BitOf(x, 7) = (x \div 128) % 2
           /\ x = BitOf(x, 0) + 2 * BitOf(x, 1) + 4 * BitOf(x, 2) + 8 * BitOf(x, 3)
                  + 16 * BitOf(x, 4) + 32 * BitOf(x, 5) + 64 * BitOf(x, 6) + 128 * BitOf(x, 7)
           /\ \A i \in 0..7 : BitOf(x, i) \in 0..1
<1>1. /\ Weight[1] = 1 /\ Weight[2] = 2 /\ Weight[3] = 4 /\ Weight[4] = 8
      /\ Weight[5] = 16 /\ Weight[6] = 32 /\ Weight[7] = 64 /\ Weight[8] = 128
  BY DEF Weight
<1>2. /\ BitOf(x, 0) = x % 2 /\ BitOf(x, 1) = (x \div 2) % 2
      /\ BitOf(x, 2) = (x \div 4) % 2 /\ BitOf(x, 3) = (x \div 8) % 2
      /\ BitOf(x, 4) = (x \div 16) % 2 /\ BitOf(x, 5) = (x \div 32) % 2
      /\ BitOf(x, 6) = (x \div 64) % 2 /\ BitOf(x, 7) = (x \div 128) % 2
  BY <1>1 DEF BitOf, Byte
<1>3. x = (x % 2) + 2 * ((x \div 2) % 2) + 4 * ((x \div 4) % 2) + 8 * ((x \div 8) % 2)
                  + 16 * ((x \div 16) % 2) + 32 * ((x \div 32) % 2) + 64 * ((x \div 64) % 2)
                  + 128 * ((x \div 128) % 2)
  BY DEF Byte
<1>4. \A i \in 0..7 : BitOf(x, i) \in 0..1
  <2>1. \A n \in Int : n % 2 \in 0..1
    OBVIOUS
  <2>2. /\ x \in Int
        /\ \A i \in 0..7 : \/ i = 0 \/ i = 1 \/ i = 2 \/ i = 3
                           \/ i = 4 \/ i = 5 \/ i = 6 \/ i = 7
    BY DEF Byte
  <2>3. /\ x % 2 \in 0..1 /\ (x \div 2) % 2 \in 0..1 /\ (x \div 4) % 2 \in 0..1
        /\ (x \div 8) % 2 \in 0..1 /\ (x \div 16) % 2 \in 0..1 /\ (x \div 32) % 2 \in 0..1
        /\ (x \div 64) % 2 \in 0..1 /\ (x \div 128) % 2 \in 0..1
    BY <2>1, <2>2
  <2>4. QED
    BY <1>2, <2>2, <2>3
<1>5. QED
  BY <1>2, <1>3, <1>4

\* WholeSums: the instructions that add, subtract and compare.
LEMMA WholeSums ==
    ASSUME NEW x \in Byte, NEW y \in Byte, NEW bits \in Flags, NEW carry \in BOOLEAN
    PROVE  /\ Whole(Add8(x, y, bits, carry)) /\ Whole(Sub8(x, y, bits, carry))
           /\ Whole(Compare(x, y)) /\ Whole(Inc(x, bits)) /\ Whole(Dec(x, bits))
<1>1. Whole(Add8(x, y, bits, carry))
  BY DEF Add8, Result, Whole, Byte, Flags, One
<1>2. Whole(Sub8(x, y, bits, carry))
  BY DEF Sub8, Result, Whole, Byte, Flags, One
<1>3. Whole(Compare(x, y))
  BY DEF Compare, Result, Whole, Byte, Flags
<1>4. Whole(Inc(x, bits)) /\ Whole(Dec(x, bits))
  BY DEF Inc, Dec, Result, Whole, Byte, Flags
<1>5. QED
  BY <1>1, <1>2, <1>3, <1>4

\* WholeTurns: those that rotate, shift, and change flags.
LEMMA WholeTurns ==
    ASSUME NEW x \in Byte, NEW bits \in Flags, NEW wrap \in BOOLEAN, NEW ignore \in BOOLEAN
    PROVE  /\ Whole(RotateL(x, bits, wrap, ignore)) /\ Whole(RotateR(x, bits, wrap, ignore))
           /\ Whole(Rlc(x, ignore)) /\ Whole(Rrc(x, ignore))
           /\ Whole(Sra(x)) /\ Whole(Swap(x))
           /\ Whole(Complement(x, bits)) /\ Whole(Scf(x, bits)) /\ Whole(Ccf(x, bits))
<1>1. Whole(RotateL(x, bits, wrap, ignore)) /\ Whole(RotateR(x, bits, wrap, ignore))
  BY DEF RotateL, RotateR, Result, Whole, Byte, Flags, One
<1>2. Whole(Rlc(x, ignore)) /\ Whole(Rrc(x, ignore))
  BY DEF Rlc, Rrc, Result, Whole, Byte, Flags
<1>3. Whole(Sra(x)) /\ Whole(Swap(x))
  BY DEF Sra, Swap, Result, Whole, Byte, Flags
<1>4. Whole(Complement(x, bits)) /\ Whole(Scf(x, bits)) /\ Whole(Ccf(x, bits))
  BY DEF Complement, Scf, Ccf, Result, Whole, Byte, Flags
<1>5. QED
  BY <1>1, <1>2, <1>3, <1>4

\* Fits: a byte and four flags make a whole result.
LEMMA Fits ==
    ASSUME NEW v \in Byte, NEW z \in BOOLEAN, NEW n \in BOOLEAN, NEW h \in BOOLEAN,
           NEW c \in BOOLEAN
    PROVE  Whole(Result(v, z, n, h, c)) /\ Result(v, z, n, h, c).v = v
  BY DEF Result, Whole, Flags

\* WholeDaa: daa() drops what exceeds the byte.
LEMMA WholeDaa ==
    ASSUME NEW x \in Byte, NEW bits \in Flags
    PROVE  Whole(Daa(x, bits))
<1> DEFINE value == BothDigits(x, bits)
<1>1. LowDigit(x, bits) \in Int
  BY DEF LowDigit, Byte
<1>2. value \in Int
  BY <1>1 DEF BothDigits
<1>3. Daa(x, bits) = Result(value % 256, value % 256 = 0, bits.n, FALSE,
                            bits.c \/ value >= 256)
  BY SMT DEF Daa, LowDigit, BothDigits
<1> HIDE DEF value
<1>4. value % 256 \in Byte /\ bits.n \in BOOLEAN /\ bits.c \in BOOLEAN
  BY <1>2 DEF Byte, Flags
<1> DEFINE byte == value % 256
           zero == value % 256 = 0
           over == bits.c \/ value >= 256
<1>5. Whole(Result(byte, zero, bits.n, FALSE, over))
  <2>1. zero \in BOOLEAN
    OBVIOUS
  <2>2. over \in BOOLEAN
    BY <1>2, <1>4
  <2>3. byte \in Byte /\ bits.n \in BOOLEAN
    BY <1>4
  <2> HIDE DEF byte, zero, over
  <2>4. QED
    BY <2>1, <2>2, <2>3, Fits, Zenon
<1>6. QED
  BY <1>3, <1>5

\* WholeLogic: and8(), or8() and xor8().
LEMMA WholeLogic ==
    ASSUME NEW x \in Byte, NEW y \in Byte
    PROVE  /\ Whole(And8(x, y)) /\ Whole(Or8(x, y)) /\ Whole(Xor8(x, y))
           /\ Or8(x, y).v = Xor8(x, y).v + And8(x, y).v
           /\ And8(x, y).v = Bitwise8(LAMBDA p, q : p * q, x, y)
           /\ Or8(x, y).v = Bitwise8(LAMBDA p, q : p + q - p * q, x, y)
<1> DEFINE both == Bitwise8(LAMBDA p, q : p * q, x, y)
           some == Bitwise8(LAMBDA p, q : p + q - p * q, x, y)
           one == Bitwise8(LAMBDA p, q : (p + q) % 2, x, y)
<1>1. \A i \in 0..7 : BitOf(x, i) \in 0..1 /\ BitOf(y, i) \in 0..1
  BY Bits
<1> DEFINE P(i) == BitOf(x, i) * BitOf(y, i)
           Q(i) == BitOf(x, i) + BitOf(y, i) - BitOf(x, i) * BitOf(y, i)
           R(i) == (BitOf(x, i) + BitOf(y, i)) % 2
<1>2. \A i \in 0..7 : P(i) \in 0..1 /\ Q(i) \in 0..1 /\ R(i) \in 0..1 /\ Q(i) = R(i) + P(i)
  BY <1>1, Logic
<1>3. /\ both = P(0) + 2 * P(1) + 4 * P(2) + 8 * P(3) + 16 * P(4)
                + 32 * P(5) + 64 * P(6) + 128 * P(7)
      /\ some = Q(0) + 2 * Q(1) + 4 * Q(2) + 8 * Q(3) + 16 * Q(4)
                + 32 * Q(5) + 64 * Q(6) + 128 * Q(7)
      /\ one = R(0) + 2 * R(1) + 4 * R(2) + 8 * R(3) + 16 * R(4)
               + 32 * R(5) + 64 * R(6) + 128 * R(7)
  BY Zenon DEF Bitwise8
<1> HIDE DEF P, Q, R, both, some, one
<1>4. /\ P(0) \in 0..1 /\ P(1) \in 0..1 /\ P(2) \in 0..1 /\ P(3) \in 0..1
      /\ P(4) \in 0..1 /\ P(5) \in 0..1 /\ P(6) \in 0..1 /\ P(7) \in 0..1
      /\ Q(0) \in 0..1 /\ Q(1) \in 0..1 /\ Q(2) \in 0..1 /\ Q(3) \in 0..1
      /\ Q(4) \in 0..1 /\ Q(5) \in 0..1 /\ Q(6) \in 0..1 /\ Q(7) \in 0..1
      /\ R(0) \in 0..1 /\ R(1) \in 0..1 /\ R(2) \in 0..1 /\ R(3) \in 0..1
      /\ R(4) \in 0..1 /\ R(5) \in 0..1 /\ R(6) \in 0..1 /\ R(7) \in 0..1
      /\ Q(0) = R(0) + P(0) /\ Q(1) = R(1) + P(1) /\ Q(2) = R(2) + P(2) /\ Q(3) = R(3) + P(3)
      /\ Q(4) = R(4) + P(4) /\ Q(5) = R(5) + P(5) /\ Q(6) = R(6) + P(6) /\ Q(7) = R(7) + P(7)
  BY <1>2
<1>5. both \in Byte /\ some \in Byte /\ one \in Byte
  BY <1>3, <1>4, Logic
<1>6. some = one + both
  BY <1>3, <1>4
<1>7. /\ And8(x, y) = Result(both, both = 0, FALSE, TRUE, FALSE)
      /\ Or8(x, y) = Result(some, some = 0, FALSE, FALSE, FALSE)
      /\ Xor8(x, y) = Result(one, one = 0, FALSE, FALSE, FALSE)
  BY Zenon DEF And8, Or8, Xor8, both, some, one
<1>8. /\ Whole(And8(x, y)) /\ And8(x, y).v = both
      /\ Whole(Or8(x, y)) /\ Or8(x, y).v = some
      /\ Whole(Xor8(x, y)) /\ Xor8(x, y).v = one
  <2>1. \A v \in Byte, zero, half \in BOOLEAN :
           LET r == Result(v, zero, FALSE, half, FALSE) IN Whole(r) /\ r.v = v
    BY Fits
  <2>2. (both = 0) \in BOOLEAN /\ (some = 0) \in BOOLEAN /\ (one = 0) \in BOOLEAN
    OBVIOUS
  <2>3. QED
    BY <1>5, <1>7, <2>1, <2>2, Zenon
<1>9. QED
  BY <1>6, <1>8 DEF both, some

\* WholeBits: bit(), set() and res().
LEMMA WholeBits ==
    ASSUME NEW x \in Byte, NEW which \in 0..7, NEW bits \in Flags
    PROVE  Whole(Bit(x, which, bits)) /\ Set(x, which) \in Byte /\ Res(x, which) \in Byte
<1>1. BitOf(x, which) \in 0..1
  BY Bits
<1>2. Whole(Bit(x, which, bits))
  BY <1>1, Fits DEF Bit, Flags
<1>3. Set(x, which) \in Byte /\ Res(x, which) \in Byte
  <2>1. /\ Weight[1] = 1 /\ Weight[2] = 2 /\ Weight[3] = 4 /\ Weight[4] = 8
        /\ Weight[5] = 16 /\ Weight[6] = 32 /\ Weight[7] = 64 /\ Weight[8] = 128
    BY DEF Weight
  <2>2. \/ which = 0 \/ which = 1 \/ which = 2 \/ which = 3
        \/ which = 4 \/ which = 5 \/ which = 6 \/ which = 7
    OBVIOUS
  <2>3. /\ BitOf(x, 0) \in 0..1 /\ BitOf(x, 1) \in 0..1 /\ BitOf(x, 2) \in 0..1
        /\ BitOf(x, 3) \in 0..1 /\ BitOf(x, 4) \in 0..1 /\ BitOf(x, 5) \in 0..1
        /\ BitOf(x, 6) \in 0..1 /\ BitOf(x, 7) \in 0..1
    BY Bits
  <2>4. x = BitOf(x, 0) + 2 * BitOf(x, 1) + 4 * BitOf(x, 2) + 8 * BitOf(x, 3)
            + 16 * BitOf(x, 4) + 32 * BitOf(x, 5) + 64 * BitOf(x, 6) + 128 * BitOf(x, 7)
    BY Bits
  <2>5. QED
    BY <2>1, <2>2, <2>3, <2>4 DEF Set, Res, Byte
<1>4. QED
  BY <1>2, <1>3

\* AluHolds: whatever is executed, the accumulator stays a byte.
LEMMA AluHolds ==
    ASSUME AluTypeOK, [AluNext]_aluVars
    PROVE  AluTypeOK'
<1>1. a \in Byte /\ f \in Flags /\ \A y \in Operands : y \in Byte
  BY OperandsAssumption DEF AluTypeOK, Byte
<1>2. ASSUME NEW r, Whole(r), Execute(r) PROVE AluTypeOK'
  BY <1>2 DEF Execute, Whole, AluTypeOK
<1>3. CASE Arithmetic
  <2>1. ASSUME NEW y \in Operands, NEW carry \in BOOLEAN, Execute(Add8(a, y, f, carry))
        PROVE  AluTypeOK'
    BY <1>1, <1>2, <2>1, WholeSums
  <2>2. ASSUME NEW y \in Operands, Execute(And8(a, y)) \/ Execute(Compare(a, y))
        PROVE  AluTypeOK'
    <3>1. Whole(And8(a, y)) /\ Whole(Compare(a, y))
      BY <1>1, WholeLogic, WholeSums
    <3>2. QED
      BY <1>2, <2>2, <3>1
  <2>3. CASE \/ Execute(Ccf(a, f)) \/ Execute(Complement(a, f)) \/ Execute(Daa(a, f))
             \/ Execute(Dec(a, f)) \/ Execute(Inc(a, f))
    <3>1. /\ Whole(Ccf(a, f)) /\ Whole(Complement(a, f)) /\ Whole(Daa(a, f))
          /\ Whole(Dec(a, f)) /\ Whole(Inc(a, f))
      BY <1>1, WholeTurns, WholeDaa, WholeSums
    <3>2. QED
      BY <1>2, <2>3, <3>1
  <2>4. QED
    BY <1>3, <2>1, <2>2, <2>3 DEF Arithmetic
<1>4. CASE Subtraction
  <2>1. ASSUME NEW y \in Operands, NEW carry \in BOOLEAN, Execute(Sub8(a, y, f, carry))
        PROVE  AluTypeOK'
    BY <1>1, <1>2, <2>1, WholeSums
  <2>2. ASSUME NEW y \in Operands, Execute(Or8(a, y)) \/ Execute(Xor8(a, y)) PROVE AluTypeOK'
    <3>1. Whole(Or8(a, y)) /\ Whole(Xor8(a, y))
      BY <1>1, WholeLogic
    <3>2. QED
      BY <1>2, <2>2, <3>1
  <2>3. CASE Execute(Scf(a, f))
    BY <1>1, <1>2, <2>3, WholeTurns
  <2>4. QED
    BY <1>4, <2>1, <2>2, <2>3 DEF Subtraction
<1>5. CASE RotateA \/ Rotate \/ Shift
  <2>1. \A wrap, ignore \in BOOLEAN :
           /\ Whole(RotateL(a, f, wrap, ignore)) /\ Whole(RotateR(a, f, wrap, ignore))
           /\ Whole(Rlc(a, ignore)) /\ Whole(Rrc(a, ignore)) /\ Whole(Sra(a)) /\ Whole(Swap(a))
    BY <1>1, WholeTurns
  <2>2. QED
    BY <1>2, <1>5, <2>1 DEF RotateA, Rotate, Shift
<1>6. CASE TestBit
  <2>1. PICK which \in 0..7 : Execute(Bit(a, which, f))
    BY <1>6 DEF TestBit
  <2>2. QED
    BY <1>1, <1>2, <2>1, WholeBits
<1>7. CASE ResetBit \/ SetBit
  <2>1. PICK which \in 0..7 : (a' = Res(a, which) \/ a' = Set(a, which)) /\ f' = f
    BY <1>7 DEF ResetBit, SetBit
  <2>2. QED
    BY <1>1, <2>1, WholeBits DEF AluTypeOK
<1>8. CASE UNCHANGED aluVars
  BY <1>8 DEF aluVars, AluTypeOK
<1>9. QED
  BY <1>3, <1>4, <1>5, <1>6, <1>7, <1>8 DEF AluNext

\* AluTypes: the accumulator and the flags of every sequence of instructions.
LEMMA AluTypes == AluSpec => []AluTypeOK
<1>1. AluInit => AluTypeOK
  BY DEF AluInit, AluTypeOK, Byte, Flags
<1>2. AluTypeOK /\ [AluNext]_aluVars => AluTypeOK'
  BY AluHolds
<1>3. QED
  BY <1>1, <1>2, PTL DEF AluSpec

\* DecimalsAdjust: DAA makes decimal sums and differences of all decimal bytes, with and
\* without a carry (daa(), add8(), sub8()).
THEOREM DecimalsAdjust == AluSpec => []DecimalAdjust
<1>1. ASSUME AluTypeOK PROVE DecimalAdjust
  <2>1. SUFFICES ASSUME IsDecimal(a), NEW y \in Operands, IsDecimal(y), NEW carry \in BOOLEAN
        PROVE  LET added == Add8(a, y, f, carry)  sum == Daa(added.v, added.f)
                   taken == Sub8(a, y, f, carry)  rest == Daa(taken.v, taken.f)
               IN /\ IsDecimal(sum.v)
                  /\ Decimal(sum.v) + 100 * One(sum.f.c)
                        = Decimal(a) + Decimal(y) + One(carry /\ f.c)
                  /\ IsDecimal(rest.v)
                  /\ Decimal(rest.v) - 100 * One(rest.f.c)
                        = Decimal(a) - Decimal(y) - One(carry /\ f.c)
    BY Zenon DEF DecimalAdjust
  <2>2. a \in 0..255 /\ y \in 0..255
    BY <1>1, OperandsAssumption DEF AluTypeOK, Byte
  <2>3. SumIsRight(a, y, f, carry) /\ DifferenceIsRight(a, y, f, carry)
    BY <2>1, <2>2, DecimalSum, DecimalDifference
  <2>4. QED
    BY <2>3, Zenon DEF SumIsRight, DifferenceIsRight, Carry
<1>2. QED
  BY <1>1, AluTypes, PTL

-----------------------------------------------------------------------------
(* The operations that express or undo one another.                        *)

\* OneWeight: the bits of the bytes with one bit, and of their complements.
LEMMA OneWeight ==
    ASSUME NEW x \in {1, 2, 4, 8, 16, 32, 64, 128}
    PROVE  /\ BitOf(x, 0) = (IF x = 1 THEN 1 ELSE 0)
           /\ BitOf(255 - x, 0) = (IF x = 1 THEN 0 ELSE 1)
           /\ BitOf(x, 1) = (IF x = 2 THEN 1 ELSE 0)
           /\ BitOf(255 - x, 1) = (IF x = 2 THEN 0 ELSE 1)
           /\ BitOf(x, 2) = (IF x = 4 THEN 1 ELSE 0)
           /\ BitOf(255 - x, 2) = (IF x = 4 THEN 0 ELSE 1)
           /\ BitOf(x, 3) = (IF x = 8 THEN 1 ELSE 0)
           /\ BitOf(255 - x, 3) = (IF x = 8 THEN 0 ELSE 1)
           /\ BitOf(x, 4) = (IF x = 16 THEN 1 ELSE 0)
           /\ BitOf(255 - x, 4) = (IF x = 16 THEN 0 ELSE 1)
           /\ BitOf(x, 5) = (IF x = 32 THEN 1 ELSE 0)
           /\ BitOf(255 - x, 5) = (IF x = 32 THEN 0 ELSE 1)
           /\ BitOf(x, 6) = (IF x = 64 THEN 1 ELSE 0)
           /\ BitOf(255 - x, 6) = (IF x = 64 THEN 0 ELSE 1)
           /\ BitOf(x, 7) = (IF x = 128 THEN 1 ELSE 0)
           /\ BitOf(255 - x, 7) = (IF x = 128 THEN 0 ELSE 1)
<1>1. \/ x = 1 \/ x = 2 \/ x = 4 \/ x = 8 \/ x = 16 \/ x = 32 \/ x = 64 \/ x = 128
  OBVIOUS
<1>2. x \in Byte /\ 255 - x \in Byte
  BY <1>1 DEF Byte
<1>3. /\ BitOf(x, 0) = (IF x = 1 THEN 1 ELSE 0)
      /\ BitOf(255 - x, 0) = (IF x = 1 THEN 0 ELSE 1)
  <2>1. BitOf(x, 0) = x % 2 /\ BitOf(255 - x, 0) = (255 - x) % 2
    BY <1>2, Bits
  <2>2. x % 2 = (IF x = 1 THEN 1 ELSE 0) /\ (255 - x) % 2 = (IF x = 1 THEN 0 ELSE 1)
    BY <1>1
  <2>3. QED
    BY <2>1, <2>2, Zenon
<1>4. /\ BitOf(x, 1) = (IF x = 2 THEN 1 ELSE 0)
      /\ BitOf(255 - x, 1) = (IF x = 2 THEN 0 ELSE 1)
  <2>1. BitOf(x, 1) = (x \div 2) % 2 /\ BitOf(255 - x, 1) = ((255 - x) \div 2) % 2
    BY <1>2, Bits
  <2>2. /\ (x \div 2) % 2 = (IF x = 2 THEN 1 ELSE 0)
        /\ ((255 - x) \div 2) % 2 = (IF x = 2 THEN 0 ELSE 1)
    BY <1>1
  <2>3. QED
    BY <2>1, <2>2, Zenon
<1>5. /\ BitOf(x, 2) = (IF x = 4 THEN 1 ELSE 0)
      /\ BitOf(255 - x, 2) = (IF x = 4 THEN 0 ELSE 1)
  <2>1. BitOf(x, 2) = (x \div 4) % 2 /\ BitOf(255 - x, 2) = ((255 - x) \div 4) % 2
    BY <1>2, Bits
  <2>2. /\ (x \div 4) % 2 = (IF x = 4 THEN 1 ELSE 0)
        /\ ((255 - x) \div 4) % 2 = (IF x = 4 THEN 0 ELSE 1)
    BY <1>1
  <2>3. QED
    BY <2>1, <2>2, Zenon
<1>6. /\ BitOf(x, 3) = (IF x = 8 THEN 1 ELSE 0)
      /\ BitOf(255 - x, 3) = (IF x = 8 THEN 0 ELSE 1)
  <2>1. BitOf(x, 3) = (x \div 8) % 2 /\ BitOf(255 - x, 3) = ((255 - x) \div 8) % 2
    BY <1>2, Bits
  <2>2. /\ (x \div 8) % 2 = (IF x = 8 THEN 1 ELSE 0)
        /\ ((255 - x) \div 8) % 2 = (IF x = 8 THEN 0 ELSE 1)
    BY <1>1
  <2>3. QED
    BY <2>1, <2>2, Zenon
<1>7. /\ BitOf(x, 4) = (IF x = 16 THEN 1 ELSE 0)
      /\ BitOf(255 - x, 4) = (IF x = 16 THEN 0 ELSE 1)
  <2>1. BitOf(x, 4) = (x \div 16) % 2 /\ BitOf(255 - x, 4) = ((255 - x) \div 16) % 2
    BY <1>2, Bits
  <2>2. /\ (x \div 16) % 2 = (IF x = 16 THEN 1 ELSE 0)
        /\ ((255 - x) \div 16) % 2 = (IF x = 16 THEN 0 ELSE 1)
    BY <1>1
  <2>3. QED
    BY <2>1, <2>2, Zenon
<1>8. /\ BitOf(x, 5) = (IF x = 32 THEN 1 ELSE 0)
      /\ BitOf(255 - x, 5) = (IF x = 32 THEN 0 ELSE 1)
  <2>1. BitOf(x, 5) = (x \div 32) % 2 /\ BitOf(255 - x, 5) = ((255 - x) \div 32) % 2
    BY <1>2, Bits
  <2>2. /\ (x \div 32) % 2 = (IF x = 32 THEN 1 ELSE 0)
        /\ ((255 - x) \div 32) % 2 = (IF x = 32 THEN 0 ELSE 1)
    BY <1>1
  <2>3. QED
    BY <2>1, <2>2, Zenon
<1>9. /\ BitOf(x, 6) = (IF x = 64 THEN 1 ELSE 0)
      /\ BitOf(255 - x, 6) = (IF x = 64 THEN 0 ELSE 1)
  <2>1. BitOf(x, 6) = (x \div 64) % 2 /\ BitOf(255 - x, 6) = ((255 - x) \div 64) % 2
    BY <1>2, Bits
  <2>2. /\ (x \div 64) % 2 = (IF x = 64 THEN 1 ELSE 0)
        /\ ((255 - x) \div 64) % 2 = (IF x = 64 THEN 0 ELSE 1)
    BY <1>1
  <2>3. QED
    BY <2>1, <2>2, Zenon
<1>10. /\ BitOf(x, 7) = (IF x = 128 THEN 1 ELSE 0)
      /\ BitOf(255 - x, 7) = (IF x = 128 THEN 0 ELSE 1)
  <2>1. BitOf(x, 7) = (x \div 128) % 2 /\ BitOf(255 - x, 7) = ((255 - x) \div 128) % 2
    BY <1>2, Bits
  <2>2. /\ (x \div 128) % 2 = (IF x = 128 THEN 1 ELSE 0)
        /\ ((255 - x) \div 128) % 2 = (IF x = 128 THEN 0 ELSE 1)
    BY <1>1
  <2>3. QED
    BY <2>1, <2>2, Zenon
<1>11. QED
  BY <1>3, <1>4, <1>5, <1>6, <1>7, <1>8, <1>9, <1>10

\* Weights: the bits of a byte with one bit, and of its complement.
LEMMA Weights ==
    ASSUME NEW w \in 0..7
    PROVE  /\ Weight[w + 1] \in Byte /\ 255 - Weight[w + 1] \in Byte
           /\ \A i \in 0..7 : /\ BitOf(Weight[w + 1], i) = IF i = w THEN 1 ELSE 0
                              /\ BitOf(255 - Weight[w + 1], i) = IF i = w THEN 0 ELSE 1
<1>1. /\ Weight[1] = 1 /\ Weight[2] = 2 /\ Weight[3] = 4 /\ Weight[4] = 8
      /\ Weight[5] = 16 /\ Weight[6] = 32 /\ Weight[7] = 64 /\ Weight[8] = 128
  BY DEF Weight
<1>2. \/ w = 0 \/ w = 1 \/ w = 2 \/ w = 3 \/ w = 4 \/ w = 5 \/ w = 6 \/ w = 7
  OBVIOUS
<1>3. Weight[w + 1] \in Byte /\ 255 - Weight[w + 1] \in Byte
  BY <1>1, <1>2 DEF Byte
<1>4. ASSUME NEW i \in 0..7
      PROVE  /\ BitOf(Weight[w + 1], i) = IF i = w THEN 1 ELSE 0
             /\ BitOf(255 - Weight[w + 1], i) = IF i = w THEN 0 ELSE 1
  <2>1. \/ i = 0 \/ i = 1 \/ i = 2 \/ i = 3 \/ i = 4 \/ i = 5 \/ i = 6 \/ i = 7
    OBVIOUS
  <2> DEFINE x == Weight[w + 1]
  <2>3. x \in {1, 2, 4, 8, 16, 32, 64, 128}
        /\ (w = 0 <=> x = 1) /\ (w = 1 <=> x = 2) /\ (w = 2 <=> x = 4) /\ (w = 3 <=> x = 8)
        /\ (w = 4 <=> x = 16) /\ (w = 5 <=> x = 32) /\ (w = 6 <=> x = 64) /\ (w = 7 <=> x = 128)
    BY <1>1, <1>2
  <2> HIDE DEF x
  <2>4. /\ BitOf(x, 0) = (IF x = 1 THEN 1 ELSE 0)
        /\ BitOf(255 - x, 0) = (IF x = 1 THEN 0 ELSE 1)
        /\ BitOf(x, 1) = (IF x = 2 THEN 1 ELSE 0)
        /\ BitOf(255 - x, 1) = (IF x = 2 THEN 0 ELSE 1)
        /\ BitOf(x, 2) = (IF x = 4 THEN 1 ELSE 0)
        /\ BitOf(255 - x, 2) = (IF x = 4 THEN 0 ELSE 1)
        /\ BitOf(x, 3) = (IF x = 8 THEN 1 ELSE 0)
        /\ BitOf(255 - x, 3) = (IF x = 8 THEN 0 ELSE 1)
        /\ BitOf(x, 4) = (IF x = 16 THEN 1 ELSE 0)
        /\ BitOf(255 - x, 4) = (IF x = 16 THEN 0 ELSE 1)
        /\ BitOf(x, 5) = (IF x = 32 THEN 1 ELSE 0)
        /\ BitOf(255 - x, 5) = (IF x = 32 THEN 0 ELSE 1)
        /\ BitOf(x, 6) = (IF x = 64 THEN 1 ELSE 0)
        /\ BitOf(255 - x, 6) = (IF x = 64 THEN 0 ELSE 1)
        /\ BitOf(x, 7) = (IF x = 128 THEN 1 ELSE 0)
        /\ BitOf(255 - x, 7) = (IF x = 128 THEN 0 ELSE 1)
    BY <2>3, OneWeight
  <2>5. /\ BitOf(x, i) = IF i = w THEN 1 ELSE 0
        /\ BitOf(255 - x, i) = IF i = w THEN 0 ELSE 1
    BY <2>1, <2>3, <2>4
  <2>6. QED
    BY <2>5 DEF x
<1>5. QED
  BY <1>3, <1>4

\* OneBit: a byte with one of its bits raised or cleared.
LEMMA OneBit ==
    ASSUME NEW x \in Byte
    PROVE  /\ (x + 1 * (1 - (x % 2))) % 2 = 1
           /\ (x - 1 * (x % 2)) % 2 = 0
           /\ ((x + 2 * (1 - ((x \div 2) % 2))) \div 2) % 2 = 1
           /\ ((x - 2 * ((x \div 2) % 2)) \div 2) % 2 = 0
           /\ ((x + 4 * (1 - ((x \div 4) % 2))) \div 4) % 2 = 1
           /\ ((x - 4 * ((x \div 4) % 2)) \div 4) % 2 = 0
           /\ ((x + 8 * (1 - ((x \div 8) % 2))) \div 8) % 2 = 1
           /\ ((x - 8 * ((x \div 8) % 2)) \div 8) % 2 = 0
           /\ ((x + 16 * (1 - ((x \div 16) % 2))) \div 16) % 2 = 1
           /\ ((x - 16 * ((x \div 16) % 2)) \div 16) % 2 = 0
           /\ ((x + 32 * (1 - ((x \div 32) % 2))) \div 32) % 2 = 1
           /\ ((x - 32 * ((x \div 32) % 2)) \div 32) % 2 = 0
           /\ ((x + 64 * (1 - ((x \div 64) % 2))) \div 64) % 2 = 1
           /\ ((x - 64 * ((x \div 64) % 2)) \div 64) % 2 = 0
           /\ ((x + 128 * (1 - ((x \div 128) % 2))) \div 128) % 2 = 1
           /\ ((x - 128 * ((x \div 128) % 2)) \div 128) % 2 = 0
<1>1. /\ (x + 1 * (1 - (x % 2))) % 2 = 1
      /\ (x - 1 * (x % 2)) % 2 = 0
  BY DEF Byte
<1>2. /\ ((x + 2 * (1 - ((x \div 2) % 2))) \div 2) % 2 = 1
      /\ ((x - 2 * ((x \div 2) % 2)) \div 2) % 2 = 0
  BY DEF Byte
<1>3. /\ ((x + 4 * (1 - ((x \div 4) % 2))) \div 4) % 2 = 1
      /\ ((x - 4 * ((x \div 4) % 2)) \div 4) % 2 = 0
  BY DEF Byte
<1>4. /\ ((x + 8 * (1 - ((x \div 8) % 2))) \div 8) % 2 = 1
      /\ ((x - 8 * ((x \div 8) % 2)) \div 8) % 2 = 0
  BY DEF Byte
<1>5. /\ ((x + 16 * (1 - ((x \div 16) % 2))) \div 16) % 2 = 1
      /\ ((x - 16 * ((x \div 16) % 2)) \div 16) % 2 = 0
  BY DEF Byte
<1>6. /\ ((x + 32 * (1 - ((x \div 32) % 2))) \div 32) % 2 = 1
      /\ ((x - 32 * ((x \div 32) % 2)) \div 32) % 2 = 0
  BY DEF Byte
<1>7. /\ ((x + 64 * (1 - ((x \div 64) % 2))) \div 64) % 2 = 1
      /\ ((x - 64 * ((x \div 64) % 2)) \div 64) % 2 = 0
  BY DEF Byte
<1>8. /\ ((x + 128 * (1 - ((x \div 128) % 2))) \div 128) % 2 = 1
      /\ ((x - 128 * ((x \div 128) % 2)) \div 128) % 2 = 0
  BY DEF Byte
<1>9. QED
  BY <1>1, <1>2, <1>3, <1>4, <1>5, <1>6, <1>7, <1>8

\* SetsBits: SET is an OR and RES an AND, and BIT sees what they did.
LEMMA SetsBits ==
    ASSUME NEW x \in Byte, NEW w \in 0..7, NEW bits
    PROVE  /\ Set(x, w) = Or8(x, Weight[w + 1]).v
           /\ ~Bit(Set(x, w), w, bits).f.z
           /\ Res(x, w) = And8(x, Complement(Weight[w + 1], bits).v).v
           /\ Bit(Res(x, w), w, bits).f.z
<1> DEFINE y == Weight[w + 1]
           n == 255 - y
           b(i) == BitOf(x, i)
<1>1. \A i \in 0..7 : b(i) \in 0..1
  BY Bits
<1>2. /\ y \in Byte /\ n \in Byte
      /\ \A i \in 0..7 : BitOf(y, i) = (IF i = w THEN 1 ELSE 0)
                            /\ BitOf(n, i) = (IF i = w THEN 0 ELSE 1)
  BY Weights
<1>3. Complement(y, bits).v = n
  BY DEF Complement, Result
<1> DEFINE P(i) == BitOf(x, i) * BitOf(n, i)
           Q(i) == BitOf(x, i) + BitOf(y, i) - BitOf(x, i) * BitOf(y, i)
<1> HIDE DEF y, n
<1>4. /\ And8(x, n).v = P(0) + 2 * P(1) + 4 * P(2) + 8 * P(3) + 16 * P(4)
                        + 32 * P(5) + 64 * P(6) + 128 * P(7)
      /\ Or8(x, y).v = Q(0) + 2 * Q(1) + 4 * Q(2) + 8 * Q(3) + 16 * Q(4)
                       + 32 * Q(5) + 64 * Q(6) + 128 * Q(7)
  <2>1. /\ And8(x, n).v = Bitwise8(LAMBDA p, q : p * q, x, n)
        /\ Or8(x, y).v = Bitwise8(LAMBDA p, q : p + q - p * q, x, y)
    BY <1>2, WholeLogic
  <2>2. QED
    BY <2>1, Zenon DEF Bitwise8
<1>5. \A i \in 0..7 : /\ P(i) = IF i = w THEN 0 ELSE b(i)
                      /\ Q(i) = IF i = w THEN 1 ELSE b(i)
  BY <1>1, <1>2
<1>6. x = b(0) + 2 * b(1) + 4 * b(2) + 8 * b(3) + 16 * b(4) + 32 * b(5) + 64 * b(6) + 128 * b(7)
  BY Bits
<1>7. /\ Weight[1] = 1 /\ Weight[2] = 2 /\ Weight[3] = 4 /\ Weight[4] = 8
      /\ Weight[5] = 16 /\ Weight[6] = 32 /\ Weight[7] = 64 /\ Weight[8] = 128
  BY DEF Weight
<1>8. \/ w = 0 \/ w = 1 \/ w = 2 \/ w = 3 \/ w = 4 \/ w = 5 \/ w = 6 \/ w = 7
  OBVIOUS
<1>9. Set(x, w) = x + Weight[w + 1] * (1 - b(w)) /\ Res(x, w) = x - Weight[w + 1] * b(w)
  BY DEF Set, Res
<1> HIDE DEF P, Q, b
<1>10. Set(x, w) = Or8(x, y).v /\ Res(x, w) = And8(x, n).v
  <2>1. /\ b(0) \in 0..1 /\ b(1) \in 0..1 /\ b(2) \in 0..1 /\ b(3) \in 0..1
        /\ b(4) \in 0..1 /\ b(5) \in 0..1 /\ b(6) \in 0..1 /\ b(7) \in 0..1
    BY <1>1
  <2>2. /\ P(0) = (IF 0 = w THEN 0 ELSE b(0)) /\ P(1) = (IF 1 = w THEN 0 ELSE b(1))
        /\ P(2) = (IF 2 = w THEN 0 ELSE b(2)) /\ P(3) = (IF 3 = w THEN 0 ELSE b(3))
        /\ P(4) = (IF 4 = w THEN 0 ELSE b(4)) /\ P(5) = (IF 5 = w THEN 0 ELSE b(5))
        /\ P(6) = (IF 6 = w THEN 0 ELSE b(6)) /\ P(7) = (IF 7 = w THEN 0 ELSE b(7))
    BY <1>5
  <2>3. /\ Q(0) = (IF 0 = w THEN 1 ELSE b(0)) /\ Q(1) = (IF 1 = w THEN 1 ELSE b(1))
        /\ Q(2) = (IF 2 = w THEN 1 ELSE b(2)) /\ Q(3) = (IF 3 = w THEN 1 ELSE b(3))
        /\ Q(4) = (IF 4 = w THEN 1 ELSE b(4)) /\ Q(5) = (IF 5 = w THEN 1 ELSE b(5))
        /\ Q(6) = (IF 6 = w THEN 1 ELSE b(6)) /\ Q(7) = (IF 7 = w THEN 1 ELSE b(7))
    BY <1>5
  <2>4. QED
    BY <1>4, <1>6, <1>7, <1>8, <1>9, <2>1, <2>2, <2>3
<1>11. BitOf(Set(x, w), w) = 1 /\ BitOf(Res(x, w), w) = 0
  <2>1. /\ Set(x, w) \in Byte /\ Res(x, w) \in Byte
    <3>1. [z |-> FALSE, n |-> FALSE, h |-> FALSE, c |-> FALSE] \in Flags
      BY DEF Flags
    <3>2. QED
      BY <3>1, WholeBits
  <2>2. CASE w = 0
    BY <1>7, <2>1, <2>2, OneBit, Bits DEF Set, Res
  <2>3. CASE w = 1
    BY <1>7, <2>1, <2>3, OneBit DEF BitOf, Set, Res
  <2>4. CASE w = 2
    BY <1>7, <2>1, <2>4, OneBit DEF BitOf, Set, Res
  <2>5. CASE w = 3
    BY <1>7, <2>1, <2>5, OneBit DEF BitOf, Set, Res
  <2>6. CASE w = 4
    BY <1>7, <2>1, <2>6, OneBit DEF BitOf, Set, Res
  <2>7. CASE w = 5
    BY <1>7, <2>1, <2>7, OneBit DEF BitOf, Set, Res
  <2>8. CASE w = 6
    BY <1>7, <2>1, <2>8, OneBit DEF BitOf, Set, Res
  <2>9. CASE w = 7
    BY <1>7, <2>1, <2>9, OneBit DEF BitOf, Set, Res
  <2>10. QED
    BY <1>8, <2>2, <2>3, <2>4, <2>5, <2>6, <2>7, <2>8, <2>9
<1>12. \A v : Bit(v, w, bits).f.z <=> BitOf(v, w) = 0
  BY DEF Bit, Result
<1>13. QED
  BY <1>3, <1>10, <1>11, <1>12 DEF y, n

\* BitsDoAgree: the logical instructions.
LEMMA BitsDoAgree ==
    ASSUME AluTypeOK
    PROVE  BitsAgree
<1>1. a \in Byte /\ \A y \in Operands : y \in Byte
  BY OperandsAssumption DEF AluTypeOK, Byte
<1>2. QED
  BY <1>1, SetsBits, WholeLogic DEF BitsAgree

\* WideFields: what add16() returns.
WideIs(r, x, y) ==
    /\ r.v = (x + y) % 65536
    /\ r.f.h <=> (x % 4096) + (y % 4096) > 4095
    /\ r.f.c <=> x + y > 65535
LEMMA WideFields ==
    ASSUME NEW x \in Int, NEW y \in Int, NEW bits \in Flags
    PROVE  WideIs(Add16(x, y, bits), x, y)
<1> DEFINE v == (x + y) % 65536
           p == (x % 4096) + (y % 4096)
           q == 4095
           r == x + y
           s == 65535
           result == Add16(x, y, bits)
<1>1. result = Result(v, bits.z, FALSE, p > q, r > s)
  BY SMT DEF Add16
<1> HIDE DEF v, p, q, r, s, result
<1>2. /\ Result(v, bits.z, FALSE, p > q, r > s).v = v
      /\ Result(v, bits.z, FALSE, p > q, r > s).f.h <=> p > q
      /\ Result(v, bits.z, FALSE, p > q, r > s).f.c <=> r > s
  BY DEF Result
<1>3. result.v = v /\ (result.f.h <=> p > q) /\ (result.f.c <=> r > s)
  BY <1>1, <1>2, Zenon
<1>4. QED
  BY <1>3, SMT DEF WideIs, v, p, q, r, s, result

\* WideFlags: its flags are flags.
LEMMA WideFlags ==
    ASSUME NEW x \in Int, NEW y \in Int, NEW bits \in Flags
    PROVE  Add16(x, y, bits).f \in Flags
  BY DEF Add16, Result, Flags

\* WideSum: a 16 bit addition against two of 8 bits.
WideIsRight(x, low, high, bits) ==
    LET lows == Add8(low, x, bits, FALSE)  highs == Add8(x, high, lows.f, TRUE)
        wide == Add16(256 * x + low, 256 * high + x, bits)
    IN wide.v = 256 * highs.v + lows.v /\ wide.f.c = highs.f.c /\ wide.f.h = highs.f.h
LEMMA WideSum ==
    ASSUME NEW x \in Byte, NEW low \in Byte, NEW high \in Byte, NEW bits \in Flags
    PROVE  WideIsRight(x, low, high, bits)
<1> DEFINE lows == Add8(low, x, bits, FALSE)
           highs == Add8(x, high, lows.f, TRUE)
           wide == Add16(256 * x + low, 256 * high + x, bits)
           none == Carry(bits, FALSE)
           k == Carry(lows.f, TRUE)
<1>1. none = 0
  BY DEF Carry, One
<1>2. AddIs(lows, low, x, none) /\ AddIs(highs, x, high, k)
  BY AddFields
<1>3. WideIs(wide, 256 * x + low, 256 * high + x)
  BY WideFields DEF Byte
<1>4. lows.f \in Flags /\ highs.f \in Flags
  BY WholeSums DEF Whole
<1>5. wide.f \in Flags
  BY WideFlags DEF Byte
<1>6. k = IF lows.f.c THEN 1 ELSE 0
  BY DEF Carry, One
<1> HIDE DEF lows, highs, wide, k, none
<1>7. k = IF low + x > 255 THEN 1 ELSE 0
  BY <1>1, <1>2, <1>6 DEF AddIs, Byte
<1>8. /\ (256 * x + low + (256 * high + x)) % 65536
            = 256 * ((x + high + k) % 256) + ((low + x) % 256)
      /\ 256 * x + low + (256 * high + x) > 65535 <=> x + high + k > 255
  BY <1>7 DEF Byte
<1>9. ((256 * x + low) % 4096) + ((256 * high + x) % 4096) > 4095
         <=> (x % 16) + (high % 16) + k > 15
  <2>1. (256 * x + low) % 4096 = 256 * (x % 16) + low
    BY DEF Byte
  <2>2. (256 * high + x) % 4096 = 256 * (high % 16) + x
    BY DEF Byte
  <2>3. x % 16 \in 0..15 /\ high % 16 \in 0..15
    BY DEF Byte
  <2> DEFINE p == x % 16
             q == high % 16
  <2> HIDE DEF p, q
  <2>4. 256 * p + low + (256 * q + x) > 4095 <=> p + q + k > 15
    BY <1>7, <2>3 DEF Byte, p, q
  <2>5. QED
    BY <2>1, <2>2, <2>4 DEF p, q
<1>10. lows.v = (low + x) % 256
  BY <1>1, <1>2 DEF AddIs, Byte
<1>11. wide.v = 256 * highs.v + lows.v
  BY <1>2, <1>3, <1>8, <1>10 DEF AddIs, WideIs
<1>12. wide.f.c = highs.f.c /\ wide.f.h = highs.f.h
  BY <1>2, <1>3, <1>4, <1>5, <1>8, <1>9 DEF AddIs, WideIs, Flags
<1>13. QED
  BY <1>11, <1>12, Zenon DEF WideIsRight, lows, highs, wide

\* CompareFields: what compare() leaves.
CompareIs(r, x, y) ==
    /\ r.f.n = TRUE
    /\ r.f.z <=> x = y
    /\ r.f.h <=> (x - y) % 16 > x % 16
    /\ r.f.c <=> x < y
LEMMA CompareFields ==
    ASSUME NEW x, NEW y
    PROVE  CompareIs(Compare(x, y), x, y)
  BY DEF Compare, Result, CompareIs

\* Compared: a comparison leaves the flags of the subtraction.
LEMMA Compared ==
    ASSUME NEW x \in Byte, NEW y \in Byte, NEW bits \in Flags
    PROVE  Compare(x, y).f = Sub8(x, y, bits, FALSE).f
<1> DEFINE left == Compare(x, y)
           right == Sub8(x, y, bits, FALSE)
           none == Carry(bits, FALSE)
<1>1. CompareIs(left, x, y) /\ SubIs(right, x, y, none)
  BY CompareFields, SubFields
<1>2. left.f \in Flags /\ right.f \in Flags
  BY WholeSums DEF Whole
<1>3. none = 0
  BY DEF Carry, One
<1> HIDE DEF left, right, none
<1>4. /\ (x - (y + none)) % 256 = 0 <=> x = y
      /\ x % 16 < (y % 16) + none <=> (x - y) % 16 > x % 16
      /\ x < y + none <=> x < y
  <2>1. (x - y) % 256 = 0 <=> x = y
    <3>1. \A d \in (0 - 255)..255 : d % 256 = 0 <=> d = 0
      OBVIOUS
    <3>2. x - y \in (0 - 255)..255 /\ (x - y = 0 <=> x = y)
      BY DEF Byte
    <3>3. QED
      BY <3>1, <3>2
  <2>2. x % 16 < y % 16 <=> (x - y) % 16 > x % 16
    BY DEF Byte
  <2>3. x - (y + none) = x - y /\ (y % 16) + none = y % 16 /\ y + none = y
    BY <1>3 DEF Byte
  <2>4. QED
    BY <2>1, <2>2, <2>3
<1>5. /\ left.f.z = right.f.z /\ left.f.n = right.f.n
      /\ left.f.h = right.f.h /\ left.f.c = right.f.c
  BY <1>1, <1>2, <1>4 DEF CompareIs, SubIs, Flags
<1>6. left.f = right.f
  BY <1>2, <1>5 DEF Flags
<1>7. QED
  BY <1>6 DEF left, right

\* Undone: SUB and SBC after ADD and ADC.
UndoIsRight(x, y, bits, carry) ==
    LET sum == Add8(x, y, bits, carry)  back == Sub8(sum.v, y, bits, carry)
    IN back.v = x /\ back.f.c = sum.f.c /\ back.f.h = sum.f.h
LEMMA Undone ==
    ASSUME NEW x \in Byte, NEW y \in Byte, NEW bits \in Flags, NEW carry \in BOOLEAN
    PROVE  UndoIsRight(x, y, bits, carry)
<1> DEFINE k == Carry(bits, carry)
           sum == Add8(x, y, bits, carry)
           back == Sub8(sum.v, y, bits, carry)
<1>1. AddIs(sum, x, y, k) /\ SubIs(back, sum.v, y, k)
  BY AddFields, SubFields
<1>2. sum.v \in Byte /\ sum.f \in Flags /\ back.f \in Flags
  BY WholeSums DEF Whole
<1>3. k \in 0..1
  BY CarryType
<1> HIDE DEF k, sum, back
<1>4. /\ ((((x + y + k) % 256) - (y + k)) % 256) = x
      /\ (x + y + k) % 256 < y + k <=> x + y + k > 255
  BY <1>3 DEF Byte
<1>5. ((x + y + k) % 256) % 16 < (y % 16) + k <=> (x % 16) + (y % 16) + k > 15
  BY <1>3 DEF Byte
<1>6. back.v = x
  BY <1>1, <1>4 DEF AddIs, SubIs
<1>7. back.f.c = sum.f.c /\ back.f.h = sum.f.h
  BY <1>1, <1>2, <1>4, <1>5 DEF AddIs, SubIs, Flags
<1>8. QED
  BY <1>6, <1>7, Zenon DEF UndoIsRight, sum, back

\* OffsetFields: what add16() with a signed offset returns.
OffsetIs(r, x, y) ==
    /\ r.v = (x + Signed(y)) % 65536
    /\ r.f.h <=> (x % 16) + (y % 16) > 15
    /\ r.f.c <=> (x % 256) + y > 255
LEMMA OffsetFields ==
    ASSUME NEW x \in Int, NEW y \in Int
    PROVE  OffsetIs(AddSigned(x, y), x, y) /\ AddSigned(x, y).f \in Flags
<1> DEFINE v == (x + Signed(y)) % 65536
           p == (x % 16) + (y % 16)
           q == 15
           r == (x % 256) + y
           s == 255
           result == AddSigned(x, y)
<1>1. result = Result(v, FALSE, FALSE, p > q, r > s)
  BY SMT DEF AddSigned
<1> HIDE DEF v, p, q, r, s, result
<1>2. /\ Result(v, FALSE, FALSE, p > q, r > s).v = v
      /\ Result(v, FALSE, FALSE, p > q, r > s).f.h <=> p > q
      /\ Result(v, FALSE, FALSE, p > q, r > s).f.c <=> r > s
  BY DEF Result
<1>3. result.v = v /\ (result.f.h <=> p > q) /\ (result.f.c <=> r > s)
  BY <1>1, <1>2, Zenon
<1>4. OffsetIs(AddSigned(x, y), x, y)
  BY <1>3, SMT DEF OffsetIs, v, p, q, r, s, result
<1>5. AddSigned(x, y).f \in Flags
  BY DEF AddSigned, Result, Flags
<1>6. QED
  BY <1>4, <1>5

\* OffsetBack: an offset and its opposite.
OffsetIsRight(x, high, y, bits) ==
    LET there == AddSigned(256 * high + x, y)
        back == AddSigned(there.v, (256 - y) % 256)
    IN /\ there.f.c = Add8(x, y, bits, FALSE).f.c /\ there.f.h = Add8(x, y, bits, FALSE).f.h
       /\ y # 128 => back.v = 256 * high + x
LEMMA OffsetBack ==
    ASSUME NEW x \in Byte, NEW high \in Byte, NEW y \in Byte, NEW bits \in Flags
    PROVE  OffsetIsRight(x, high, y, bits)
<1> DEFINE word == 256 * high + x
           opposite == (256 - y) % 256
           there == AddSigned(word, y)
           back == AddSigned(there.v, opposite)
           sum == Add8(x, y, bits, FALSE)
           none == Carry(bits, FALSE)
<1>1. none = 0
  BY DEF Carry, One
<1>2. AddIs(sum, x, y, none) /\ sum.f \in Flags
  BY AddFields, WholeSums DEF Whole
<1>3. word \in Int /\ y \in Int /\ opposite \in Int
  BY DEF Byte
<1>4. OffsetIs(there, word, y) /\ there.f \in Flags
  BY <1>3, OffsetFields
<1>5. there.v \in Int
  <2> HIDE DEF there, word
  <2>1. QED
    BY <1>3, <1>4 DEF OffsetIs, Signed
<1>6. OffsetIs(back, there.v, opposite)
  BY <1>3, <1>5, OffsetFields
<1>7. y # 128 => (((word + Signed(y)) % 65536) + Signed(opposite)) % 65536 = word
  BY DEF Byte, Signed
<1>8. word % 16 = x % 16 /\ word % 256 = x
  BY DEF Byte
<1> HIDE DEF word, opposite, there, back, sum, none
<1>9. y # 128 => back.v = word
  BY <1>4, <1>6, <1>7 DEF OffsetIs
<1>10. there.f.c = sum.f.c /\ there.f.h = sum.f.h
  BY <1>1, <1>2, <1>4, <1>8 DEF OffsetIs, AddIs, Flags, Byte
<1>11. QED
  BY <1>9, <1>10, Zenon DEF OffsetIsRight, word, opposite, there, back, sum

\* TurnFields: what the rotations and shifts return, with the bit k that comes in.
LeftIs(r, x, k) == r.v = ((2 * x) % 256) + k /\ (r.f.c <=> x >= 128)
RightIs(r, x, k) == r.v = (x \div 2) + 128 * k /\ (r.f.c <=> x % 2 = 1)
LEMMA TurnFields ==
    ASSUME NEW x \in Byte, NEW bits \in Flags, NEW wrap \in BOOLEAN, NEW ignore \in BOOLEAN
    PROVE  /\ LeftIs(RotateL(x, bits, wrap, ignore), x, Carry(bits, wrap))
           /\ RightIs(RotateR(x, bits, wrap, ignore), x, Carry(bits, wrap))
           /\ Sra(x).v = (x \div 2) + 128 * (x \div 128)
<1>1. LeftIs(RotateL(x, bits, wrap, ignore), x, Carry(bits, wrap))
  BY DEF RotateL, Result, Carry, Byte, LeftIs
<1>2. RightIs(RotateR(x, bits, wrap, ignore), x, Carry(bits, wrap))
  BY DEF RotateR, Result, Carry, Byte, RightIs
<1>3. Sra(x).v = (x \div 2) + 128 * (x \div 128)
  BY DEF Sra, Result
<1>4. QED
  BY <1>1, <1>2, <1>3

\* ThroughCarry: RL and RR are inverses on nine bits.
ThroughCarryIsRight(x, bits) ==
    LET left == RotateL(x, bits, TRUE, FALSE)  right == RotateR(left.v, left.f, TRUE, FALSE)
    IN right.v = x /\ right.f.c = bits.c
LEMMA ThroughCarry ==
    ASSUME NEW x \in Byte, NEW bits \in Flags
    PROVE  ThroughCarryIsRight(x, bits)
<1> DEFINE left == RotateL(x, bits, TRUE, FALSE)
           right == RotateR(left.v, left.f, TRUE, FALSE)
           k == Carry(bits, TRUE)
           c == Carry(left.f, TRUE)
<1>1. LeftIs(left, x, k)
  BY TurnFields
<1>2. left.v \in Byte /\ left.f \in Flags
  BY WholeTurns DEF Whole
<1>3. RightIs(right, left.v, c)
  BY <1>2, TurnFields
<1>4. right.f \in Flags
  BY <1>2, WholeTurns DEF Whole
<1>5. k = (IF bits.c THEN 1 ELSE 0) /\ c = (IF left.f.c THEN 1 ELSE 0)
  BY DEF Carry, One
<1> HIDE DEF left, right, k, c
<1>6. k \in 0..1 /\ c = IF x >= 128 THEN 1 ELSE 0
  BY <1>1, <1>5 DEF LeftIs
<1>7. /\ ((((2 * x) % 256) + k) \div 2) + 128 * c = x
      /\ (((2 * x) % 256) + k) % 2 = k
  BY <1>6 DEF Byte
<1>8. right.v = x /\ (right.f.c <=> bits.c)
  BY <1>1, <1>3, <1>5, <1>7 DEF LeftIs, RightIs
<1>9. right.f.c = bits.c
  BY <1>4, <1>8 DEF Flags
<1>10. QED
  BY <1>8, <1>9, Zenon DEF ThroughCarryIsRight, left, right

\* AroundByte: RLC and RRC are inverses on the byte, and four RLC exchange its halves.
Rolled(x) == ((2 * x) % 256) + (x \div 128)
LEMMA AroundByte ==
    ASSUME NEW x \in Byte
    PROVE  /\ Rrc(Rlc(x, FALSE).v, FALSE).v = x
           /\ LET twice(n) == Rlc(Rlc(n, FALSE).v, FALSE).v IN twice(twice(x)) = Swap(x).v
<1>1. \A n \in Byte : Rlc(n, FALSE).v = Rolled(n) /\ Rolled(n) \in Byte
  <2>1. ASSUME NEW n \in Byte
        PROVE  Rlc(n, FALSE).v = Rolled(n) /\ Rolled(n) \in Byte
    <3>1. Rlc(n, FALSE).v = Rolled(n)
      BY DEF Rlc, Result, Rolled
    <3>2. Rolled(n) \in Byte
      BY DEF Rolled, Byte
    <3>3. QED
      BY <3>1, <3>2
  <2>2. QED
    BY <2>1
<1>2. \A n \in Byte : Rrc(n, FALSE).v = (n \div 2) + 128 * (n % 2)
  BY DEF Rrc, Result
<1>3. Swap(x).v = (x % 16) * 16 + (x \div 16)
  BY DEF Swap, Result
<1>4. (Rolled(x) \div 2) + 128 * (Rolled(x) % 2) = x
  BY DEF Rolled, Byte
<1>5. Rrc(Rlc(x, FALSE).v, FALSE).v = x
  BY <1>1, <1>2, <1>4
<1>6. \A n \in Byte : Rolled(Rolled(n)) = (n % 64) * 4 + (n \div 64)
  BY DEF Rolled, Byte
<1> DEFINE half == Rolled(Rolled(x))
<1>7. half \in Byte /\ Rolled(Rolled(half)) = (half % 64) * 4 + (half \div 64)
      /\ half = (x % 64) * 4 + (x \div 64)
  BY <1>1, <1>6
<1>8. Rlc(Rlc(half, FALSE).v, FALSE).v = Rolled(Rolled(half))
      /\ Rlc(Rlc(x, FALSE).v, FALSE).v = half
  BY <1>1, <1>7
<1> HIDE DEF half
<1>9. (half % 64) * 4 + (half \div 64) = (x % 16) * 16 + (x \div 16)
  <2> DEFINE high == x \div 64
             middle == (x \div 16) % 4
             low == x % 16
  <2>1. /\ high \in 0..3 /\ middle \in 0..3 /\ low \in 0..15
        /\ x = 64 * high + 16 * middle + low
    BY DEF Byte
  <2> HIDE DEF high, middle, low
  <2>2. x % 64 = 16 * middle + low /\ x \div 64 = high
    BY <2>1
  <2>3. x % 16 = low /\ x \div 16 = 4 * high + middle
    BY <2>1
  <2>4. half = 64 * middle + 4 * low + high
    BY <1>7, <2>1, <2>2
  <2>5. half % 64 = 4 * low + high /\ half \div 64 = middle
    BY <2>1, <2>4
  <2>6. QED
    BY <2>1, <2>3, <2>5
<1>10. Rlc(Rlc(Rlc(Rlc(x, FALSE).v, FALSE).v, FALSE).v, FALSE).v = Swap(x).v
  BY <1>3, <1>7, <1>8, <1>9
<1>11. QED
  BY <1>5, <1>10, Zenon

\* Doubled: SLA doubles, SRA and SRL halve.
LEMMA Doubled ==
    ASSUME NEW x \in Byte, NEW bits \in Flags
    PROVE  /\ RotateL(x, bits, FALSE, FALSE).f.c = Add8(x, x, bits, FALSE).f.c
           /\ RotateL(x, bits, FALSE, FALSE).v = Add8(x, x, bits, FALSE).v
           /\ Signed(Sra(x).v) = Signed(x) \div 2
           /\ RotateR(x, bits, FALSE, FALSE).v = x \div 2
<1> DEFINE left == RotateL(x, bits, FALSE, FALSE)
           right == RotateR(x, bits, FALSE, FALSE)
           sum == Add8(x, x, bits, FALSE)
           none == Carry(bits, FALSE)
<1>1. none = 0
  BY DEF Carry, One
<1>2. /\ LeftIs(left, x, none) /\ RightIs(right, x, none)
      /\ Sra(x).v = (x \div 2) + 128 * (x \div 128)
  BY TurnFields
<1>3. AddIs(sum, x, x, none)
  BY AddFields
<1>4. left.f \in Flags /\ sum.f \in Flags
  BY WholeTurns, WholeSums DEF Whole
<1> HIDE DEF left, right, sum, none
<1>5. /\ ((2 * x) % 256) + none = (x + x + none) % 256
      /\ x >= 128 <=> x + x + none > 255
      /\ (x \div 2) + 128 * none = x \div 2
  BY <1>1 DEF Byte
<1>6. Signed((x \div 2) + 128 * (x \div 128)) = Signed(x) \div 2
  BY DEF Signed, Byte
<1>7. left.f.c = sum.f.c
  BY <1>2, <1>3, <1>4, <1>5 DEF AddIs, LeftIs, Flags
<1>8. left.v = sum.v /\ right.v = x \div 2
  BY <1>2, <1>3, <1>5 DEF AddIs, LeftIs, RightIs
<1>9. Signed(Sra(x).v) = Signed(x) \div 2
  BY <1>2, <1>6
<1>10. QED
  BY <1>7, <1>8, <1>9 DEF left, right, sum

\* OperationsDoAgree: for all bytes and operands, what undoes or expresses another operation
\* agrees with it in value and flags (add8(), sub8(), compare(), add16(), and8(), ...).
THEOREM OperationsDoAgree == AluSpec => []OperationsAgree
<1>1. ASSUME AluTypeOK PROVE OperationsAgree
  <2>1. a \in Byte /\ f \in Flags /\ \A y \in Operands : y \in Byte
    BY <1>1, OperandsAssumption DEF AluTypeOK, Byte
  <2>2. BitsAgree
    BY <1>1, BitsDoAgree
  <2>3. WideAddition
    <3>1. \A high, low \in Operands : WideIsRight(a, low, high, f)
      BY <2>1, WideSum
    <3>2. QED
      BY <3>1 DEF WideAddition, WideIsRight
  <2>4. CompareIsSubtract
    <3>1. \A y \in Operands : Compare(a, y).f = Sub8(a, y, f, FALSE).f
      BY <2>1, Compared
    <3>2. \A y \in Operands, carry \in BOOLEAN : UndoIsRight(a, y, f, carry)
      BY <2>1, Undone
    <3>3. QED
      BY <3>1, <3>2, Zenon DEF CompareIsSubtract, UndoIsRight
  <2>5. OffsetIsUndone
    <3>1. \A high, y \in Operands : OffsetIsRight(a, high, y, f)
      BY <2>1, OffsetBack
    <3>2. QED
      BY <3>1 DEF OffsetIsUndone, OffsetIsRight
  <2>6. RotationsAreInverse
    <3>1. ThroughCarryIsRight(a, f)
      BY <2>1, ThroughCarry
    <3>2. /\ Rrc(Rlc(a, FALSE).v, FALSE).v = a
          /\ LET twice(n) == Rlc(Rlc(n, FALSE).v, FALSE).v IN twice(twice(a)) = Swap(a).v
      BY <2>1, AroundByte
    <3>3. /\ RotateL(a, f, FALSE, FALSE).f.c = Add8(a, a, f, FALSE).f.c
          /\ RotateL(a, f, FALSE, FALSE).v = Add8(a, a, f, FALSE).v
          /\ Signed(Sra(a).v) = Signed(a) \div 2
          /\ RotateR(a, f, FALSE, FALSE).v = a \div 2
      BY <2>1, Doubled
    <3>4. QED
      BY <3>1, <3>2, <3>3, Zenon DEF RotationsAreInverse, ThroughCarryIsRight
  <2>7. QED
    BY <2>2, <2>3, <2>4, <2>5, <2>6 DEF OperationsAgree
<1>2. QED
  BY <1>1, AluTypes, PTL
=============================================================================

----------------------------- MODULE Processor -----------------------------
(***************************************************************************)
(* The control of the processor (src/src/hardware/processor.cpp): serving  *)
(* interrupts, HALT, jumps, calls and the stack, and the ticks inside an   *)
(* instruction, in which the devices raise interrupts between what the     *)
(* instruction reads and what it writes.  cycle() is called by the CPU     *)
(* thread, and the devices run in Clock::tick() on the same thread.        *)
(*                                                                         *)
(* Abstracted: the flags that decide conditional instructions, all         *)
(* registers but one pair, and the instructions that touch neither the     *)
(* interrupt registers nor the order of execution nor the stack (Alu).     *)
(***************************************************************************)
EXTENDS Integers, Sequences, FiniteSets, SequencesExt

CONSTANTS
    SOURCES,         \* the number of interrupt sources, 5
    BYTE,            \* the number of values of a byte, 256
    Code,            \* of each address of the game: the instructions it may hold
    Vector,          \* InterruptVector: of each source, the address of its handler
    Ram,             \* the addresses the stack grows into
    StackTop,        \* what reset() sets SP to
    MaxDepth,        \* bound: a handler at this depth executes no EI
    MaxCalls         \* bound: routines entered and words pushed, at a time

Addresses == 0..(BYTE * BYTE - 1)

ASSUME ProcessorAssumption ==
    /\ SOURCES \in Nat \ {0} /\ BYTE \in Nat \ {0, 1} /\ MaxDepth \in Nat \ {0} /\ MaxCalls \in Nat
    /\ DOMAIN Code \subseteq Addresses /\ Vector \in [0..(SOURCES - 1) -> Addresses]
    /\ \A a \in DOMAIN Code : \A i \in Code[a] : i.args \in Addresses
    /\ Ram \subseteq Addresses \ DOMAIN Code /\ StackTop \in Addresses
    \* The game leaves its stack as much room as it uses.
    /\ 2 * (MaxDepth + MaxCalls) <= BYTE * BYTE
    /\ \A k \in 1..(2 * (MaxDepth + MaxCalls)) : (StackTop - k) % (BYTE * BYTE) \in Ram

VARIABLES
    at,              \* the instruction that is executed, with its operands as a word; its op
                     \* is "cycle" between two, "idle" in a HALT, "modified" within modifyFlags
    pc, sp,          \* m_pc, m_sp
    pair,            \* one of the register pairs of m_gpr
    mem,             \* the memory the stack is in
    mask, flags,     \* the interrupt enable and interrupt flags registers, as sets
    enable,          \* m_interrupts.enable
    halted,          \* m_halted
    operand,         \* a read-modify-write instruction on the flags: what it has read
    frames,          \* history: the handlers and routines entered and the words pushed, as
                     \* records of what each is to go back to
    raised,          \* history: the interrupts raised since the operand was read
    served           \* history: the source dispatched by the latest step, or None

flowVars == <<pc, sp, pair, mem, frames>>
interruptVars == <<mask, flags, enable, operand, raised>>
vars == <<at, flowVars, interruptVars, halted, served>>

\* InterruptMask and InterruptVector: the sources in the order of their priority.
Sources == 0..(SOURCES - 1)
None == -1

\* The instructions that matter, by where execute() goes for each, and their lengths.
Length == [other |-> 1, EI |-> 1, DI |-> 1, HALT |-> 1, RETI |-> 1, RET |-> 1, RST |-> 1,
           PUSH |-> 1, POP |-> 1, JPhl |-> 1, JR |-> 2, storeFlags |-> 2, storeMask |-> 2,
           modifyFlags |-> 2, JP |-> 3, CALL |-> 3, load |-> 3]
Instructions == DOMAIN Length

In(op) == [op |-> op, args |-> 0]
Between == In("cycle")

\* The width of an address.
Wrap(x) == x % (BYTE * BYTE)

Frame(kind, word) == [kind |-> kind, word |-> word, opened |-> FALSE]

\* What a game keeps to: it holds instructions, returns to addresses, pops words, and opens
\* and calls within the bounds.
Handlers(fs) == Cardinality({i \in DOMAIN fs : fs[i].kind = "handler"})
Sensible(op, fs) ==
    LET top == IF fs = <<>> THEN "none" ELSE Last(fs).kind
    IN /\ op \in Instructions
       /\ op = "EI" => Handlers(fs) < MaxDepth
       /\ op \in {"CALL", "RST", "PUSH"} => Len(fs) - Handlers(fs) < MaxCalls
       /\ op = "RETI" => top = "handler"
       /\ op = "RET" => top \in {"handler", "call"}
       /\ op = "POP" => top = "saved"

\* reset(), where interrupts are enabled and all masked.
Init ==
    /\ at = Between /\ pc = 0 /\ sp = StackTop
    /\ pair = 0 /\ mem = [x \in Ram |-> 0]
    /\ mask = {} /\ flags = {} /\ enable = TRUE /\ halted = FALSE
    /\ operand = {} /\ frames = <<>> /\ raised = {} /\ served = None

-----------------------------------------------------------------------------
Pending == mask \cap flags

First == CHOOSE s \in Pending : \A o \in Pending : s <= o

\* Slip: with interrupts disabled nothing is looked at.
InterruptedEnabled == enable /\ Pending # {}

\* interrupt() returns true: an interrupt is pending, and is served or ends a HALT.
Interrupted == (enable \/ halted) /\ Pending # {}

\* push()
Push(word) ==
    /\ sp' = Wrap(sp - 2)
    /\ mem' = [mem EXCEPT ![Wrap(sp - 1)] = word \div BYTE, ![Wrap(sp - 2)] = word % BYTE]

\* pop(): the word, whose bytes stay in memory.
Popped == BYTE * mem[Wrap(sp + 1)] + mem[sp]
Pop == sp' = Wrap(sp + 2) /\ frames' = Front(frames) /\ UNCHANGED mem

\* Slip: interrupts stay enabled in the handler.
DispatchOpen ==
    IF Interrupted /\ enable
       THEN /\ Push(pc) /\ frames' = Append(frames, Frame("handler", pc))
            /\ flags' = flags \ {First} /\ enable' = enable /\ served' = First
       ELSE UNCHANGED <<sp, mem, frames, flags, enable>> /\ served' = None

\* interrupt(): the first pending source is dispatched if interrupts are enabled.
Dispatch ==
    IF Interrupted /\ enable
       THEN /\ Push(pc) /\ frames' = Append(frames, Frame("handler", pc))
            /\ flags' = flags \ {First} /\ enable' = FALSE /\ served' = First
       ELSE UNCHANGED <<sp, mem, frames, flags, enable>> /\ served' = None

\* cycle(): interrupt(), and the beginning of execute(), which fetches an instruction and its
\* operands, and leaves the program counter after them, unless the processor stays halted.  A
\* conditional instruction whose condition does not hold does nothing more.
Cycle ==
    /\ at.op = "cycle"
    /\ Dispatch
    /\ IF halted /\ ~Interrupted
          THEN at' = In("idle") /\ UNCHANGED <<halted, pc>>
          ELSE LET next == IF served' = None THEN pc ELSE Vector[served']
               IN /\ next \in DOMAIN Code /\ halted' = FALSE
                  /\ \E i \in Code[next] :
                        /\ Sensible(i.op, frames')
                        /\ \/ at' = [op |-> i.op, args |-> i.args]
                           \/ i.conditional /\ at' = In("other")
                        /\ pc' = Wrap(next + Length[i.op])
    /\ raised' = {}
    /\ UNCHANGED <<pair, mask, operand>>

\* Clock::tick(): a device raises an interrupt.  It ends every idle cycle, and comes before
\* the handler of every instruction (for those that tick after it, that is the same to the
\* flags) and between the read and the write of a modification.
Raise ==
    /\ at.op # "cycle"
    /\ \E s \in Sources : s \notin flags /\ flags' = flags \cup {s} /\ raised' = raised \cup {s}
    /\ served' = None
    /\ UNCHANGED <<at, flowVars, mask, enable, halted, operand>>

\* The instruction is executed, and cycle() returns.
Executes(op) == at.op = op /\ at' = Between /\ served' = None

Idle ==                                              \* execute() while halted
    /\ Executes("idle")
    /\ UNCHANGED <<flowVars, interruptVars, halted>>

-----------------------------------------------------------------------------
(* The handlers of the instructions, after the ticks of the instruction.   *)

Other ==
    /\ Executes("other")
    /\ UNCHANGED <<flowVars, interruptVars, halted>>

\* Is the i-th frame that of the handler that is executed?
Innermost(i) ==
    frames[i].kind = "handler" /\ \A j \in DOMAIN frames : frames[j].kind = "handler" => j <= i

EnableInterrupts ==                                  \* EI
    /\ Executes("EI")
    /\ enable' = TRUE
    /\ frames' = [i \in DOMAIN frames |->
                     IF Innermost(i) THEN [frames[i] EXCEPT !.opened = TRUE] ELSE frames[i]]
    /\ UNCHANGED <<pc, sp, pair, mem, mask, flags, operand, raised, halted>>

DisableInterrupts ==                                 \* DI
    /\ Executes("DI")
    /\ enable' = FALSE
    /\ UNCHANGED <<flowVars, mask, flags, operand, raised, halted>>

Halt ==                                              \* HALT
    /\ Executes("HALT")
    /\ halted' = TRUE
    /\ UNCHANGED <<flowVars, interruptVars>>

Jump ==                                              \* jump()
    /\ \/ Executes("JP") /\ pc' = at.args
       \/ Executes("JPhl") /\ pc' = pair
       \/ Executes("JR") /\ pc' = Wrap(pc + at.args - (IF 2 * at.args >= BYTE THEN BYTE ELSE 0))
    /\ UNCHANGED <<sp, pair, mem, frames, interruptVars, halted>>

\* Slip: the jump comes before the push.
CallJumpsFirst ==
    /\ Executes("CALL") \/ Executes("RST")
    /\ Push(at.args) /\ pc' = at.args
    /\ frames' = Append(frames, Frame("call", pc))
    /\ UNCHANGED <<pair, interruptVars, halted>>

Call ==                                              \* call(), rst()
    /\ Executes("CALL") \/ Executes("RST")
    /\ Push(pc) /\ pc' = at.args
    /\ frames' = Append(frames, Frame("call", pc))
    /\ UNCHANGED <<pair, interruptVars, halted>>

\* ret(), which RETI lets enable interrupts.
Return ==
    /\ \/ Executes("RET") /\ UNCHANGED enable
       \/ Executes("RETI") /\ enable' = TRUE
    /\ Pop /\ pc' = Popped
    /\ UNCHANGED <<pair, mask, flags, operand, raised, halted>>

PushPair ==                                          \* PUSH
    /\ Executes("PUSH")
    /\ Push(pair) /\ frames' = Append(frames, Frame("saved", pair))
    /\ UNCHANGED <<pc, pair, interruptVars, halted>>

PopPair ==                                           \* POP
    /\ Executes("POP")
    /\ Pop /\ pair' = Popped
    /\ UNCHANGED <<pc, interruptVars, halted>>

LoadPair ==                                          \* load() of a word
    /\ Executes("load")
    /\ pair' = at.args
    /\ UNCHANGED <<pc, sp, mem, frames, interruptVars, halted>>

StoreFlags ==                                        \* a load to the flags register
    /\ Executes("storeFlags")
    /\ flags' \in SUBSET Sources
    /\ UNCHANGED <<flowVars, mask, enable, operand, raised, halted>>

StoreMask ==                                         \* a load to the mask
    /\ Executes("storeMask")
    /\ mask' \in SUBSET Sources
    /\ UNCHANGED <<flowVars, flags, enable, operand, raised, halted>>

\* Slip: the byte is not read again.
ReadFlagsNever ==
    /\ at.op = "modifyFlags" /\ at' = In("modified") /\ served' = None
    /\ raised' = {}
    /\ UNCHANGED <<flowVars, mask, flags, operand, enable, halted>>

\* res(address, which), set(address, which): the byte is read, one tick passes, and the byte
\* is written.
ReadFlags ==
    /\ at.op = "modifyFlags" /\ at' = In("modified") /\ served' = None
    /\ operand' = flags /\ raised' = {}
    /\ UNCHANGED <<flowVars, mask, flags, enable, halted>>

WriteFlags ==
    /\ Executes("modified")
    /\ \E s \in Sources : flags' \in {operand \ {s}, operand \cup {s}}
    /\ operand' = {}
    /\ UNCHANGED <<flowVars, mask, enable, raised, halted>>

Instruction ==
    \/ Idle \/ Other \/ EnableInterrupts \/ DisableInterrupts \/ Halt
    \/ Jump \/ Call \/ Return \/ PushPair \/ PopPair \/ LoadPair
    \/ StoreFlags \/ StoreMask \/ ReadFlags \/ WriteFlags

Next == Cycle \/ Raise \/ Instruction

Spec == Init /\ [][Next]_vars

\* The CPU thread keeps executing; a game always has a next instruction.
FairSpec == Spec /\ WF_vars(Cycle) /\ WF_vars(Instruction)

-----------------------------------------------------------------------------
(* Properties                                                              *)

\* Every variable has the type its declaration gives it.
TypeOK ==
    /\ at \in [op : Instructions \cup {"cycle", "idle", "modified"}, args : Addresses]
    /\ pc \in Addresses /\ sp \in Addresses /\ pair \in Addresses /\ mem \in [Ram -> 0..(BYTE - 1)]
    /\ mask \subseteq Sources /\ flags \subseteq Sources /\ operand \subseteq Sources
    /\ enable \in BOOLEAN /\ halted \in BOOLEAN
    /\ frames \in Seq([kind : {"handler", "call", "saved"}, word : Addresses, opened : BOOLEAN])
    /\ raised \subseteq Sources /\ served \in Sources \cup {None}

\* A handler is interrupted only if it has enabled interrupts itself, through any nesting of
\* handlers, routines and returns (interrupt(), ret()).
HandlersRunAlone ==
    \A i \in DOMAIN frames :
        frames[i].kind = "handler" => frames[i].opened \/ Innermost(i)

\* Whatever is called, saved and interrupted in between, an instruction that returns goes on
\* after the call or at the instruction that was interrupted, and one that pops restores what
\* was pushed (push(), pop(), call(), ret(), interrupt()).
ReturnsRestore ==
    [][Len(frames') < Len(frames) =>
          IF Last(frames).kind = "saved" THEN pair' = Last(frames).word
                                         ELSE pc' = Last(frames).word]_vars

\* An instruction that resets or sets one flag loses another only if that was raised in the
\* tick between its read and its write (res(), set(), execute()).
LostOnlyWithinTheTick ==
    [][at.op = "modified" /\ at'.op = "cycle" =>
          \E s \in Sources : flags \ flags' \subseteq {s} \cup raised]_vars

\* A pending interrupt ends a HALT, also with interrupts disabled (interrupt(), execute()).
PendingEndsHalt == halted /\ Pending # {} ~> ~halted
=============================================================================

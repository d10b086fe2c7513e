-------------------------------- MODULE Alu --------------------------------
(***************************************************************************)
(* The arithmetic of the processor (src/src/hardware/processor.cpp,        *)
(* 328-895): every instruction on 8 and 16 bit values with its four flags, *)
(* and a machine that executes any sequence of them on the accumulator.    *)
(* The properties compare instructions with integer arithmetic and with    *)
(* each other.                                                             *)
(*                                                                         *)
(* The names of the specification differ from those of Processor, beside   *)
(* which Processor_proofs uses it.                                         *)
(***************************************************************************)
EXTENDS Integers

CONSTANT Operands   \* the bytes an instruction is given beside the accumulator

ASSUME OperandsAssumption == Operands \subseteq 0..255

VARIABLES a, f      \* m_gpr.a, and the flags m_flags

aluVars == <<a, f>>

Byte == 0..255
Flags == [z : BOOLEAN, n : BOOLEAN, h : BOOLEAN, c : BOOLEAN]

AluInit == a = 0 /\ f = [z |-> FALSE, n |-> FALSE, h |-> FALSE, c |-> FALSE]

-----------------------------------------------------------------------------
(* An instruction takes its operands and the flags, and returns the value  *)
(* v and the flags f it leaves.                                            *)

Result(v, z, n, h, c) == [v |-> v, f |-> [z |-> z, n |-> n, h |-> h, c |-> c]]
One(condition) == IF condition THEN 1 ELSE 0
Weight == <<1, 2, 4, 8, 16, 32, 64, 128>>          \* 1 << i, for the bit i at i + 1
BitOf(value, i) == (value \div Weight[i + 1]) % 2

Add8(x, y, flags, carry) ==                               \* add8()
    LET adjust == One(carry /\ flags.c)
        result == x + y + adjust
    IN Result(result % 256, result % 256 = 0, FALSE,
              (x % 16) + (y % 16) + adjust > 15, result > 255)

Sub8(x, y, flags, carry) ==                               \* sub8(), sbc()
    LET adjust == One(carry /\ flags.c)
        result == (x - (y + adjust)) % 256
    IN Result(result, result = 0, TRUE, x % 16 < (y % 16) + adjust, x < y + adjust)

\* Slip: the half carry of a comparison misses the case of equal low nibbles.
CompareEqual(x, y) ==
    Result(x, x = y, TRUE, (x - y) % 16 >= x % 16, x < y)

Compare(x, y) ==                                          \* compare()
    Result(x, x = y, TRUE, (x - y) % 16 > x % 16, x < y)

Inc(x, flags) ==                                          \* inc()
    Result((x + 1) % 256, (x + 1) % 256 = 0, FALSE, x % 16 = 15, flags.c)

Dec(x, flags) ==                                          \* dec()
    LET result == (x - 1) % 256 IN Result(result, result = 0, TRUE, result % 16 = 15, flags.c)

Add16(x, y, flags) ==                                     \* add16(reg, value)
    Result((x + y) % 65536, flags.z, FALSE, (x % 4096) + (y % 4096) > 4095, x + y > 65535)

Signed(y) == IF y < 128 THEN y ELSE y - 256

AddSigned(x, y) ==                                        \* add16(dest, reg, value)
    Result((x + Signed(y)) % 65536, FALSE, FALSE, (x % 16) + (y % 16) > 15, (x % 256) + y > 255)

Swap(x) ==                                                \* swap()
    LET result == (x % 16) * 16 + (x \div 16) IN Result(result, result = 0, FALSE, FALSE, FALSE)

RotateL(x, flags, wrap, ignoreZero) ==                    \* rotatel(), sla()
    LET result == ((2 * x) % 256) + One(wrap /\ flags.c)
    IN Result(result, ~ignoreZero /\ result = 0, FALSE, FALSE, x >= 128)

RotateR(x, flags, wrap, ignoreZero) ==                    \* rotater(), srl()
    LET result == (x \div 2) + 128 * One(wrap /\ flags.c)
    IN Result(result, ~ignoreZero /\ result = 0, FALSE, FALSE, x % 2 = 1)

Rlc(x, ignoreZero) ==                                     \* rlc()
    LET result == ((2 * x) % 256) + (x \div 128)
    IN Result(result, ~ignoreZero /\ result = 0, FALSE, FALSE, x >= 128)

Rrc(x, ignoreZero) ==                                     \* rrc()
    LET result == (x \div 2) + 128 * (x % 2)
    IN Result(result, ~ignoreZero /\ result = 0, FALSE, FALSE, x % 2 = 1)

Sra(x) ==                                                 \* sra()
    LET result == (x \div 2) + 128 * (x \div 128)
    IN Result(result, result = 0, FALSE, FALSE, x % 2 = 1)

Complement(x, flags) == Result(255 - x, flags.z, TRUE, TRUE, flags.c)     \* compliment()
Scf(x, flags) == Result(x, flags.z, FALSE, FALSE, TRUE)                   \* scf()
Ccf(x, flags) == Result(x, flags.z, FALSE, FALSE, ~flags.c)               \* ccf()

\* bit(), set() and res() of one bit of a byte.
Bit(x, which, flags) == Result(x, BitOf(x, which) = 0, FALSE, TRUE, flags.c)
Set(x, which) == x + Weight[which + 1] * (1 - BitOf(x, which))
Res(x, which) == x - Weight[which + 1] * BitOf(x, which)

\* and8(), or8() and xor8(), bit by bit.
Bitwise8(Op(_, _), x, y) ==
    LET b(i) == Op(BitOf(x, i), BitOf(y, i))
    IN b(0) + 2 * b(1) + 4 * b(2) + 8 * b(3) + 16 * b(4) + 32 * b(5) + 64 * b(6) + 128 * b(7)
And8(x, y) == LET r == Bitwise8(LAMBDA p, q : p * q, x, y) IN Result(r, r = 0, FALSE, TRUE, FALSE)
Or8(x, y) ==
    LET r == Bitwise8(LAMBDA p, q : p + q - p * q, x, y) IN Result(r, r = 0, FALSE, FALSE, FALSE)
Xor8(x, y) ==
    LET r == Bitwise8(LAMBDA p, q : (p + q) % 2, x, y) IN Result(r, r = 0, FALSE, FALSE, FALSE)

\* Slip: the half carry alone decides on the correction of the low digit.
DaaHalfOnly(x, flags) ==
    LET low == IF flags.n THEN IF flags.h THEN (x - 6) % 256 ELSE x
               ELSE IF flags.h THEN x + 6 ELSE x
        value == IF flags.n THEN IF flags.c THEN (low - 96) % 65536 ELSE low
                 ELSE IF flags.c \/ low > 159 THEN low + 96 ELSE low
    IN Result(value % 256, value % 256 = 0, flags.n, FALSE, flags.c \/ value >= 256)

\* daa(), on the value widened to 16 bits.
Daa(x, flags) ==
    LET low == IF flags.n THEN IF flags.h THEN (x - 6) % 256 ELSE x
               ELSE IF flags.h \/ x % 16 > 9 THEN x + 6 ELSE x
        value == IF flags.n THEN IF flags.c THEN (low - 96) % 65536 ELSE low
                 ELSE IF flags.c \/ low > 159 THEN low + 96 ELSE low
    IN Result(value % 256, value % 256 = 0, flags.n, FALSE, flags.c \/ value >= 256)

-----------------------------------------------------------------------------
Execute(result) == a' = result.v /\ f' = result.f

(* The opcode table (hardware/opcodes.cpp), in its order.                  *)

\* ADC, ADD, AND, CCF, CP, CPL, DAA, DEC and INC; and OR, SCF, SBC, SUB and XOR.
Arithmetic ==
    \/ \E y \in Operands, carry \in BOOLEAN : Execute(Add8(a, y, f, carry))
    \/ \E y \in Operands : Execute(And8(a, y)) \/ Execute(Compare(a, y))
    \/ Execute(Ccf(a, f)) \/ Execute(Complement(a, f)) \/ Execute(Daa(a, f))
    \/ Execute(Dec(a, f)) \/ Execute(Inc(a, f))
Subtraction ==
    \/ \E y \in Operands, carry \in BOOLEAN : Execute(Sub8(a, y, f, carry))
    \/ \E y \in Operands : Execute(Or8(a, y)) \/ Execute(Xor8(a, y))
    \/ Execute(Scf(a, f))

\* RLA, RLCA, RRA and RRCA, which clear the zero flag; RL, RLC, RRC and RR; SLA, SRA, SWAP
\* and SRL.
RotateA ==
    \/ Execute(RotateL(a, f, TRUE, TRUE)) \/ Execute(Rlc(a, TRUE))
    \/ Execute(RotateR(a, f, TRUE, TRUE)) \/ Execute(Rrc(a, TRUE))
Rotate ==
    \/ Execute(RotateL(a, f, TRUE, FALSE)) \/ Execute(Rlc(a, FALSE))
    \/ Execute(RotateR(a, f, TRUE, FALSE)) \/ Execute(Rrc(a, FALSE))
Shift ==
    \/ Execute(RotateL(a, f, FALSE, FALSE)) \/ Execute(RotateR(a, f, FALSE, FALSE))
    \/ Execute(Sra(a)) \/ Execute(Swap(a))

TestBit  == \E which \in 0..7 : Execute(Bit(a, which, f))
ResetBit == \E which \in 0..7 : a' = Res(a, which) /\ f' = f
SetBit   == \E which \in 0..7 : a' = Set(a, which) /\ f' = f

AluNext == Arithmetic \/ Subtraction \/ RotateA \/ Rotate \/ Shift \/ TestBit \/ ResetBit \/ SetBit

AluSpec == AluInit /\ [][AluNext]_aluVars

-----------------------------------------------------------------------------
(* Properties                                                              *)

\* The accumulator and the flags keep their widths, whatever is executed (m_gpr).
AluTypeOK == a \in Byte /\ f \in Flags

\* The logical instructions obey the laws that games use them by: SET is an OR, RES an AND with
\* the complement, BIT reads what they left, and OR is XOR plus AND (set(), res(), or8(), ...).
BitsAgree ==
    /\ \A which \in 0..7 :
          /\ Set(a, which) = Or8(a, Weight[which + 1]).v /\ ~Bit(Set(a, which), which, f).f.z
          /\ Res(a, which) = And8(a, Complement(Weight[which + 1], f).v).v
          /\ Bit(Res(a, which), which, f).f.z
    /\ \A y \in Operands : Or8(a, y).v = Xor8(a, y).v + And8(a, y).v

Decimal(x) == 10 * (x \div 16) + (x % 16)
IsDecimal(x) == x % 16 < 10 /\ x \div 16 < 10

\* DAA after ADD or ADC of two decimal bytes leaves their decimal sum, its hundreds in the
\* carry; after SUB or SBC their difference, with the borrow in the carry (daa(), add8(),
\* sub8()).
DecimalAdjust ==
    IsDecimal(a) => \A y \in {y \in Operands : IsDecimal(y)}, carry \in BOOLEAN :
        LET added == Add8(a, y, f, carry)  sum == Daa(added.v, added.f)
            taken == Sub8(a, y, f, carry)  rest == Daa(taken.v, taken.f)
        IN /\ IsDecimal(sum.v)
           /\ Decimal(sum.v) + 100 * One(sum.f.c) = Decimal(a) + Decimal(y) + One(carry /\ f.c)
           /\ IsDecimal(rest.v)
           /\ Decimal(rest.v) - 100 * One(rest.f.c) = Decimal(a) - Decimal(y) - One(carry /\ f.c)

\* Arithmetic on wider numbers is made of ADD on the low bytes and ADC on the high ones: it
\* gives the value, the carry and the half carry of the 16 bit ADD, which the code computes
\* by other formulas (add8(), add16()).
WideAddition ==
    \A high, low \in Operands :
        LET lows == Add8(low, a, f, FALSE)  highs == Add8(a, high, lows.f, TRUE)
            wide == Add16(256 * a + low, 256 * high + a, f)
        IN wide.v = 256 * highs.v + lows.v /\ wide.f.c = highs.f.c /\ wide.f.h = highs.f.h

\* A comparison leaves the flags of the subtraction, whose formulas differ, and SUB and SBC
\* undo ADD and ADC with the same borrow as carry (compare(), sub8()).
CompareIsSubtract ==
    \A y \in Operands :
        /\ Compare(a, y).f = Sub8(a, y, f, FALSE).f
        /\ \A carry \in BOOLEAN :
              LET sum == Add8(a, y, f, carry)  back == Sub8(sum.v, y, f, carry)
              IN back.v = a /\ back.f.c = sum.f.c /\ back.f.h = sum.f.h

\* Adding a signed offset to SP and then its opposite restores SP, and the carry is the one
\* of the low byte (add16(dest, reg, value)).
OffsetIsUndone ==
    \A high, y \in Operands :
        LET there == AddSigned(256 * high + a, y)
            back == AddSigned(there.v, (256 - y) % 256)
        IN /\ there.f.c = Add8(a, y, f, FALSE).f.c /\ there.f.h = Add8(a, y, f, FALSE).f.h
           /\ y # 128 => back.v = 256 * high + a

\* The rotations through the carry are inverses on nine bits, those around the byte on eight;
\* SLA doubles, SRL and SRA halve an unsigned and a signed number, and SWAP is four RLC.
RotationsAreInverse ==
    /\ LET left == RotateL(a, f, TRUE, FALSE)  right == RotateR(left.v, left.f, TRUE, FALSE)
       IN right.v = a /\ right.f.c = f.c
    /\ Rrc(Rlc(a, FALSE).v, FALSE).v = a
    /\ RotateL(a, f, FALSE, FALSE).f.c = Add8(a, a, f, FALSE).f.c
    /\ RotateL(a, f, FALSE, FALSE).v = Add8(a, a, f, FALSE).v
    /\ Signed(Sra(a).v) = Signed(a) \div 2 /\ RotateR(a, f, FALSE, FALSE).v = a \div 2
    /\ LET twice(x) == Rlc(Rlc(x, FALSE).v, FALSE).v IN twice(twice(a)) = Swap(a).v

\* Operations that undo or express one another agree in value and flags, although each has a
\* formula of its own in the code.
OperationsAgree ==
    BitsAgree /\ WideAddition /\ CompareIsSubtract /\ OffsetIsUndone /\ RotationsAreInverse
=============================================================================

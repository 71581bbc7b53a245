------------------------------- MODULE Words -------------------------------
(***************************************************************************)
(* What the translator makes of LLVM's integers: an iN is held in a        *)
(* register of the VM, whose opcodes know one width (and lshr another),    *)
(* and every result is masked to N bits.  A value and its register are     *)
(* followed side by side through arithmetic, comparisons and casts.        *)
(*                                                                         *)
(* Two operands stand for the values of a function: acc, the last result,  *)
(* and arg.  FullWidth is the 64 bits of a register, HalfWidth the 32 bits *)
(* lshr works on.  The rest of the VM is in Rbvm, which has the ALU as a   *)
(* parameter.                                                              *)
(***************************************************************************)
EXTENDS Integers

CONSTANTS
    FullWidth, HalfWidth,
    Types,                          \* the widths of integer types
    BitAnd(_, _), BitOr(_, _), BitXor(_, _)   \* the operators &, | and ^ of C++

ASSUME WidthAssumption ==
    /\ FullWidth \in Nat \ {0} /\ HalfWidth \in 1 .. FullWidth
    /\ Types \subseteq 1 .. FullWidth /\ 1 \in Types

pow2[n \in Nat] == IF n = 0 THEN 1 ELSE 2 * pow2[n - 1]
Bits(n) == 0 .. pow2[n] - 1
Wrap(v, n) == v % pow2[n]
Signed(v, n) == IF v < pow2[n - 1] THEN v ELSE v - pow2[n]
Bool(p) == IF p THEN 1 ELSE 0

\* The bitwise operators work on words, and the lower bits of what they give
\* come from the lower bits of what they are given.
ASSUME BitwiseAssumption ==
    \A a, b \in Bits(FullWidth) :
        /\ {BitAnd(a, b), BitOr(a, b), BitXor(a, b)} \subseteq Bits(FullWidth)
        /\ \A n \in 1 .. FullWidth :
            /\ Wrap(BitAnd(a, b), n) = BitAnd(Wrap(a, n), Wrap(b, n))
            /\ Wrap(BitOr(a, b), n) = BitOr(Wrap(a, n), Wrap(b, n))
            /\ Wrap(BitXor(a, b), n) = BitXor(Wrap(a, n), Wrap(b, n))

VARIABLES
    width,      \* of the type of both operands
    acc, arg    \* [val, reg]: the value of LLVM, and what its register holds

vars == <<width, acc, arg>>

ZeroExtended(x) == x.reg = x.val
SignExtended(x) == x.reg = Wrap(Signed(x.val, width), FullWidth)

\* No register has bits beyond the type of its value, but those a constant
\* has of its sign: every result is masked.
TypeOK ==
    /\ width \in Types
    /\ {acc, arg} \subseteq [val : Bits(width), reg : Bits(FullWidth)]
    /\ \A x \in {acc, arg} : x.reg \in Bits(width) \/ SignExtended(x)

\* A load, ld reads an unsigned type, or a parameter that was given one.
Loaded(v) == [val |-> v, reg |-> v]

Init ==
    /\ width \in Types
    /\ \E v \in Bits(width) : acc = Loaded(v)
    /\ arg = Loaded(0)

-----------------------------------------------------------------------------
(* The opcodes, on registers of FullWidth bits *)

Modular == {"iadd", "isub", "smul", "and", "or", "xor"}
Divisions == {"udiv", "sdiv", "urem", "srem"}
Shifts == {"shl", "lshr", "ashr"}
Comparisons == {"eq", "ne", "ult", "ule", "ugt", "uge", "slt", "sle", "sgt", "sge"}

\* The lambdas of sdiv, srem and ashr take uint64_t: they are unsigned.  lshr
\* reads uint32_t.  A shift by the width or more is undefined in C++, and
\* takes the amount modulo the width where it is an instruction of the CPU.
Alu(op, a, b) ==
    CASE op = "iadd" -> Wrap(a + b, FullWidth)
      [] op = "isub" -> Wrap(a - b, FullWidth)
      [] op = "smul" -> Wrap(a * b, FullWidth)
      [] op = "and" -> BitAnd(a, b)
      [] op = "or" -> BitOr(a, b)
      [] op = "xor" -> BitXor(a, b)
      [] op \in {"udiv", "sdiv"} -> a \div b
      [] op \in {"urem", "srem"} -> a % b
      [] op = "shl" -> Wrap(a * pow2[b % FullWidth], FullWidth)
      [] op = "ashr" -> a \div pow2[b % FullWidth]
      [] op = "lshr" -> Wrap(a, HalfWidth) \div pow2[b % HalfWidth]

\* The lambdas of these take int64_t.
Less_Unsigned(a, b) == a < b
Less(a, b) == Signed(a, FullWidth) < Signed(b, FullWidth)

Test(op, a, b) ==
    CASE op = "eq" -> a = b  [] op = "ne" -> a # b
      [] op = "ult" -> a < b [] op = "ule" -> a <= b
      [] op = "ugt" -> a > b [] op = "uge" -> a >= b
      [] op = "slt" -> Less(a, b) [] op = "sle" -> ~Less(b, a)
      [] op = "sgt" -> Less(b, a) [] op = "sge" -> ~Less(a, b)

-----------------------------------------------------------------------------
(* The instructions of LLVM *)

\* C's division rounds towards zero.
Abs(a) == IF a < 0 THEN -a ELSE a
Quotient(a, b) ==
    IF (a < 0) = (b < 0) THEN Abs(a) \div Abs(b) ELSE -(Abs(a) \div Abs(b))

Meaning(op, a, b, n) ==
    LET s == Signed(a, n)
        t == Signed(b, n)
    IN  Wrap(CASE op = "sdiv" -> Quotient(s, t)
               [] op = "srem" -> s - t * Quotient(s, t)
               [] op = "shl" -> a * pow2[b]
               [] op = "lshr" -> a \div pow2[b]
               [] op = "ashr" -> s \div pow2[b]
               [] op = "iadd" -> a + b
               [] op = "isub" -> a - b
               [] op = "smul" -> a * b
               [] op = "and" -> BitAnd(a, b) [] op = "or" -> BitOr(a, b) [] op = "xor" -> BitXor(a, b)
               [] op = "udiv" -> a \div b [] op = "urem" -> a % b, n)

Holds(op, a, b, n) ==
    LET s == Signed(a, n)
        t == Signed(b, n)
    IN  CASE op = "eq" -> a = b  [] op = "ne" -> a # b
          [] op = "ult" -> a < b [] op = "ule" -> a <= b
          [] op = "ugt" -> a > b [] op = "uge" -> a >= b
          [] op = "slt" -> s < t [] op = "sle" -> s <= t
          [] op = "sgt" -> s > t [] op = "sge" -> s >= t

\* Undefined in LLVM: no program does it.
Defined(op) ==
    /\ op \in Divisions => arg.val # 0
    /\ op \in Shifts => arg.val < width
    /\ op \in {"sdiv", "srem"} =>
          ~(Signed(arg.val, width) = -1 /\ acc.val = pow2[width - 1])

-----------------------------------------------------------------------------
(* The translator: instructions and constants *)

\* writeCastTo: and with the mask of the type, except for 64 bits.
Cast_NarrowOnly(reg, n) == IF n >= HalfWidth THEN reg ELSE Wrap(reg, n)
Cast_SignLost(reg, n) == IF n = FullWidth THEN reg ELSE Wrap(reg, n - 1)
Cast(reg, n) == IF n = FullWidth THEN reg ELSE Wrap(reg, n)

\* printConstant: mov of the sign-extended value; the register writeCastTo
\* puts the masked value in is not the one that is returned.
ConstantReg(v) ==
    IF width = 1 THEN v ELSE Wrap(Signed(v, width), FullWidth)

Load(v) ==
    /\ arg' = Loaded(v)
    /\ UNCHANGED <<width, acc>>

\* A constant, or a parameter that was given one.
Constant(v) ==
    /\ arg' = [val |-> v, reg |-> ConstantReg(v)]
    /\ UNCHANGED <<width, acc>>

\* A phi node: a branch copies the register, a constant's as well, and the
\* node masks it where it stands in its block.
Phi ==
    /\ acc' = [val |-> arg.val, reg |-> Cast(arg.reg, width)]
    /\ UNCHANGED <<width, arg>>

\* A constant or a parameter as the first operand of an instruction.
First ==
    /\ acc' = arg
    /\ UNCHANGED <<width, arg>>

\* visitBinaryOperator: its result.
Result(op) == [val |-> Meaning(op, acc.val, arg.val, width),
               reg |-> Cast(Alu(op, acc.reg, arg.reg), width)]

Binary(op) ==
    /\ Defined(op)
    /\ op \in Divisions => arg.reg # 0
    /\ acc' = Result(op)
    /\ UNCHANGED <<width, arg>>

\* visitICmpInst: its result, of type i1.
Truth(op) == [val |-> Bool(Holds(op, acc.val, arg.val, width)),
              reg |-> Cast(Bool(Test(op, acc.reg, arg.reg)), 1)]

Compare(op) ==
    /\ width' = 1
    /\ acc' = Truth(op)
    /\ arg' = Loaded(0)

\* visitCastInst: whatever the cast, the register is masked to the type of the
\* result, which does nothing when that type is the wider one.
CastTo_Source(n) == width
CastTo(n) == n

Casts(n) == IF n < width THEN {"trunc"} ELSE {"zext", "sext"}
Converted(kind, n) ==
    [val |-> Wrap(IF kind = "sext" THEN Signed(acc.val, width) ELSE acc.val, n),
     reg |-> Cast(acc.reg, CastTo(n))]

CastInst(kind, n) ==
    /\ n # width /\ kind \in Casts(n)
    /\ width' = n
    /\ acc' = Converted(kind, n)
    /\ arg' = Loaded(0)

Next ==
    \/ \E v \in Bits(width) : Load(v) \/ Constant(v)
    \/ Phi \/ First
    \/ \E op \in Modular \cup Divisions \cup Shifts : Binary(op)
    \/ \E op \in Comparisons : Compare(op)
    \/ \E kind \in {"trunc", "zext", "sext"}, n \in Types : CastInst(kind, n)

Spec == Init /\ [][Next]_vars

-----------------------------------------------------------------------------
(* Properties.  A register holds its value as zeros or as the sign would    *)
(* extend it: the results of instructions are of the first form, constants  *)
(* of the second, and arguments hand both on.                               *)

Congruent(x) == Wrap(x.reg, width) = x.val
Positive(x) == x.reg = Signed(x.val, width)

\* Operands for which an opcode does what the instruction asks for.
Within(op) ==
    CASE op \in Modular \cup {"shl"} -> Congruent(acc) /\ Congruent(arg)
      [] op \in {"udiv", "urem"} -> ZeroExtended(acc) /\ ZeroExtended(arg)
      [] op \in {"sdiv", "srem"} -> Positive(acc) /\ Positive(arg)
      [] op = "ashr" -> Positive(acc) /\ ZeroExtended(arg)
      [] op = "lshr" -> /\ ZeroExtended(acc) /\ ZeroExtended(arg)
                        /\ acc.val < pow2[HalfWidth] /\ arg.val < HalfWidth

Comparable(op) ==
    \/ SignExtended(acc) /\ SignExtended(arg)
    \/ /\ op \notin {"slt", "sle", "sgt", "sge"}
       /\ ZeroExtended(acc) /\ ZeroExtended(arg)

\* Addition, multiplication, the logical operations and shifts to the left are
\* right for all operands, constants included; unsigned division for results of instructions;
\* signed division and shifts to the right for values that are not negative,
\* and lshr for those that fit in 32 bits.
ArithmeticExact ==
    \A op \in Modular \cup Divisions \cup Shifts :
        Defined(op) /\ Within(op) => ZeroExtended(Result(op))

\* A comparison is right when both sides are held in the same form, the
\* sign-extended one if it is signed.
ComparisonsExact ==
    \A op \in Comparisons : Comparable(op) => ZeroExtended(Truth(op))

\* A truncation is right; so are a zext of the result of an instruction and
\* a sext of a value held with its sign.
Castable(kind) ==
    CASE kind = "trunc" -> Congruent(acc)
      [] kind = "zext" -> ZeroExtended(acc)
      [] kind = "sext" -> SignExtended(acc)

CastsExact ==
    \A n \in Types \ {width} : \A kind \in Casts(n) :
        Castable(kind) => ZeroExtended(Converted(kind, n))
=============================================================================

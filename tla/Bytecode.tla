------------------------------ MODULE Bytecode ------------------------------
(***************************************************************************)
(* Bytecode files as src/vm/RBVM.cpp reads them: what an instruction is,   *)
(* how many bytes it takes, and what the translator has to guarantee about *)
(* a file before the VM runs it.                                           *)
(*                                                                         *)
(* A file is a function from the offsets of its instructions to the        *)
(* decoded instructions, with its size and the offsets of the instructions *)
(* that control can come to.  Offsets are the real byte offsets.           *)
(***************************************************************************)
EXTENDS Integers, Sequences

CONSTANTS
    LastReg,        \* the last register of a frame (255 in the code)
    WordMax,        \* the largest integer a register holds (2^64 - 1)
    Widths,         \* the widths of memory accesses (8, 16, 32, 64)
    Names,          \* names of functions and globals
    NameLen,        \* bytes of a name or of a string literal
    AluOps          \* two-operand instructions that write their first operand

Reg == 0 .. LastReg
Word == 0 .. WordMax

ASSUME BytecodeAssumption ==
    /\ LastReg \in Nat
    /\ WordMax \in Nat \ {0}
    /\ NameLen \in Nat

-----------------------------------------------------------------------------
(* An instruction is a record of the fields its opcode reads; k is the     *)
(* has_const byte, c the constant, off the offset of a jump.               *)

OpCodes == {"fd", "alu", "ineg", "gg", "sg", "css", "css_dyn", "ld", "st",
            "lea", "jmp", "jz", "jnz", "call", "ret", "leave", "wrong"}

Instructions ==
    [op : OpCodes, f : AluOps, r1 : Reg, r2 : Reg, k : BOOLEAN, c : Word,
     w : Widths, name : Names, nargs : Nat, nskip : Nat, off : Int,
     args : Seq(Reg)]

\* The bytes an instruction takes, its operands included.
Length(x) ==
    CASE x.op \in {"leave", "wrong"} -> 1
      [] x.op = "ineg" -> 2
      [] x.op \in {"lea", "css_dyn"} -> 3
      [] x.op \in {"gg", "sg", "css"} -> 6 + NameLen
      [] x.op = "fd" -> 21 + NameLen
      [] x.op = "jmp" -> 9
      [] x.op \in {"jz", "jnz"} -> 10
      [] x.op = "call" -> 2 + Len(x.args)
      [] x.op = "ret" -> IF x.k THEN 10 ELSE 3
      [] x.op = "alu" -> IF ~x.k THEN 4 ELSE IF x.f = "lshr" THEN 7 ELSE 11
      [] OTHER -> IF x.k THEN 11 ELSE 4

Sites(p) == DOMAIN p.code                    \* instruction boundaries
Live(p) == p.live                            \* the sites control can come to
After(p, j) == j + Length(p.code[j])
Declarations(p) == {j \in Sites(p) : p.code[j].op = "fd"}
Past(p, j) == After(p, j) + p.code[j].nskip  \* the end of a declared body

InBody(p, j) ==
    \E d \in Declarations(p) : After(p, d) <= j /\ j < Past(p, d)

\* Where control can go from site j other than by a call or a return.
Targets(p, j) ==
    LET x == p.code[j]
    IN  CASE x.op = "fd" -> {Past(p, j)}
          [] x.op = "jmp" -> {j + x.off}
          [] x.op \in {"jz", "jnz"} -> {j + x.off, After(p, j)}
          [] x.op \in {"ret", "leave", "wrong"} -> {}
          [] OTHER -> {After(p, j)}

\* What the translator emits and the VM relies on without a test: where
\* control can come, it stays on instruction boundaries, no jump enters or
\* leaves the bodies of functions, and only a body returns.  Dead code, such
\* as the jump that follows the last branch of a body, is under no obligation.
WellFormed(p) ==
    /\ p.size \in Nat
    /\ Sites(p) \subseteq 0 .. p.size - 1
    /\ p.code \in [Sites(p) -> Instructions]
    /\ 0 \in Live(p) /\ Live(p) \subseteq Sites(p)
    /\ ~InBody(p, 0)
    /\ \A j \in Live(p) :
        /\ Len(p.code[j].args) <= LastReg
        /\ p.code[j].op \in {"ret", "leave"} => InBody(p, j)
        /\ p.code[j].op = "fd" => After(p, j) \in Live(p) /\ InBody(p, After(p, j))
        /\ \A t \in Targets(p, j) :
            /\ t \in Live(p) \cup {p.size}
            /\ InBody(p, t) <=> InBody(p, j)

\* The translator writes the instructions of a file one after the other.
Contiguous(p) ==
    \A j \in Sites(p) :
        /\ After(p, j) \in Sites(p) \cup {p.size}
        /\ \A k \in Sites(p) : k <= j \/ k >= After(p, j)
=============================================================================

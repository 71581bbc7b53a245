---------------------------- MODULE Disassembler ----------------------------
(***************************************************************************)
(* The disassembler, src/vm/disassembler.cpp: one pass over a bytecode     *)
(* file from its first byte to its last, each instruction printed on a     *)
(* line.  It decodes the file by code of its own, so that its idea of      *)
(* where an instruction ends has to agree with that of the VM, Length.     *)
(***************************************************************************)
EXTENDS BytecodeFiles

ASSUME ContiguousAssumption ==
    \A f \in DOMAIN Programs : Contiguous(Programs[f])

VARIABLES
    file,       \* the bytecode file
    i,          \* the offset of the next byte to read
    listing,    \* the instructions listed, by their offsets
    ended       \* the program is running, or is done, or has exited

vars == <<file, i, listing, ended>>

prog == Programs[file]

\* The type invariant: the pass never leaves the instruction boundaries.
TypeOK ==
    /\ file \in DOMAIN Programs
    /\ i \in Sites(prog) \cup {prog.size}
    /\ listing \subseteq Sites(prog)
    /\ ended \in {"running", "done", "exited"}

Init ==
    /\ file \in DOMAIN Programs
    /\ i = 0
    /\ listing = {}
    /\ ended = "running"

-----------------------------------------------------------------------------
(* Reading one instruction *)

command == prog.code[i]

Reads(ops) ==
    /\ ended = "running"
    /\ i < prog.size
    /\ command.op \in ops

\* Print a line and go on n bytes after the opcode.
Prints(n) ==
    /\ listing' = listing \cup {i}
    /\ i' = i + 1 + n
    /\ UNCHANGED <<file, ended>>

\* The bytes after the opcode of a declaration: the body is listed too.
HeaderBytes_IntSkip == 16 + NameLen
HeaderBytes == 20 + NameLen

Declaration ==
    /\ Reads({"fd"})
    /\ Prints(HeaderBytes)

\* gg, sg and css: a string and a register.
Named ==
    /\ Reads({"gg", "sg", "css"})
    /\ Prints(4 + NameLen + 1)

\* css_dyn and lea
TwoRegisters ==
    /\ Reads({"css_dyn", "lea"})
    /\ Prints(2)

OneRegister ==
    /\ Reads({"ineg"})
    /\ Prints(1)

\* The constant of lshr is read as an int32_t.
ConstantBytes_Documented(x) == 8
ConstantBytes(x) == IF x.op = "alu" /\ x.f = "lshr" THEN 4 ELSE 8

\* A register, then a constant or a second register.
RegisterAndValue ==
    /\ Reads({"alu", "ld", "st"})
    /\ Prints(IF command.k THEN 2 + ConstantBytes(command) ELSE 3)

Jump ==
    \/ Reads({"jmp"}) /\ Prints(8)
    \/ Reads({"jz", "jnz"}) /\ Prints(9)

\* One byte for each argument.
Call ==
    /\ Reads({"call"})
    /\ Prints(1 + Len(command.args))

Ret ==
    /\ Reads({"ret"})
    /\ Prints(IF command.k THEN 9 ELSE 2)

Leave ==
    /\ Reads({"leave"})
    /\ Prints(0)

\* The opcodes without a case of their own.
Unknown_CssDyn == {"wrong", "css_dyn"}
Unknown == {"wrong"}

\* "wrong command" ends the program.
WrongCommand ==
    /\ Reads(Unknown)
    /\ ended' = "exited"
    /\ UNCHANGED <<file, i, listing>>

End ==
    /\ ended = "running"
    /\ i >= prog.size
    /\ ended' = "done"
    /\ UNCHANGED <<file, i, listing>>

Next ==
    \/ Declaration \/ Named \/ TwoRegisters \/ OneRegister \/ RegisterAndValue
    \/ Jump \/ Call \/ Ret \/ Leave \/ WrongCommand \/ End

Spec == Init /\ [][Next]_vars

-----------------------------------------------------------------------------
(* Properties *)

\* What has been listed is every instruction below the offset reached, bodies
\* of functions included.
ListsSoFar == listing = {j \in Sites(prog) : j < i}

\* The pass stops early only at an opcode on which the VM would stop too.
StopsWhereVmStops ==
    /\ ended = "exited" => i \in Sites(prog) /\ command.op = "wrong"
    /\ ended = "done" => listing = Sites(prog)

\* The two decoders agree, on where instructions begin and on which they know.
ListsWhatRuns == ListsSoFar /\ StopsWhereVmStops
=============================================================================

------------------------- MODULE DisassemblerProofs -------------------------
(***************************************************************************)
(* The disassembler lists exactly the instructions of the VM, for every    *)
(* bytecode file: its invariant is inductive because each of its cases     *)
(* reads as many bytes as Length says.                                     *)
(***************************************************************************)
EXTENDS Disassembler, SequenceTheorems, TLAPS

Agreement == TypeOK /\ ListsWhatRuns

\* The file being read satisfies the assumptions on files.
LEMMA FileAssumptions ==
    ASSUME TypeOK
    PROVE  WellFormed(prog) /\ Contiguous(prog)
  BY ProgramsAssumption, ContiguousAssumption DEF TypeOK, prog

\* Before the end of the file, i is an instruction boundary.
LEMMA AtInstruction ==
    ASSUME TypeOK, i < prog.size
    PROVE  i \in Sites(prog) /\ command \in Instructions
<1>1. prog.size \in Nat /\ prog.code \in [Sites(prog) -> Instructions]
  BY FileAssumptions DEF WellFormed
<1>2. i \in Sites(prog)
  BY <1>1 DEF TypeOK
<1> QED
  BY <1>1, <1>2 DEF command

\* Instructions take at least one byte.
LEMMA LengthPositive ==
    ASSUME NEW x \in Instructions
    PROVE  Length(x) \in Nat \ {0}
<1>1. Len(x.args) \in Nat
  BY LenProperties DEF Instructions
<1> QED
  BY <1>1, BytecodeAssumption DEF Length

\* A case that reads the instruction to its end keeps the agreement.
LEMMA PrintsKeepsAgreement ==
    ASSUME Agreement, ended = "running", i < prog.size,
           NEW n, 1 + n = Length(command), n \in Int,
           Prints(n)
    PROVE  Agreement'
<1>1. WellFormed(prog) /\ Contiguous(prog)
  BY FileAssumptions DEF Agreement
<1>2. i \in Sites(prog) /\ command \in Instructions
  BY AtInstruction DEF Agreement
<1>3. Sites(prog) \subseteq Nat /\ prog.size \in Nat
  BY <1>1 DEF WellFormed
<1>4. i' = After(prog, i)
  BY <1>2, <1>3 DEF Prints, After, command
<1>5. i' > i
  BY <1>2, <1>3, <1>4, LengthPositive DEF After, command
<1>6. file' = file /\ prog' = prog /\ ended' = ended
  BY DEF Prints, prog
<1>7. listing' = listing \cup {i}
  BY DEF Prints
<1>8. i' \in Sites(prog) \cup {prog.size}
  BY <1>1, <1>2, <1>4 DEF Contiguous
<1>9. {j \in Sites(prog) : j < i'} = {j \in Sites(prog) : j < i} \cup {i}
  <2>1. \A j \in Sites(prog) : j < i' => j <= i
    BY <1>1, <1>2, <1>3, <1>4, <1>8 DEF Contiguous
  <2> QED
    BY <2>1, <1>2, <1>3, <1>5, <1>8
<1>10. TypeOK'
  BY <1>2, <1>6, <1>7, <1>8 DEF Agreement, TypeOK, Sites
<1>11. ListsSoFar'
  BY <1>6, <1>7, <1>9 DEF Agreement, ListsWhatRuns, ListsSoFar, Sites
<1>12. StopsWhereVmStops'
  BY <1>6 DEF StopsWhereVmStops
<1> QED
  BY <1>10, <1>11, <1>12 DEF Agreement, ListsWhatRuns

\* Each case of the switch reads the bytes that Length counts.
LEMMA CasesReadLength ==
    ASSUME TypeOK, ended = "running", i < prog.size,
           \/ Declaration \/ Named \/ TwoRegisters \/ OneRegister
           \/ RegisterAndValue \/ Jump \/ Call \/ Ret \/ Leave
    PROVE  \E n :
              n \in Int /\ 1 + n = Length(command) /\ Prints(n)
<1>1. command \in Instructions
  BY AtInstruction
<1>2. Len(command.args) \in Nat
  BY <1>1, LenProperties DEF Instructions
<1>3. NameLen \in Nat
  BY BytecodeAssumption
<1>4. CASE Declaration
  BY <1>3, <1>4 DEF Declaration, Reads, HeaderBytes, Length
<1>5. CASE Named
  <2>1. Length(command) = 6 + NameLen /\ Prints(4 + NameLen + 1)
    BY <1>5 DEF Named, Reads, Length
  <2> QED
    BY <2>1, <1>3
<1>6. CASE TwoRegisters
  <2>1. Length(command) = 3 /\ Prints(2)
    BY <1>6 DEF TwoRegisters, Reads, Length
  <2> QED
    BY <2>1
<1>7. CASE OneRegister
  <2>1. Length(command) = 2 /\ Prints(1)
    BY <1>7 DEF OneRegister, Reads, Length
  <2> QED
    BY <2>1
<1>8. CASE RegisterAndValue
  <2>1. CASE command.k
    <3>1. Length(command) = 3 + ConstantBytes(command)
      BY <1>8, <2>1 DEF RegisterAndValue, Reads, Length, ConstantBytes
    <3>2. Prints(2 + ConstantBytes(command))
      BY <1>8, <2>1 DEF RegisterAndValue
    <3>3. ConstantBytes(command) \in Nat
      BY DEF ConstantBytes
    <3> QED
      BY <3>1, <3>2, <3>3
  <2>2. CASE ~command.k
    <3>1. Length(command) = 4 /\ Prints(3)
      BY <1>8, <2>2 DEF RegisterAndValue, Reads, Length
    <3> QED
      BY <3>1
  <2> QED
    BY <2>1, <2>2
<1>9. CASE Jump
  <2>1. CASE Reads({"jmp"}) /\ Prints(8)
    <3>1. Length(command) = 9
      BY <2>1 DEF Reads, Length
    <3> QED
      BY <2>1, <3>1
  <2>2. CASE Reads({"jz", "jnz"}) /\ Prints(9)
    <3>1. Length(command) = 10
      BY <2>2 DEF Reads, Length
    <3> QED
      BY <2>2, <3>1
  <2> QED
    BY <1>9, <2>1, <2>2 DEF Jump
<1>10. CASE Call
  <2>1. Length(command) = 2 + Len(command.args)
    BY <1>10 DEF Call, Reads, Length
  <2>2. Prints(1 + Len(command.args))
    BY <1>10 DEF Call
  <2> QED
    BY <1>2, <2>1, <2>2
<1>11. CASE Ret
  <2>1. CASE command.k
    <3>1. Length(command) = 10 /\ Prints(9)
      BY <1>11, <2>1 DEF Ret, Reads, Length
    <3> QED
      BY <3>1
  <2>2. CASE ~command.k
    <3>1. Length(command) = 3 /\ Prints(2)
      BY <1>11, <2>2 DEF Ret, Reads, Length
    <3> QED
      BY <3>1
  <2> QED
    BY <2>1, <2>2
<1>12. CASE Leave
  <2>1. Length(command) = 1 /\ Prints(0)
    BY <1>12 DEF Leave, Reads, Length
  <2> QED
    BY <2>1
<1> QED
  BY <1>4, <1>5, <1>6, <1>7, <1>8, <1>9, <1>10, <1>11, <1>12

LEMMA AgreementInitially == Init => Agreement
<1> SUFFICES ASSUME Init PROVE Agreement
  OBVIOUS
<1>1. WellFormed(prog)
  BY ProgramsAssumption DEF Init, prog
<1>2. 0 \in Sites(prog) /\ Sites(prog) \subseteq Nat
  BY <1>1 DEF WellFormed
<1>3. listing = {}
  BY DEF Init
<1>4. {j \in Sites(prog) : j < i} = {}
  BY <1>2 DEF Init
<1> QED
  BY <1>2, <1>3, <1>4
     DEF Agreement, TypeOK, ListsWhatRuns, ListsSoFar, StopsWhereVmStops, Init

LEMMA AgreementKept == Agreement /\ [Next]_vars => Agreement'
<1> SUFFICES ASSUME Agreement, [Next]_vars PROVE Agreement'
  OBVIOUS
<1>1. CASE \/ Declaration \/ Named \/ TwoRegisters \/ OneRegister
           \/ RegisterAndValue \/ Jump \/ Call \/ Ret \/ Leave
  <2>1. TypeOK /\ ended = "running" /\ i < prog.size
    BY <1>1 DEF Agreement, Declaration, Named, TwoRegisters, OneRegister,
                RegisterAndValue, Jump, Call, Ret, Leave, Reads
  <2>2. PICK n :
            n \in Int /\ 1 + n = Length(command) /\ Prints(n)
    BY <1>1, <2>1, CasesReadLength
  <2> QED
    BY <2>1, <2>2, PrintsKeepsAgreement
<1>2. CASE WrongCommand
  <2>1. command.op = "wrong" /\ i < prog.size
    BY <1>2 DEF WrongCommand, Reads, Unknown
  <2>2. i \in Sites(prog)
    BY <2>1, AtInstruction DEF Agreement
  <2>3. /\ file' = file /\ i' = i /\ listing' = listing /\ ended' = "exited"
        /\ prog' = prog /\ command' = command
    BY <1>2 DEF WrongCommand, prog, command
  <2> QED
    BY <2>1, <2>2, <2>3
       DEF Agreement, TypeOK, ListsWhatRuns, ListsSoFar, StopsWhereVmStops, Sites
<1>3. CASE End
  <2>1. /\ file' = file /\ i' = i /\ listing' = listing /\ ended' = "done"
        /\ prog' = prog /\ i >= prog.size
    BY <1>3 DEF End, prog
  <2>2. prog.size \in Nat /\ Sites(prog) \subseteq 0 .. prog.size - 1
    BY FileAssumptions DEF Agreement, WellFormed
  <2>3. i = prog.size
    BY <2>1, <2>2 DEF Agreement, TypeOK
  <2>4. listing = Sites(prog)
    BY <2>2, <2>3 DEF Agreement, ListsWhatRuns, ListsSoFar
  <2> QED
    BY <2>1, <2>4 DEF Agreement, TypeOK, ListsWhatRuns, ListsSoFar, StopsWhereVmStops, Sites
<1>4. CASE UNCHANGED vars
  BY <1>4 DEF Agreement, TypeOK, ListsWhatRuns, ListsSoFar, StopsWhereVmStops, vars, prog,
              command, Sites
<1> QED
  BY <1>1, <1>2, <1>3, <1>4 DEF Next

\* Whatever the file, the pass is always at an instruction boundary or at the
\* end: no case of the switch reads too many bytes or too few.
THEOREM TypeCorrect == Spec => []TypeOK
<1>1. Agreement => TypeOK
  BY DEF Agreement
<1> QED
  BY <1>1, AgreementInitially, AgreementKept, PTL DEF Spec

\* Whatever the file, the listing holds every instruction the VM knows below
\* the offset reached and nothing else; it is complete at the end of the file,
\* and stops before that only at an opcode the VM refuses as well.
THEOREM ListingAgrees == Spec => []ListsWhatRuns
<1>1. Agreement => ListsWhatRuns
  BY DEF Agreement
<1> QED
  BY <1>1, AgreementInitially, AgreementKept, PTL DEF Spec
=============================================================================

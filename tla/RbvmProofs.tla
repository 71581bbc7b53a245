----------------------------- MODULE RbvmProofs -----------------------------
(***************************************************************************)
(* What the interpreter of Rbvm guarantees for every well-formed program,  *)
(* whatever its size, the registers, the words, the memory and the depth   *)
(* of its calls.                                                           *)
(***************************************************************************)
EXTENDS Rbvm, SequenceTheorems, TLAPS

\* Types, and the agreement of the two stacks: each needs the other, as an
\* instruction reads the last frame and a return pops both stacks.
Shape == TypeOK /\ FramesMatchCalls

-----------------------------------------------------------------------------
(* What the current instruction may rely on *)

LEMMA Fetched ==
    ASSUME TypeOK, status = "running", pc < prog.size
    PROVE  /\ prog.size \in Nat
           /\ pc \in Live(prog) /\ pc \in Sites(prog)
           /\ ins \in Instructions
           /\ Len(ins.args) <= LastReg
           /\ \A t \in Targets(prog, pc) :
                 /\ t \in Live(prog) \cup {prog.size}
                 /\ InBody(prog, t) <=> InBody(prog, pc)
<1>1. WellFormed(prog)
  BY ProgramsAssumption DEF TypeOK, prog
<1>2. pc \in Live(prog) /\ pc \in Sites(prog)
  BY <1>1 DEF TypeOK, WellFormed
<1>3. ins \in Instructions
  BY <1>1, <1>2 DEF WellFormed, ins, Sites
<1>. QED
  BY <1>1, <1>2, <1>3 DEF WellFormed, ins

LEMMA TopFrame ==
    ASSUME Shape
    PROVE  /\ depth \in Nat \ {0}
           /\ REG \in Frame
           /\ \A q \in Reg : REG[q] \in Value
           /\ \A d \in 1 .. depth : reg_stack[d] \in Frame
<1>1. depth \in Nat \ {0}
  BY DEF Shape, TypeOK, FramesMatchCalls, depth
<1>2. \A d \in 1 .. depth : reg_stack[d] \in Frame
  BY ElementOfSeq DEF Shape, TypeOK, depth
<1>3. REG \in Frame
  BY <1>1, <1>2 DEF REG
<1>. QED
  BY <1>1, <1>2, <1>3 DEF Frame

LEMMA WriteRegister ==
    ASSUME Shape, NEW d \in 1 .. depth, NEW q \in Reg, NEW v \in Value
    PROVE  /\ [reg_stack EXCEPT ![d][q] = v] \in Seq(Frame)
           /\ Len([reg_stack EXCEPT ![d][q] = v]) = depth
<1>1. [reg_stack[d] EXCEPT ![q] = v] \in Frame
  BY TopFrame DEF Frame
<1>. QED
  BY <1>1, ExceptSeq DEF Shape, TypeOK, depth

LEMMA NumValues ==
    /\ Nums \subseteq Value
    /\ \A n \in Word : Num(n) \in Nums
    /\ \A v \in Nums : v.n \in Word /\ v = Num(v.n)
    /\ Null \in Nums
    /\ Unknown \in Value
<1>1. 0 \in Word
  BY BytecodeAssumption DEF Word
<1>. QED
  BY <1>1 DEF Nums, Num, Null, Value

LEMMA Operands ==
    ASSUME Shape, status = "running", pc < prog.size
    PROVE  /\ ins.r1 \in Reg /\ ins.r2 \in Reg
           /\ Operand \in Value
           /\ Target \in Value
           /\ REG[ins.r1] \in Value /\ REG[ins.r2] \in Value
           /\ nargs \in 0 .. LastReg
           /\ \A j \in 1 .. nargs : Arg(j) \in Value
<1>1. ins \in Instructions /\ Len(ins.args) <= LastReg
  BY Fetched DEF Shape
<1>2. ins.r1 \in Reg /\ ins.r2 \in Reg /\ ins.c \in Word
      /\ ins.k \in BOOLEAN /\ ins.args \in Seq(Reg)
  BY <1>1 DEF Instructions
<1>3. nargs \in 0 .. LastReg
  BY <1>1, <1>2, BytecodeAssumption, LenProperties DEF nargs
<1>4. \A j \in 1 .. nargs : ins.args[j] \in Reg
  BY <1>2, ElementOfSeq DEF nargs
<1>5. Num(ins.c) \in Value
  BY <1>2, NumValues
<1>. QED
  BY <1>2, <1>3, <1>4, <1>5, TopFrame DEF Operand, Target, Arg

\* A step keeps the shape if what it writes is typed and both stacks move
\* together: the sets of values depend on the file only.
LEMMA Reshaped ==
    ASSUME Shape, file' = file,
           pc' \in Live(prog) \cup {prog.size},
           reg_stack' \in Seq(Frame),
           buffer' \in [gen : Nat, cap : Nat],
           call_stack' \in Seq([i : Live(prog) \cup {prog.size}, r : Reg]),
           names' \in [Names -> Value],
           heap' \in [Cell -> Value \cup {Free}],
           status' \in Statuses,
           Len(reg_stack') = Len(call_stack') + 1
    PROVE  Shape'
<1>1. prog' = prog
  BY DEF prog
<1>2. Value' = Value
  BY <1>1 DEF Value
<1>3. Frame' = Frame
  BY <1>2 DEF Frame
<1>. QED
  BY <1>1, <1>2, <1>3 DEF Shape, TypeOK, FramesMatchCalls

LEMMA SetRegKeepsShape ==
    ASSUME Shape, NEW r \in Reg, NEW v \in Value, SetReg(r, v),
           pc' \in Live(prog) \cup {prog.size},
           heap' \in [Cell -> Value \cup {Free}],
           UNCHANGED <<file, buffer, call_stack, names, status>>
    PROVE  Shape'
<1>1. depth \in 1 .. depth
  BY TopFrame
<1>2. reg_stack' \in Seq(Frame) /\ Len(reg_stack') = depth
  BY <1>1, WriteRegister DEF SetReg
<1>. QED
  BY <1>2, Reshaped DEF Shape, TypeOK, FramesMatchCalls, depth

LEMMA MoveKeepsShape ==
    ASSUME Shape, pc' \in Live(prog) \cup {prog.size},
           status' \in Statuses,
           names' \in [Names -> Value],
           heap' \in [Cell -> Value \cup {Free}],
           UNCHANGED <<file, reg_stack, buffer, call_stack>>
    PROVE  Shape'
  BY Reshaped DEF Shape, TypeOK, FramesMatchCalls

\* Instructions that go on with the next one do so on a boundary.
LEMMA Following ==
    ASSUME TypeOK, status = "running", pc < prog.size,
           ins.op \notin {"fd", "jmp", "ret", "leave", "wrong"}
    PROVE  after \in Targets(prog, pc)
  BY DEF Targets, after, ins

-----------------------------------------------------------------------------
(* What instructions read and compute has a type *)

LEMMA LiveAddresses ==
    ASSUME Shape, NEW a \in Value
    PROVE  /\ LiveReg(a) => /\ a.frame \in 1 .. depth
                            /\ a.reg \in Reg
                            /\ reg_stack[a.frame][a.reg] \in Value
           /\ LiveCell(a) => a.cell \in Cell /\ heap[a.cell] \in Value
<1>1. ASSUME LiveReg(a)
      PROVE  a.frame \in 1 .. depth /\ a.reg \in Reg
  BY <1>1 DEF LiveReg, Value, Nums, Num, RegPtrs, CellPtrs, CellPtr,
              Natives, Native, Functions, Fun, Unknown
<1>2. ASSUME LiveCell(a)
      PROVE  a.cell \in Cell
  BY <1>2 DEF LiveCell, Value, Nums, Num, RegPtrs, CellPtrs, CellPtr,
              Natives, Native, Functions, Fun, Unknown
<1>3. \A d \in 1 .. depth, q \in Reg : reg_stack[d][q] \in Value
  BY TopFrame DEF Frame
<1>4. LiveCell(a) => heap[a.cell] \in Value
  BY <1>2 DEF LiveCell, Shape, TypeOK
<1>. QED
  BY <1>1, <1>2, <1>3, <1>4

LEMMA ModuloWord ==
    ASSUME NEW x \in Word, NEW w \in Widths
    PROVE  /\ Modulus[w] \in Nat \ {0}
           /\ Modulus[w] <= WordMax + 1
           /\ x % Modulus[w] \in Word
           /\ \A n \in 0 .. Modulus[w] - 1 : n \in Word
<1>1. Modulus[w] \in 1 .. WordMax + 1 /\ WordMax \in Nat
  BY ConstantsAssumption, BytecodeAssumption
<1>2. x % Modulus[w] \in 0 .. Modulus[w] - 1
  BY <1>1 DEF Word
<1>. QED
  BY <1>1, <1>2 DEF Word

LEMMA NarrowedTyped ==
    ASSUME NEW w \in Widths, NEW v \in Value
    PROVE  Narrowed(w, v) \in Value
<1>1. CASE w # FullWidth /\ v \in Nums
  <2>1. v.n % Modulus[w] \in Word
    BY <1>1, NumValues, ModuloWord
  <2>2. Num(v.n % Modulus[w]) \in Value
    BY <2>1, NumValues
  <2>. QED
    BY <1>1, <2>2 DEF Narrowed
<1>. QED
  BY <1>1, NumValues DEF Narrowed

LEMMA LoadedTyped ==
    ASSUME Shape, NEW w \in Widths, NEW a \in Value
    PROVE  Loaded(w, a) \in Value
<1>1. CASE Known(a)
  <2>1. Content(a) \in Value
    BY <1>1, LiveAddresses DEF Known, Content
  <2>. QED
    BY <1>1, <2>1, NarrowedTyped DEF Loaded
<1>2. CASE ~Known(a)
  BY <1>2, NumValues DEF Loaded
<1>. QED
  BY <1>1, <1>2

LEMMA MergedTyped ==
    ASSUME NEW w \in Widths, NEW old \in Value, NEW v \in Value
    PROVE  Merged(w, old, v) \in Value
<1>1. CASE w = FullWidth
  BY <1>1 DEF Merged
<1>2. CASE w # FullWidth /\ old \in Nums /\ v \in Nums
  <2> DEFINE m == Modulus[w]
             sum == (old.n - (old.n % m)) + (v.n % m)
  <2>1. old.n \in Word /\ v.n \in Word
    BY <1>2, NumValues
  <2>2. old.n % m \in Word /\ v.n % m \in Word
    BY <2>1, ModuloWord
  <2>3. sum \in Int /\ WordMax + 1 \in Nat \ {0}
    BY <2>1, <2>2, ConstantsAssumption, BytecodeAssumption DEF Word
  <2>4. \A x \in Int : x % (WordMax + 1) \in 0 .. WordMax
    BY ConstantsAssumption, BytecodeAssumption
  <2>5. Num(sum % (WordMax + 1)) \in Value
    BY <2>3, <2>4, NumValues DEF Word
  <2>. QED
    BY <1>2, <2>5 DEF Merged
<1>3. CASE w # FullWidth /\ ~(old \in Nums /\ v \in Nums)
  BY <1>3, NumValues DEF Merged
<1>. QED
  BY <1>1, <1>2, <1>3

LEMMA ComputedTyped ==
    ASSUME NEW f \in AluOps, NEW a \in Value, NEW b \in Value,
           f \in DivOps => b # Null
    PROVE  Computed(f, a, b) \in Value
<1> DEFINE Kept == \/ f = "mov"
                   \/ f \in {"iadd", "isub"} /\ b = Null
                   \/ f = "iadd" /\ a = Null
<1>1. CASE Kept
  BY <1>1 DEF Computed
<1>2. CASE ~Kept /\ a \in Nums /\ b \in Nums
  <2>1. a.n \in Word /\ b.n \in Word /\ b = Num(b.n)
    BY <1>2, NumValues
  <2>2. f \in DivOps => b.n # 0
    BY <2>1 DEF Null
  <2>3. Alu(f, a.n, b.n) \in Word
    BY <2>1, <2>2, AluAssumption
  <2>. QED
    BY <1>2, <2>3, NumValues DEF Computed
<1>3. CASE ~Kept /\ ~(a \in Nums /\ b \in Nums)
  BY <1>3, NumValues DEF Computed
<1>. QED
  BY <1>1, <1>2, <1>3

-----------------------------------------------------------------------------
(* Every step keeps the shape *)

LEMMA InitialShape == Init => Shape
<1>. SUFFICES ASSUME Init
              PROVE  Shape
  OBVIOUS
<1>1. prog \in {Programs[f] : f \in DOMAIN Programs} /\ WellFormed(prog)
  BY ProgramsAssumption DEF Init, prog
<1>2. pc \in Live(prog)
  BY <1>1 DEF Init, WellFormed
<1>3. EmptyFrame \in Frame
  BY NumValues DEF EmptyFrame, Frame
<1>4. names \in [Names -> Value]
  BY NumValues DEF Init, Value, Natives
<1>. QED
  BY <1>2, <1>3, <1>4 DEF Init, Shape, TypeOK, FramesMatchCalls, Statuses

LEMMA LocalStepsKeepShape ==
    ASSUME Shape,
           Fd \/ Compute \/ Ineg \/ Gg \/ Sg \/ CreateString \/ Lea \/ Load
              \/ Jmp \/ Jz \/ Jnz \/ CallNull
    PROVE  Shape'
<1>1. status = "running" /\ pc < prog.size /\ TypeOK
  BY DEF Fd, Compute, Ineg, Gg, Sg, CreateString, Lea, Load, Jmp, Jz, Jnz,
         CallNull, Fetch, Shape
<1> DEFINE Boundary == Live(prog) \cup {prog.size}
<1>2. \A t \in Targets(prog, pc) : t \in Boundary
  BY <1>1, Fetched
<1>3. ins.op \notin {"fd", "jmp", "ret", "leave", "wrong"}
      => after \in Boundary
  BY <1>1, <1>2, Following
<1>4. /\ ins \in Instructions
      /\ ins.r1 \in Reg /\ ins.r2 \in Reg
      /\ ins.f \in AluOps /\ ins.w \in Widths /\ ins.name \in Names
      /\ ins.c \in Word
  BY <1>1, Fetched DEF Instructions
<1>5. /\ Operand \in Value /\ REG[ins.r1] \in Value /\ REG[ins.r2] \in Value
  BY <1>1, Operands
<1>6. heap \in [Cell -> Value \cup {Free}] /\ names \in [Names -> Value]
  BY <1>1 DEF TypeOK
<1>7. CASE Fd
  <2>1. pc \in Declarations(prog) \cap Live(prog) /\ ins = prog.code[pc]
    BY <1>1, <1>7, Fetched DEF Fd, Fetch, Declarations, ins
  <2>2. Fun(after, ins.nargs) \in Value
    BY <2>1 DEF Value, Functions, after
  <2>3. Past(prog, pc) \in Boundary
    BY <1>2, <1>7, <2>1 DEF Targets, Fd, Fetch
  <2>4. names' \in [Names -> Value]
    BY <1>4, <1>6, <1>7, <2>2 DEF Fd
  <2>. QED
    BY <1>6, <1>7, <2>3, <2>4, MoveKeepsShape DEF Fd, Shape, TypeOK
<1>8. CASE Compute
  <2>1. Computed(ins.f, REG[ins.r1], Operand) \in Value
    BY <1>4, <1>5, <1>8, ComputedTyped DEF Compute, DividesByZero
  <2>. QED
    BY <1>3, <1>4, <1>6, <1>8, <2>1, SetRegKeepsShape DEF Compute, Fetch
<1>9. CASE Ineg
  <2>1. \A n \in Word : WordMax - n \in Word
    BY BytecodeAssumption DEF Word
  <2>2. (IF REG[ins.r1] \in Nums
         THEN Num(WordMax - REG[ins.r1].n) ELSE Unknown) \in Value
    BY <2>1, NumValues
  <2>. QED
    BY <1>3, <1>4, <1>6, <1>9, <2>2, SetRegKeepsShape DEF Ineg, Fetch
<1>10. CASE Gg
  BY <1>3, <1>4, <1>6, <1>10, SetRegKeepsShape DEF Gg, Fetch
<1>11. CASE Sg
  BY <1>3, <1>4, <1>5, <1>6, <1>11, MoveKeepsShape
     DEF Sg, Fetch, Shape, TypeOK
<1>12. CASE CreateString
  <2>1. PICK c \in NewCells :
           /\ heap' = [heap EXCEPT ![c] =
                        IF ins.op = "css" THEN Num(ins.c) ELSE REG[ins.r2]]
           /\ SetReg(ins.r1, CellPtr(c))
    BY <1>12 DEF CreateString
  <2>2. CellPtr(c) \in Value
    BY <2>1 DEF NewCells, Value, CellPtrs
  <2>3. Num(ins.c) \in Value
    BY <1>4, NumValues
  <2>4. heap' \in [Cell -> Value \cup {Free}]
    BY <1>5, <1>6, <2>1, <2>3
  <2>5. pc' \in Boundary
    BY <1>3, <1>12 DEF CreateString, Fetch
  <2>. QED
    BY <1>4, <1>12, <2>1, <2>2, <2>4, <2>5, SetRegKeepsShape
       DEF CreateString
<1>13. CASE Lea
  <2>1. RegPtr(buffer.gen, depth, ins.r2) \in Value
    BY <1>1, <1>4, TopFrame DEF RegPtr, RegPtrs, Value, TypeOK
  <2>. QED
    BY <1>3, <1>4, <1>6, <1>13, <2>1, SetRegKeepsShape DEF Lea, Fetch
<1>14. CASE Load
  <2>1. Loaded(ins.w, Operand) \in Value
    BY <1>4, <1>5, LoadedTyped
  <2>. QED
    BY <1>3, <1>4, <1>6, <1>14, <2>1, SetRegKeepsShape DEF Load, Fetch
<1>15. CASE Jmp \/ Jz \/ Jnz
  <2>1. pc' \in Targets(prog, pc)
    BY <1>15 DEF Jmp, Jz, Jnz, Fetch, Targets, ins, after
  <2>. QED
    BY <1>2, <1>6, <1>15, <2>1, MoveKeepsShape
       DEF Jmp, Jz, Jnz, Shape, TypeOK
<1>16. CASE CallNull
  BY <1>3, <1>6, <1>16, MoveKeepsShape
     DEF CallNull, Refused, Fetch, Shape, TypeOK
<1>. QED
  BY <1>7, <1>8, <1>9, <1>10, <1>11, <1>12, <1>13, <1>14, <1>15, <1>16

LEMMA EndingsKeepShape ==
    ASSUME Shape,
           AssertFails \/ NativeArityError \/ Exit \/ WrongCommand \/ End
              \/ Crash \/ Undefined
    PROVE  Shape'
<1>1. UNCHANGED <<file, pc, reg_stack, buffer, call_stack, names, heap>>
  BY DEF AssertFails, NativeArityError, Exit, WrongCommand, End, Crash,
         Undefined
<1>2. status' \in Statuses
  BY DEF AssertFails, NativeArityError, Exit, WrongCommand, End, Crash,
         Undefined, Statuses
<1>. QED
  BY <1>1, <1>2, MoveKeepsShape DEF Shape, TypeOK

\* A function on 1 .. n with values in a set is a sequence over it.
LEMMA SeqOfFunction ==
    ASSUME NEW S, NEW n \in Nat, NEW f \in [1 .. n -> S]
    PROVE  f \in Seq(S) /\ Len(f) = n
  OBVIOUS

\* Writing values to some places keeps registers and cells typed.
LEMMA WritesTyped ==
    ASSUME Shape, NEW f, \A p \in DOMAIN f : f[p] \in Value
    PROVE  /\ RegistersWith(f) \in Seq(Frame)
           /\ Len(RegistersWith(f)) = depth
           /\ CellsWith(f) \in [Cell -> Value \cup {Free}]
<1>1. \A d \in 1 .. depth, q \in Reg : reg_stack[d][q] \in Value
  BY TopFrame DEF Frame
<1>2. RegistersWith(f) \in [1 .. depth -> Frame]
  BY <1>1 DEF RegistersWith, Frame
<1>3. CellsWith(f) \in [Cell -> Value \cup {Free}]
  BY DEF CellsWith, Shape, TypeOK
<1>. QED
  BY <1>2, <1>3, TopFrame, SeqOfFunction

LEMMA StoreKeepsShape ==
    ASSUME Shape, Store
    PROVE  Shape'
<1>1. status = "running" /\ pc < prog.size /\ ins.op = "st" /\ TypeOK
  BY DEF Store, Fetch, Shape
<1>2. after \in Live(prog) \cup {prog.size}
  BY <1>1, Fetched, Following
<1>3. ins.w \in Widths /\ Target \in Value /\ REG[ins.r2] \in Value
  BY <1>1, Fetched, Operands DEF Instructions
<1>4. PICK f \in Stored :
         reg_stack' = RegistersWith(f) /\ heap' = CellsWith(f)
  BY DEF Store
<1>5. \A p \in DOMAIN f : f[p] \in Value
  <2>1. CASE Known(Target)
    <3>1. Content(Target) \in Value
      BY <1>3, <2>1, LiveAddresses DEF Known, Content
    <3>2. Merged(ins.w, Content(Target), REG[ins.r2]) \in Value
      BY <1>3, <3>1, MergedTyped
    <3>. QED
      BY <1>4, <2>1, <3>2 DEF Stored
  <2>2. CASE ~Known(Target)
    BY <1>4, <2>2, NumValues DEF Stored
  <2>. QED
    BY <2>1, <2>2
<1>. QED
  BY <1>1, <1>2, <1>4, <1>5, WritesTyped, Reshaped
     DEF Store, Shape, TypeOK, FramesMatchCalls, depth

\* The functions of a program are the declared ones.
LEMMA FunctionsDeclared ==
    ASSUME NEW f \in Functions(prog)
    PROVE  \E d \in Declarations(prog) \cap Live(prog) :
              f = Fun(After(prog, d), prog.code[d].nargs)
  BY DEF Functions

LEMMA CallKeepsShape ==
    ASSUME Shape, CallFunction
    PROVE  Shape'
<1>1. /\ status = "running" /\ pc < prog.size /\ ins.op = "call"
      /\ TypeOK
  BY DEF CallFunction, Fetch, Shape
<1>2. /\ REG[ins.r1] \in Value /\ ins.r1 \in Reg /\ nargs \in 0 .. LastReg
      /\ \A j \in 1 .. nargs : Arg(j) \in Value
  BY <1>1, Operands
<1>3. PICK d \in Declarations(prog) \cap Live(prog) :
          pc' = After(prog, d)
  BY FunctionsDeclared DEF CallFunction, Fun
<1>4. pc' \in Live(prog)
  <2>1. WellFormed(prog)
    BY <1>1, ProgramsAssumption DEF TypeOK, prog
  <2>. QED
    BY <1>3, <2>1 DEF WellFormed, Declarations
<1>5. CalleeFrame \in Frame
  BY <1>2, NumValues DEF CalleeFrame, Frame
<1>6. reg_stack' \in Seq(Frame) /\ Len(reg_stack') = Len(reg_stack) + 1
  BY <1>1, <1>5, AppendProperties DEF CallFunction, TypeOK
<1> DEFINE Returns == [i : Live(prog) \cup {prog.size}, r : Reg]
<1>7. Saved \in Returns
  BY <1>1, <1>2, Fetched, Following DEF Saved
<1>8. call_stack' \in Seq(Returns) /\ Len(call_stack') = Len(call_stack) + 1
  <2>1. call_stack \in Seq(Returns)
    BY <1>1 DEF TypeOK
  <2>. HIDE DEF Returns
  <2>. QED
    BY <1>7, <2>1, AppendProperties DEF CallFunction
<1>9. buffer' \in [gen : Nat, cap : Nat]
  BY <1>1 DEF CallFunction, Grown, TypeOK
<1>10. Len(reg_stack') = Len(call_stack') + 1
  <2>1. Len(call_stack) \in Nat
    BY <1>1, LenProperties DEF TypeOK
  <2>. QED
    BY <1>6, <1>8, <2>1 DEF Shape, FramesMatchCalls
<1>. QED
  BY <1>1, <1>4, <1>6, <1>8, <1>9, <1>10, Reshaped DEF CallFunction, TypeOK

LEMMA PopTyped ==
    ASSUME NEW S, NEW s \in Seq(S), s # <<>>
    PROVE  /\ Pop(s) \in Seq(S)
           /\ Len(Pop(s)) = Len(s) - 1
           /\ Len(s) \in Nat \ {0}
           /\ s[Len(s)] \in S
           /\ \A d \in 1 .. Len(s) - 1 : Pop(s)[d] = s[d]
<1>1. Len(s) \in Nat \ {0}
  BY EmptySeq
<1>2. \A d \in 1 .. Len(s) : s[d] \in S
  BY ElementOfSeq
<1>3. /\ SubSeq(s, 1, Len(s) - 1) \in Seq(S)
      /\ Len(SubSeq(s, 1, Len(s) - 1)) =
            IF 1 <= Len(s) - 1 THEN (Len(s) - 1) - 1 + 1 ELSE 0
      /\ \A d \in 1 .. (Len(s) - 1) - 1 + 1 :
            SubSeq(s, 1, Len(s) - 1)[d] = s[1 + d - 1]
  BY <1>1, <1>2, SubSeqProperties
<1>4. Pop(s) = SubSeq(s, 1, Len(s) - 1)
  BY DEF Pop
<1>5. Len(Pop(s)) = Len(s) - 1
  <2>1. \A n \in Nat \ {0} :
            (IF 1 <= n - 1 THEN (n - 1) - 1 + 1 ELSE 0) = n - 1
    OBVIOUS
  <2>. QED
    BY <1>1, <1>3, <1>4, <2>1, Zenon
<1>6. \A d \in 1 .. Len(s) - 1 : Pop(s)[d] = s[d]
  <2>1. \A d \in 1 .. Len(s) - 1 : 1 + d - 1 = d /\ d \in 1 .. (Len(s) - 1) - 1 + 1
    BY <1>1
  <2>. QED
    BY <1>3, <1>4, <2>1
<1>. QED
  BY <1>1, <1>2, <1>3, <1>4, <1>5, <1>6

LEMMA Popped ==
    ASSUME Shape, call_stack # <<>>
    PROVE  /\ Pop(reg_stack) \in Seq(Frame)
           /\ Len(Pop(reg_stack)) = depth - 1
           /\ depth - 1 \in 1 .. depth - 1
           /\ Pop(call_stack) \in
                  Seq([i : Live(prog) \cup {prog.size}, r : Reg])
           /\ Len(Pop(call_stack)) = Len(call_stack) - 1
           /\ Caller \in [i : Live(prog) \cup {prog.size}, r : Reg]
           /\ depth = Len(call_stack) + 1
           /\ Len(call_stack) \in Nat \ {0}
<1> DEFINE Returns == [i : Live(prog) \cup {prog.size}, r : Reg]
<1>1. call_stack \in Seq(Returns) /\ reg_stack \in Seq(Frame)
  BY DEF Shape, TypeOK
<1>2. depth = Len(call_stack) + 1
  BY DEF Shape, FramesMatchCalls, depth
<1>3. /\ Pop(call_stack) \in Seq(Returns)
      /\ Len(Pop(call_stack)) = Len(call_stack) - 1
      /\ Len(call_stack) \in Nat \ {0}
      /\ Caller \in Returns
  <2>. HIDE DEF Returns
  <2>. QED
    BY <1>1, PopTyped DEF Caller
<1>4. reg_stack # <<>>
  BY <1>2, <1>3, EmptySeq DEF depth
<1>5. Pop(reg_stack) \in Seq(Frame) /\ Len(Pop(reg_stack)) = depth - 1
  BY <1>1, <1>4, PopTyped DEF depth
<1>. QED
  BY <1>2, <1>3, <1>5

LEMMA ReturnsKeepShape ==
    ASSUME Shape, Return \/ Leave
    PROVE  Shape'
<1>1. /\ status = "running" /\ pc < prog.size /\ TypeOK
      /\ call_stack # <<>>
  BY DEF Return, Leave, Fetch, Shape
<1>2. pc' = Caller.i /\ call_stack' = Pop(call_stack)
      /\ UNCHANGED <<file, buffer, names, heap, status>>
  BY DEF Return, Leave
<1>3. reg_stack' \in Seq(Frame) /\ Len(reg_stack') = depth - 1
  <2>1. CASE Return
    <3> DEFINE v == IF ins.k THEN Num(ins.c) ELSE REG[ins.r1]
    <3>1. ins.c \in Word /\ REG[ins.r1] \in Value
      BY <1>1, Fetched, Operands DEF Instructions
    <3>2. v \in Value
      BY <3>1, NumValues
    <3>3. Pop(reg_stack)[depth - 1] \in Frame /\ Caller.r \in Reg
      BY <1>1, Popped, ElementOfSeq
    <3>4. [Pop(reg_stack)[depth - 1] EXCEPT ![Caller.r] = v] \in Frame
      BY <3>2, <3>3 DEF Frame
    <3>5. WithResult(v) =
            [Pop(reg_stack) EXCEPT ![depth - 1] =
                [Pop(reg_stack)[depth - 1] EXCEPT ![Caller.r] = v]]
      BY <1>1, Popped, LenProperties DEF WithResult
    <3>6. reg_stack' = WithResult(v)
      BY <2>1 DEF Return
    <3>. HIDE DEF v
    <3>. QED
      BY <1>1, <3>4, <3>5, <3>6, Popped, ExceptSeq
  <2>2. CASE Leave
    BY <1>1, <2>2, Popped DEF Leave
  <2>. QED
    BY <2>1, <2>2
<1>. QED
  BY <1>1, <1>2, <1>3, Popped, Reshaped DEF TypeOK

\* What scanf writes are values, at places it has as arguments or reaches
\* through a wild one.
LEMMA InputsTyped ==
    ASSUME NEW A, NEW f \in Inputs(A)
    PROVE  /\ \A p \in DOMAIN f : f[p] \in Value
           /\ \A p \in DOMAIN f : p \in A \/ \E a \in A : Wild(a)
<1>1. PICK stray \in Strays(A), input \in [A -> Word] :
          f = [p \in stray \cup {a \in A : Known(a)} |->
                IF p \in stray THEN Unknown ELSE Num(input[p])]
  BY DEF Inputs
<1>2. \A p \in stray : \E a \in A : Wild(a)
  <2>1. PICK g \in [{a \in A : Wild(a)} -> Hits] :
            stray = UNION {g[a] : a \in DOMAIN g}
    BY DEF Strays
  <2>. QED
    BY <2>1
<1>3. \A p \in DOMAIN f : f[p] \in Value
  BY <1>1, NumValues
<1>. QED
  BY <1>1, <1>2, <1>3

LEMMA ScanfKeepsShape ==
    ASSUME Shape, Scanf
    PROVE  Shape'
<1>1. /\ status = "running" /\ pc < prog.size /\ ins.op = "call" /\ TypeOK
  BY DEF Scanf, CallNative, Fetch, Shape
<1>2. pc' \in Live(prog) \cup {prog.size}
  BY <1>1, Fetched, Following DEF Scanf
<1>3. PICK n \in 0 .. nargs - 1, result \in Word :
          \E f \in Inputs(Scanned(n)) :
              /\ heap' = CellsWith(f)
              /\ reg_stack' =
                    [RegistersWith(f) EXCEPT ![depth][ins.r1] = Num(result)]
  BY DEF Scanf
<1>3a. PICK f \in Inputs(Scanned(n)) :
          /\ heap' = CellsWith(f)
          /\ reg_stack' =
                [RegistersWith(f) EXCEPT ![depth][ins.r1] = Num(result)]
  BY <1>3
<1> DEFINE R == RegistersWith(f)
<1>4. /\ R \in Seq(Frame) /\ Len(R) = depth
      /\ CellsWith(f) \in [Cell -> Value \cup {Free}]
  BY InputsTyped, WritesTyped
<1>5. reg_stack' \in Seq(Frame) /\ Len(reg_stack') = depth
  <2>1. depth \in 1 .. Len(R) /\ R[depth] \in Frame
    BY <1>4, TopFrame, ElementOfSeq
  <2>2. [R[depth] EXCEPT ![ins.r1] = Num(result)] \in Frame
    BY <2>1, NumValues DEF Frame
  <2>. HIDE DEF R
  <2>3. reg_stack' = [R EXCEPT ![depth] =
                        [R[depth] EXCEPT ![ins.r1] = Num(result)]]
    BY <1>3a DEF R
  <2>. QED
    BY <1>4, <2>1, <2>2, <2>3, ExceptSeq
<1>6. UNCHANGED <<file, buffer, call_stack, names, status>>
  BY DEF Scanf
<1>. QED
  BY <1>1, <1>2, <1>3a, <1>4, <1>5, <1>6, Reshaped
     DEF Shape, TypeOK, FramesMatchCalls, depth

LEMMA NativesKeepShape ==
    ASSUME Shape, Output \/ Malloc \/ FreeCall
    PROVE  Shape'
<1>1. /\ status = "running" /\ pc < prog.size /\ ins.op = "call" /\ TypeOK
      /\ nargs >= 1
  BY DEF Output, Malloc, FreeCall, CallNative, Accepts, Fetch, Shape
<1>2. after \in Live(prog) \cup {prog.size}
  BY <1>1, Fetched, Following
<1>3. ins.r1 \in Reg /\ 1 \in 1 .. nargs /\ Arg(1) \in Value
  BY <1>1, Operands
<1>4. heap \in [Cell -> Value \cup {Free}]
  BY <1>1 DEF TypeOK
<1>5. CASE Output
  <2>1. PICK v \in Nums : SetReg(ins.r1, v)
    BY <1>5, NumValues DEF Output
  <2>2. v \in Value
    BY <2>1, NumValues
  <2>. QED
    BY <1>2, <1>3, <1>4, <1>5, <2>1, <2>2, SetRegKeepsShape DEF Output
<1>6. CASE Malloc
  <2>1. CASE \E c \in NewCells :
                /\ heap' = [heap EXCEPT ![c] = Unknown]
                /\ SetReg(ins.r1, CellPtr(c))
    <3>1. PICK c \in NewCells :
                /\ heap' = [heap EXCEPT ![c] = Unknown]
                /\ SetReg(ins.r1, CellPtr(c))
      BY <2>1
    <3>2. CellPtr(c) \in Value
      BY <3>1 DEF NewCells, Value, CellPtrs
    <3>3. heap' \in [Cell -> Value \cup {Free}]
      BY <1>4, <3>1, NumValues
    <3>. QED
      BY <1>2, <1>3, <1>6, <3>1, <3>2, <3>3, SetRegKeepsShape DEF Malloc
  <2>2. CASE SetReg(ins.r1, Null) /\ heap' = heap
    BY <1>2, <1>3, <1>4, <1>6, <2>2, NumValues, SetRegKeepsShape DEF Malloc
  <2>. QED
    BY <1>6, <2>1, <2>2 DEF Malloc
<1>7. CASE FreeCall
  <2>1. heap' \in [Cell -> Value \cup {Free}]
    BY <1>4, <1>7 DEF FreeCall
  <2>. QED
    BY <1>2, <1>3, <1>7, <2>1, NumValues, SetRegKeepsShape DEF FreeCall
<1>. QED
  BY <1>5, <1>6, <1>7

LEMMA ShapeIsInductive == Shape /\ [Next]_vars => Shape'
<1>. SUFFICES ASSUME Shape, [Next]_vars
              PROVE  Shape'
  OBVIOUS
<1>1. CASE Fd \/ Compute \/ Ineg \/ Gg \/ Sg \/ CreateString \/ Lea \/ Load
           \/ Jmp \/ Jz \/ Jnz \/ CallNull
  BY <1>1, LocalStepsKeepShape
<1>2. CASE Store
  BY <1>2, StoreKeepsShape
<1>3. CASE CallFunction
  BY <1>3, CallKeepsShape
<1>4. CASE Return \/ Leave
  BY <1>4, ReturnsKeepShape
<1>5. CASE Scanf
  BY <1>5, ScanfKeepsShape
<1>6. CASE Output \/ Malloc \/ FreeCall
  BY <1>6, NativesKeepShape
<1>7. CASE AssertFails \/ NativeArityError \/ Exit \/ WrongCommand \/ End
           \/ Crash \/ Undefined
  BY <1>7, EndingsKeepShape
<1>8. CASE UNCHANGED vars
  BY <1>8, MoveKeepsShape DEF vars, Shape, TypeOK
<1>. QED
  BY <1>1, <1>2, <1>3, <1>4, <1>5, <1>6, <1>7, <1>8 DEF Next

\* Every state of the interpreter is typed: the program counter is on an
\* instruction boundary, a register holds a word, an address the VM made or a
\* value the model does not follow, and the frames are one more than the
\* pending calls, so that REG exists.
THEOREM TypeCorrect == Spec => [](TypeOK /\ FramesMatchCalls)
<1>1. Spec => []Shape
  BY InitialShape, ShapeIsInductive, PTL DEF Spec
<1>. QED
  BY <1>1, PTL DEF Shape

-----------------------------------------------------------------------------
(* Calls nest: where control is, and where it returns to *)

CallDiscipline == ControlMatchesCalls /\ ReturnSites

LEMMA JumpKeepsDiscipline ==
    ASSUME Shape, CallDiscipline, status = "running", pc < prog.size,
           pc' \in Targets(prog, pc),
           UNCHANGED <<file, call_stack>>
    PROVE  CallDiscipline'
<1>1. InBody(prog, pc') <=> InBody(prog, pc)
  BY Fetched DEF Shape
<1>2. prog' = prog
  BY DEF prog
<1>. QED
  BY <1>1, <1>2 DEF CallDiscipline, ControlMatchesCalls, ReturnSites

LEMMA StopKeepsDiscipline ==
    ASSUME CallDiscipline, UNCHANGED <<file, pc, call_stack>>,
           status' = "running" => status = "running"
    PROVE  CallDiscipline'
<1>1. prog' = prog
  BY DEF prog
<1>. QED
  BY <1>1 DEF CallDiscipline, ControlMatchesCalls, ReturnSites

LEMMA CallKeepsDiscipline ==
    ASSUME Shape, CallDiscipline, CallFunction
    PROVE  CallDiscipline'
<1>1. /\ status = "running" /\ pc < prog.size /\ ins.op = "call"
      /\ TypeOK /\ WellFormed(prog) /\ prog' = prog
  BY ProgramsAssumption DEF CallFunction, Fetch, Shape, TypeOK, prog
<1>2. PICK f \in Declarations(prog) \cap Live(prog) : pc' = After(prog, f)
  BY FunctionsDeclared DEF CallFunction, Fun
<1>3. InBody(prog, pc')
  BY <1>1, <1>2 DEF WellFormed, Declarations
<1>4. pc \in Sites(prog) /\ (InBody(prog, after) <=> InBody(prog, pc))
  BY <1>1, Fetched, Following
<1>5. Saved = [i |-> after, r |-> ins.r1]
  BY DEF Saved
<1> DEFINE n == Len(call_stack)
           Returns == [i : Live(prog) \cup {prog.size}, r : Reg]
<1>6. /\ n \in Nat /\ DOMAIN call_stack = 1 .. n
      /\ DOMAIN call_stack' = 1 .. n + 1
      /\ \A d \in 1 .. n : call_stack'[d] = call_stack[d]
      /\ call_stack'[n + 1] = Saved
      /\ (n = 0 <=> call_stack = <<>>) /\ call_stack' # <<>>
  <2>1. call_stack \in Seq(Returns) /\ Saved \in Returns
    BY <1>1, Fetched, Following, Operands DEF TypeOK, Saved
  <2>. HIDE DEF Returns
  <2>2. call_stack' = Append(call_stack, Saved)
    BY DEF CallFunction
  <2>3. call_stack' \in Seq(Returns) /\ Len(call_stack') = n + 1
    BY <2>1, <2>2, AppendProperties
  <2>. QED
    BY <2>1, <2>2, <2>3, AppendProperties, LenProperties, EmptySeq
<1>7. ControlMatchesCalls'
  <2>1. InBody(prog, pc) <=> n # 0
    BY <1>1, <1>6 DEF CallDiscipline, ControlMatchesCalls
  <2>2. \A d \in 1 .. n : InBody(prog, call_stack'[d].i) <=> d > 1
    BY <1>1, <1>6 DEF CallDiscipline, ControlMatchesCalls
  <2>3. InBody(prog, call_stack'[n + 1].i) <=> n + 1 > 1
    BY <1>4, <1>5, <1>6, <2>1
  <2>. HIDE DEF n
  <2>4. \A d \in 1 .. n + 1 : InBody(prog, call_stack'[d].i) <=> d > 1
    <3>1. \A d \in 1 .. n + 1 : d \in 1 .. n \/ d = n + 1
      BY <1>6
    <3>. QED
      BY <2>2, <2>3, <3>1
  <2>. QED
    BY <1>1, <1>3, <1>6, <2>4 DEF ControlMatchesCalls
<1>8. ReturnSites'
  <2> DEFINE Called(c) == \E j \in Sites(prog) :
                            /\ prog.code[j].op = "call"
                            /\ After(prog, j) = c.i
                            /\ prog.code[j].r1 = c.r
  <2>1. Called(Saved)
    BY <1>1, <1>4, <1>5 DEF ins, after
  <2>2. \A d \in 1 .. n : Called(call_stack'[d])
    BY <1>6 DEF CallDiscipline, ReturnSites
  <2>. HIDE DEF n, Called
  <2>3. \A d \in 1 .. n + 1 : Called(call_stack'[d])
    <3>1. \A d \in 1 .. n + 1 : d \in 1 .. n \/ d = n + 1
      BY <1>6
    <3>. QED
      BY <1>6, <2>1, <2>2, <3>1
  <2>. QED
    BY <1>1, <1>6, <2>3 DEF ReturnSites, Called
<1>. QED
  BY <1>7, <1>8 DEF CallDiscipline

LEMMA ReturnKeepsDiscipline ==
    ASSUME Shape, CallDiscipline, Return \/ Leave
    PROVE  CallDiscipline'
<1>1. /\ status = "running" /\ call_stack # <<>> /\ prog' = prog
      /\ pc' = Caller.i /\ call_stack' = Pop(call_stack)
  BY DEF Return, Leave, Fetch, prog
<1> DEFINE n == Len(call_stack)
           Returns == [i : Live(prog) \cup {prog.size}, r : Reg]
<1>2. /\ n \in Nat \ {0} /\ DOMAIN call_stack = 1 .. n
      /\ DOMAIN call_stack' = 1 .. n - 1
      /\ \A d \in 1 .. n - 1 : call_stack'[d] = call_stack[d]
      /\ (n = 1 <=> call_stack' = <<>>)
  <2>1. call_stack \in Seq(Returns)
    BY DEF Shape, TypeOK
  <2>. HIDE DEF Returns
  <2>2. /\ Pop(call_stack) \in Seq(Returns)
        /\ Len(Pop(call_stack)) = n - 1
        /\ n \in Nat \ {0}
        /\ \A d \in 1 .. n - 1 : Pop(call_stack)[d] = call_stack[d]
    BY <1>1, <2>1, PopTyped
  <2>3. Pop(call_stack) = <<>> <=> n - 1 = 0
    BY <2>2, EmptySeq
  <2>. QED
    BY <1>1, <2>1, <2>2, <2>3, LenProperties
<1>3. InBody(prog, pc') <=> n > 1
  BY <1>1, <1>2 DEF CallDiscipline, ControlMatchesCalls, Caller
<1>4. ControlMatchesCalls'
  BY <1>1, <1>2, <1>3 DEF CallDiscipline, ControlMatchesCalls
<1>5. ReturnSites'
  BY <1>1, <1>2 DEF CallDiscipline, ReturnSites
<1>. QED
  BY <1>4, <1>5 DEF CallDiscipline

LEMMA DisciplineIsInductive ==
    Shape /\ CallDiscipline /\ [Next]_vars => CallDiscipline'
<1>. SUFFICES ASSUME Shape, CallDiscipline, [Next]_vars
              PROVE  CallDiscipline'
  OBVIOUS
<1>1. CASE Fd \/ Jmp \/ Jz \/ Jnz
  BY <1>1, JumpKeepsDiscipline
     DEF Fd, Jmp, Jz, Jnz, Fetch, Targets, ins, after
<1>2. CASE Compute \/ Ineg \/ Gg \/ Sg \/ CreateString \/ Lea \/ Load
           \/ Store \/ CallNull \/ Output \/ Scanf
           \/ Malloc \/ FreeCall
  <2>1. /\ status = "running" /\ pc < prog.size /\ TypeOK
        /\ ins.op \notin {"fd", "jmp", "ret", "leave", "wrong"}
    BY <1>2 DEF Compute, Ineg, Gg, Sg, CreateString, Lea, Load, Store,
                CallNull, Output, Scanf, Malloc, FreeCall,
                CallNative, Fetch, Shape
  <2>2. pc' = after /\ UNCHANGED <<file, call_stack>>
    BY <1>2 DEF Compute, Ineg, Gg, Sg, CreateString, Lea, Load, Store,
                CallNull, Refused, Output, Scanf, Malloc,
                FreeCall
  <2>. QED
    BY <2>1, <2>2, Following, JumpKeepsDiscipline
<1>3. CASE CallFunction
  BY <1>3, CallKeepsDiscipline
<1>4. CASE Return \/ Leave
  BY <1>4, ReturnKeepsDiscipline
<1>5. CASE AssertFails \/ NativeArityError \/ Exit \/ WrongCommand \/ End
           \/ Crash \/ Undefined
  BY <1>5, StopKeepsDiscipline
     DEF AssertFails, NativeArityError, Exit, WrongCommand, End, Crash,
         Undefined
<1>6. CASE UNCHANGED vars
  BY <1>6, StopKeepsDiscipline DEF vars
<1>. QED
  BY <1>1, <1>2, <1>3, <1>4, <1>5, <1>6 DEF Next

LEMMA InitialDiscipline == Init => CallDiscipline
<1>. SUFFICES ASSUME Init
              PROVE  CallDiscipline
  OBVIOUS
<1>1. WellFormed(prog)
  BY ProgramsAssumption DEF Init, prog
<1>. QED
  BY <1>1 DEF Init, CallDiscipline, ControlMatchesCalls, ReturnSites,
              WellFormed

\* Calls nest in every execution: control is in a body exactly while a call
\* is pending, so call_stack.back() in ret and leave is never read on an
\* empty vector, and every return goes just behind the call it answers.
THEOREM CallsNest == Spec => [](ControlMatchesCalls /\ ReturnSites)
<1>1. Spec => []Shape
  BY TypeCorrect, PTL DEF Shape
<1>2. Spec => []CallDiscipline
  BY <1>1, InitialDiscipline, DisciplineIsInductive, PTL DEF Spec
<1>. QED
  BY <1>2, PTL DEF CallDiscipline

-----------------------------------------------------------------------------
(* The registers of suspended frames *)

\* What changes a place writes to it, or through a wild address.
LEMMA WritesNamed ==
    ASSUME Shape, NEW f, NEW A,
           \A p \in DOMAIN f : p \in A \/ \E a \in A : Wild(a)
    PROVE  /\ \A d \in 1 .. depth, q \in Reg :
                 RegistersWith(f)[d][q] # reg_stack[d][q] =>
                     \E a \in A : a = RegPtr(buffer.gen, d, q) \/ Wild(a)
           /\ \A c \in Cell :
                 CellsWith(f)[c] # heap[c] =>
                     \E a \in A : a = CellPtr(c) \/ Wild(a)
  BY DEF RegistersWith, CellsWith

\* Both instructions that write to memory name the addresses they use.
LEMMA StoreNamed ==
    ASSUME Shape, Store
    PROVE  \E f : /\ reg_stack' = RegistersWith(f) /\ heap' = CellsWith(f)
                  /\ \A p \in DOMAIN f :
                        p \in Written \/ \E a \in Written : Wild(a)
<1>1. PICK f \in Stored :
         reg_stack' = RegistersWith(f) /\ heap' = CellsWith(f)
  BY DEF Store
<1>2. Written = {Target} /\ (Known(Target) \/ Wild(Target))
  BY DEF Store, Written
<1>3. \A p \in DOMAIN f : p \in Written \/ \E a \in Written : Wild(a)
  BY <1>1, <1>2 DEF Stored
<1>. QED
  BY <1>1, <1>3

LEMMA ScanfNamed ==
    ASSUME Shape, Scanf
    PROVE  \E f, v :
              /\ reg_stack' = [RegistersWith(f) EXCEPT ![depth][ins.r1] = v]
              /\ heap' = CellsWith(f)
              /\ \A p \in DOMAIN f :
                    p \in Written \/ \E a \in Written : Wild(a)
<1>1. status = "running" /\ pc < prog.size /\ ins.op = "call"
  BY DEF Scanf, CallNative, Fetch
<1>2. PICK n \in 0 .. nargs - 1, result \in Word :
          \E f \in Inputs(Scanned(n)) :
              /\ heap' = CellsWith(f)
              /\ reg_stack' =
                    [RegistersWith(f) EXCEPT ![depth][ins.r1] = Num(result)]
  BY DEF Scanf
<1>2a. PICK f \in Inputs(Scanned(n)) :
          /\ heap' = CellsWith(f)
          /\ reg_stack' =
                [RegistersWith(f) EXCEPT ![depth][ins.r1] = Num(result)]
  BY <1>2
<1>3. Written = LaterArgs
  BY <1>1 DEF Written, Fetch, Scanf
<1>4. Scanned(n) \subseteq LaterArgs
  <2>1. 2 .. n + 1 \subseteq 2 .. nargs
    BY <1>1, Operands
  <2>. QED
    BY <2>1 DEF Scanned, LaterArgs
<1>5. \A p \in DOMAIN f : p \in Written \/ \E a \in Written : Wild(a)
  BY <1>2a, <1>3, <1>4, InputsTyped
<1>. QED
  BY <1>2a, <1>5

LEMMA WritesKeepFrames ==
    ASSUME Shape, Store \/ Scanf
    PROVE  SuspendedFramesKept
<1>1. \A d \in 1 .. depth - 1 : d \in 1 .. depth /\ d # depth
  BY TopFrame
<1>2. ASSUME NEW f,
             \A p \in DOMAIN f : p \in Written \/ \E a \in Written : Wild(a),
             \A d \in 1 .. depth - 1 : reg_stack'[d] = RegistersWith(f)[d]
      PROVE  SuspendedFramesKept
  <2>1. \A d \in 1 .. depth, q \in Reg :
            RegistersWith(f)[d][q] # reg_stack[d][q] =>
                \E a \in Written : a = RegPtr(buffer.gen, d, q) \/ Wild(a)
    BY <1>2, WritesNamed
  <2>. QED
    BY <1>1, <1>2, <2>1 DEF SuspendedFramesKept
<1>3. CASE Store
  BY <1>2, <1>3, StoreNamed
<1>4. CASE Scanf
  <2>1. PICK f, v :
           /\ reg_stack' = [RegistersWith(f) EXCEPT ![depth][ins.r1] = v]
           /\ \A p \in DOMAIN f :
                 p \in Written \/ \E a \in Written : Wild(a)
    BY <1>4, ScanfNamed
  <2>2. \A d \in 1 .. depth - 1 : reg_stack'[d] = RegistersWith(f)[d]
    BY <1>1, <2>1 DEF RegistersWith
  <2>. QED
    BY <1>2, <2>1, <2>2
<1>. QED
  BY <1>3, <1>4

LEMMA StepKeepsFrames ==
    ASSUME Shape, Next
    PROVE  SuspendedFramesKept
<1> USE DEF SuspendedFramesKept
<1>1. ASSUME \E v : SetReg(ins.r1, v)
      PROVE  SuspendedFramesKept
  <2>1. \A d \in 1 .. depth - 1 :
            d # depth /\ d \in DOMAIN reg_stack
    BY TopFrame, LenProperties DEF Shape, TypeOK, depth
  <2>. QED
    BY <1>1, <2>1 DEF SetReg
<1>2. CASE Compute \/ Ineg \/ Gg \/ CreateString \/ Lea \/ Load
           \/ Output \/ Malloc \/ FreeCall
  BY <1>1, <1>2 DEF Compute, Ineg, Gg, CreateString, Lea, Load, Output,
                    Malloc, FreeCall
<1>3. CASE Fd \/ Sg \/ Jmp \/ Jz \/ Jnz \/ CallNull
           \/ AssertFails \/ NativeArityError \/ Exit \/ WrongCommand
           \/ End \/ Crash \/ Undefined
  BY <1>3 DEF Fd, Sg, Jmp, Jz, Jnz, CallNull, AssertFails,
              NativeArityError, Exit, WrongCommand, End, Crash, Undefined
<1>4. CASE Store \/ Scanf
  BY <1>4, WritesKeepFrames
<1>5. CASE CallFunction
  <2>1. \A d \in 1 .. depth - 1 : reg_stack'[d] = reg_stack[d]
    BY <1>5, TopFrame DEF CallFunction, Shape, TypeOK, depth
  <2>. QED
    BY <2>1
<1>6. CASE Return
  <2>1. /\ call_stack # <<>> /\ Fetch("ret")
        /\ \E v : reg_stack' = WithResult(v)
    BY <1>6 DEF Return
  <2>2. \A d \in 1 .. depth - 1 :
            /\ d \in DOMAIN Pop(reg_stack)
            /\ Pop(reg_stack)[d] = reg_stack[d]
            /\ reg_stack[d] \in Frame
    <3>1. reg_stack \in Seq(Frame) /\ reg_stack # <<>>
      BY TopFrame, EmptySeq DEF Shape, TypeOK, depth
    <3>. QED
      BY <3>1, TopFrame, PopTyped, LenProperties DEF depth
  <2>3. \A d \in 1 .. depth - 1, q \in Reg :
            reg_stack'[d][q] # reg_stack[d][q] =>
                d = depth - 1 /\ q = Caller.r
    BY <2>1, <2>2 DEF WithResult, Frame
  <2>. QED
    BY <2>1, <2>3
<1>7. CASE Leave
  <2>1. reg_stack \in Seq(Frame) /\ reg_stack # <<>>
    BY TopFrame, EmptySeq DEF Shape, TypeOK, depth
  <2>2. \A d \in 1 .. depth - 1 : reg_stack'[d] = reg_stack[d]
    BY <1>7, <2>1, PopTyped DEF Leave, depth
  <2>. QED
    BY <2>2
<1>. QED
  BY <1>2, <1>3, <1>4, <1>5, <1>6, <1>7 DEF Next

\* "Each stack frame has its own set of 256 registers": no instruction of a
\* callee changes a register of a suspended frame, except ret, which sets the
\* result register of the call, and one that writes through a pointer to the
\* register, or through an address of which the VM cannot know what it is.
THEOREM FramesPrivate == Spec => SuspendedFramesSafe
<1>1. Shape /\ [Next]_vars => [SuspendedFramesKept]_vars
  BY StepKeepsFrames
<1>2. Spec => []Shape
  BY TypeCorrect, PTL DEF Shape
<1>. QED
  BY <1>1, <1>2, PTL DEF Spec, SuspendedFramesSafe

-----------------------------------------------------------------------------
(* The memory of malloc and new *)

LEMMA StepKeepsCells ==
    ASSUME Shape, Next
    PROVE  CellsKept
<1> USE DEF CellsKept
<1>1. heap \in [Cell -> Value \cup {Free}]
  BY DEF Shape, TypeOK
<1>2. CASE Fd \/ Compute \/ Ineg \/ Gg \/ Sg \/ Lea \/ Load
           \/ Jmp \/ Jz \/ Jnz \/ CallFunction \/ CallNull \/ Return \/ Leave
           \/ Output \/ AssertFails \/ NativeArityError \/ Exit
           \/ WrongCommand \/ End \/ Crash \/ Undefined
  BY <1>2 DEF Fd, Compute, Ineg, Gg, Sg, Lea, Load, Jmp, Jz, Jnz,
              CallFunction, CallNull, Return, Leave, Output, AssertFails,
              NativeArityError, Exit, WrongCommand, End, Crash, Undefined
<1>3. ASSUME NEW n \in NewCells, NEW v, heap' = [heap EXCEPT ![n] = v]
      PROVE  CellsKept
  BY <1>1, <1>3 DEF NewCells
<1>5. CASE CreateString
  BY <1>3, <1>5 DEF CreateString
<1>6. CASE Malloc
  BY <1>3, <1>6 DEF Malloc
<1>7. CASE Store
  BY <1>7, StoreNamed, WritesNamed
<1>8. CASE FreeCall
  BY <1>1, <1>8 DEF FreeCall, Released
<1>9. CASE Scanf
  BY <1>9, ScanfNamed, WritesNamed
<1>. QED
  BY <1>2, <1>5, <1>6, <1>7, <1>8, <1>9 DEF Next

\* An instruction changes a cell of malloc or new only while nobody owns it,
\* or through its address or a wild one, which it writes to or frees: handing
\* out memory again included.
THEOREM CellsGuarded == Spec => CellsReachedByAddress
<1>1. Shape /\ [Next]_vars => [CellsKept]_vars
  BY StepKeepsCells
<1>2. Spec => []Shape
  BY TypeCorrect, PTL DEF Shape
<1>. QED
  BY <1>1, <1>2, PTL DEF Spec, CellsReachedByAddress

-----------------------------------------------------------------------------
(* The two remaining invariants, by themselves *)

\* The two stacks of the interpreter grow and shrink together.
THEOREM FramesAgree == Spec => []FramesMatchCalls
  BY TypeCorrect, PTL

\* A saved return address is just past a call, and the saved register is its
\* result register, whatever has happened since the call.
THEOREM ReturnsKnown == Spec => []ReturnSites
  BY CallsNest, PTL
=============================================================================

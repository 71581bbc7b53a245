-------------------------------- MODULE Rbvm --------------------------------
(***************************************************************************)
(* The RBVM interpreter, src/vm/RBVM.cpp: the loop of main, one action per *)
(* kind of instruction.  The state is that of the process: the program     *)
(* counter i, the vector of register frames reg_stack, the vector of       *)
(* return addresses call_stack, the map names of globals, and the cells    *)
(* obtained from malloc and new.                                           *)
(*                                                                         *)
(* Data is abstract.  A 64-bit register holds a tagged value: an integer   *)
(* of the small set Word, one of the addresses the VM itself produces, or  *)
(* Unknown, any 64-bit value at all.  What the ALU computes on integers is *)
(* the parameter Alu; what it computes on an address is Unknown, and so is *)
(* what uninitialised memory holds.  Unknown, an integer other than 0 or a *)
(* stale address may be the address of anything.  A string or a malloc     *)
(* block is one cell, of which the model follows the first 8 bytes.        *)
(* Offsets in the bytecode are the real byte offsets of the encoding.      *)
(***************************************************************************)
EXTENDS BytecodeFiles, FiniteSets

CONSTANTS
    Modulus,        \* for each access width, 2^width
    FullWidth,      \* the width of a whole register (64)
    Cell,           \* memory cells of malloc and new
    MaxDepth,       \* calls the memory of the process can hold
    DivOps,         \* the instructions that divide
    Alu(_, _, _)    \* what two-operand instructions compute on integers

ASSUME ConstantsAssumption ==
    /\ MaxDepth \in Nat
    /\ {"mov", "iadd", "isub"} \subseteq AluOps
    /\ DivOps \subseteq AluOps
    /\ FullWidth \in Widths
    /\ Modulus \in [Widths -> 1 .. WordMax + 1]

\* The ALU returns a word, whatever the operation and its operands.
ASSUME AluAssumption ==
    \A f \in AluOps, a, b \in Word :
        (f \in DivOps => b # 0) => Alu(f, a, b) \in Word

-----------------------------------------------------------------------------
(* Values *)

Num(n) == [tag |-> "num", n |-> n]
RegPtr(g, d, q) == [tag |-> "reg", gen |-> g, frame |-> d, reg |-> q]
CellPtr(c) == [tag |-> "cell", cell |-> c]
Fun(off, nargs) == [tag |-> "fun", off |-> off, nargs |-> nargs]
Native(name) == [tag |-> "native", name |-> name]

Null == Num(0)
Unknown == [tag |-> "unknown"]
Free == [tag |-> "free"]    \* a cell that is not allocated

NativeNames == {"puts", "printf", "scanf", "exit", "malloc", "free"}

-----------------------------------------------------------------------------
VARIABLES
    file,           \* the bytecode file, read before the loop starts
    pc,             \* the offset i
    reg_stack,      \* the frames, the last one is REG
    buffer,         \* where the vector of frames lives: generation, capacity
    call_stack,     \* pairs of a return offset i and a result register r
    names,          \* the globals
    heap,           \* the cells of malloc and new
    status          \* running, or how the process ended

vars == <<file, pc, reg_stack, buffer, call_stack, names, heap, status>>

prog == Programs[file]

Functions(p) ==
    {Fun(After(p, d), p.code[d].nargs) : d \in Declarations(p) \cap Live(p)}

Nums == {Num(n) : n \in Word}
RegPtrs == [tag : {"reg"}, gen : Nat, frame : Nat, reg : Reg]
CellPtrs == {CellPtr(c) : c \in Cell}
Natives == {Native(x) : x \in NativeNames}
Value ==
    Nums \cup RegPtrs \cup CellPtrs \cup Natives \cup Functions(prog)
        \cup {Unknown}

Frame == [Reg -> Value]
Statuses == {"running", "done", "exited", "aborted", "crashed", "undefined"}

\* The type invariant of the process.
TypeOK ==
    /\ file \in DOMAIN Programs
    /\ pc \in Live(prog) \cup {prog.size}
    /\ reg_stack \in Seq(Frame)
    /\ buffer \in [gen : Nat, cap : Nat]
    /\ call_stack \in Seq([i : Live(prog) \cup {prog.size}, r : Reg])
    /\ names \in [Names -> Value]
    /\ heap \in [Cell -> Value \cup {Free}]
    /\ status \in Statuses

EmptyFrame == [q \in Reg |-> Null]    \* emplace_back() zeroes the array

Init ==
    /\ file \in DOMAIN Programs
    /\ pc = 0
    /\ reg_stack = <<EmptyFrame>>
    /\ buffer = [gen |-> 1, cap |-> 1]
    /\ call_stack = <<>>
    /\ names = [x \in Names |->
                    IF x \in NativeNames THEN Native(x) ELSE Null]
    /\ heap = [c \in Cell |-> Free]
    /\ status = "running"

-----------------------------------------------------------------------------
(* The instruction being executed and its operands *)

ins == prog.code[pc]
after == After(prog, pc)
depth == Len(reg_stack)
REG == reg_stack[depth]
Operand == IF ins.k THEN Num(ins.c) ELSE REG[ins.r2]
Callee == REG[ins.r1]
nargs == Len(ins.args)
Arg(j) == REG[ins.args[j]]

Fetch(op) ==
    /\ status = "running"
    /\ pc < prog.size
    /\ ins.op = op

SetReg(r, v) == reg_stack' = [reg_stack EXCEPT ![depth][r] = v]

\* A pointer made by lea works until the frame is popped or the vector moves.
LiveReg(v) ==
    v.tag = "reg" /\ v.gen = buffer.gen /\ v.frame \in 1 .. depth
LiveCell(v) == v.tag = "cell" /\ heap[v.cell] # Free
Known(v) == LiveReg(v) \/ LiveCell(v)

\* An address of which the model does not know what it refers to: computed,
\* read from uninitialised memory, an integer, or stale.
Wild(v) == v # Null /\ v.tag \notin {"fun", "native"} /\ ~Known(v)

\* The addresses of the registers and of the cells that are allocated.
Places ==
    {RegPtr(buffer.gen, d, q) : d \in 1 .. depth, q \in Reg}
        \cup {CellPtr(c) : c \in {x \in Cell : heap[x] # Free}}

\* What an access through a wild address may reach: up to two places, as it
\* need not be aligned, or none the model names.
Hits == {{}} \cup {{p, q} : p, q \in Places}

Content(a) == IF LiveReg(a) THEN reg_stack[a.frame][a.reg] ELSE heap[a.cell]

\* A value cut to width w.
Narrowed(w, v) ==
    CASE w = FullWidth -> v
      [] w # FullWidth /\ v \in Nums -> Num(v.n % Modulus[w])
      [] OTHER -> Unknown

\* A read of width w through address a.
Loaded(w, a) == IF Known(a) THEN Narrowed(w, Content(a)) ELSE Unknown

\* The low w bits of old overwritten by those of v.
Merged(w, old, v) ==
    CASE w = FullWidth -> v
      [] w # FullWidth /\ old \in Nums /\ v \in Nums ->
            LET m == Modulus[w]
            IN  Num(((old.n - (old.n % m)) + (v.n % m)) % (WordMax + 1))
      [] OTHER -> Unknown

\* A two-operand instruction: an address is a number the model does not
\* know, except that moving it, or adding nothing, keeps it.
Computed(f, a, b) ==
    CASE f = "mov" -> b
      [] f \in {"iadd", "isub"} /\ b = Null -> a
      [] f = "iadd" /\ a = Null -> b
      [] OTHER -> IF a \in Nums /\ b \in Nums
                  THEN Num(Alu(f, a.n, b.n)) ELSE Unknown

\* Memory after writing f[p] to each place p of f.
RegistersWith(f) ==
    [d \in 1 .. depth |-> [q \in Reg |->
        LET p == RegPtr(buffer.gen, d, q)
        IN  IF p \in DOMAIN f THEN f[p] ELSE reg_stack[d][q]]]
CellsWith(f) ==
    [c \in Cell |->
        IF CellPtr(c) \in DOMAIN f THEN f[CellPtr(c)] ELSE heap[c]]

DividesByZero == ins.f \in DivOps /\ Operand = Null
MayDivideByZero == ins.f \in DivOps /\ Operand \in {Null, Unknown}

-----------------------------------------------------------------------------
(* Instructions that stay in the frame *)

\* fd: bind the name, skip the body.
Fd_RunsBody ==
    /\ Fetch("fd")
    /\ names' = [names EXCEPT ![ins.name] = Fun(after, ins.nargs)]
    /\ pc' = after
    /\ UNCHANGED <<file, reg_stack, buffer, call_stack, heap, status>>

Fd ==
    /\ Fetch("fd")
    /\ names' = [names EXCEPT ![ins.name] = Fun(after, ins.nargs)]
    /\ pc' = Past(prog, pc)
    /\ UNCHANGED <<file, reg_stack, buffer, call_stack, heap, status>>

Compute ==
    /\ Fetch("alu")
    /\ ~DividesByZero
    /\ SetReg(ins.r1, Computed(ins.f, REG[ins.r1], Operand))
    /\ pc' = after
    /\ UNCHANGED <<file, buffer, call_stack, names, heap, status>>

\* ineg complements every bit.
Ineg ==
    /\ Fetch("ineg")
    /\ SetReg(ins.r1, IF REG[ins.r1] \in Nums
                      THEN Num(WordMax - REG[ins.r1].n) ELSE Unknown)
    /\ pc' = after
    /\ UNCHANGED <<file, buffer, call_stack, names, heap, status>>

Gg ==
    /\ Fetch("gg")
    /\ SetReg(ins.r1, names[ins.name])
    /\ pc' = after
    /\ UNCHANGED <<file, buffer, call_stack, names, heap, status>>

Sg ==
    /\ Fetch("sg")
    /\ names' = [names EXCEPT ![ins.name] = REG[ins.r1]]
    /\ pc' = after
    /\ UNCHANGED <<file, reg_stack, buffer, call_stack, heap, status>>

\* css and css_dyn: a new cell, holding the literal or a copy of a register.
NewCells_Static == Cell
NewCells == {c \in Cell : heap[c] = Free}

CreateString ==
    /\ Fetch("css") \/ Fetch("css_dyn")
    /\ \E c \in NewCells :
          /\ heap' = [heap EXCEPT ![c] =
                        IF ins.op = "css" THEN Num(ins.c) ELSE REG[ins.r2]]
          /\ SetReg(ins.r1, CellPtr(c))
    /\ pc' = after
    /\ UNCHANGED <<file, buffer, call_stack, names, status>>

Lea ==
    /\ Fetch("lea")
    /\ SetReg(ins.r1, RegPtr(buffer.gen, depth, ins.r2))
    /\ pc' = after
    /\ UNCHANGED <<file, buffer, call_stack, names, heap, status>>

Load ==
    /\ Fetch("ld")
    /\ Operand # Null
    /\ SetReg(ins.r1, Loaded(ins.w, Operand))
    /\ pc' = after
    /\ UNCHANGED <<file, buffer, call_stack, names, heap, status>>

\* st: the constant or the first register is the address.
Target == IF ins.k THEN Num(ins.c) ELSE REG[ins.r1]

\* What st writes, and where: the places it reaches with their new values.
Stored ==
    IF Known(Target)
    THEN {[p \in {Target} |-> Merged(ins.w, Content(p), REG[ins.r2])]}
    ELSE {[p \in hit |-> Unknown] : hit \in Hits}

Store ==
    /\ Fetch("st")
    /\ Known(Target) \/ Wild(Target)
    /\ \E f \in Stored :
          /\ reg_stack' = RegistersWith(f)
          /\ heap' = CellsWith(f)
    /\ pc' = after
    /\ UNCHANGED <<file, buffer, call_stack, names, status>>

Jmp ==
    /\ Fetch("jmp")
    /\ pc' = pc + ins.off
    /\ UNCHANGED <<file, reg_stack, buffer, call_stack, names, heap, status>>

Jz ==
    /\ Fetch("jz")
    /\ \/ REG[ins.r1] \in {Null, Unknown} /\ pc' = pc + ins.off
       \/ REG[ins.r1] # Null /\ pc' = after
    /\ UNCHANGED <<file, reg_stack, buffer, call_stack, names, heap, status>>

Jnz ==
    /\ Fetch("jnz")
    /\ \/ REG[ins.r1] # Null /\ pc' = pc + ins.off
       \/ REG[ins.r1] \in {Null, Unknown} /\ pc' = after
    /\ UNCHANGED <<file, reg_stack, buffer, call_stack, names, heap, status>>

-----------------------------------------------------------------------------
(* Calls and returns *)

\* Growing a full vector moves the frames to a new buffer, twice as large.
Grown ==
    IF depth < buffer.cap THEN buffer
    ELSE [gen |-> buffer.gen + 1, cap |-> 2 * buffer.cap]

\* The frame init_call pushes: argument j, read in the caller, is register j.
CalleeFrame ==
    [q \in Reg |-> IF q \in 1 .. nargs THEN Arg(q) ELSE Null]

Saved_BeforeArgs == [i |-> after - nargs, r |-> ins.r1]
Saved_Register0 == [i |-> after, r |-> 0]
Saved == [i |-> after, r |-> ins.r1]

\* A wild address may be that of any function.
Calls(x) == Callee = x \/ Wild(Callee)

CallFunction ==
    /\ Fetch("call")
    /\ Len(call_stack) < MaxDepth
    /\ \E f \in Functions(prog) :
          /\ Calls(f)
          /\ f.nargs = nargs
          /\ pc' = f.off
    /\ reg_stack' = Append(reg_stack, CalleeFrame)
    /\ buffer' = Grown
    /\ call_stack' = Append(call_stack, Saved)
    /\ UNCHANGED <<file, names, heap, status>>

\* assert(n == f.nargs)
AssertFails ==
    /\ Fetch("call")
    /\ \E f \in Functions(prog) : Calls(f) /\ f.nargs # nargs
    /\ status' = "aborted"
    /\ UNCHANGED <<file, pc, reg_stack, buffer, call_stack, names, heap>>

\* "refusing to call a null pointer": the arguments are skipped.
Refused_KeepsArgs == after - nargs
Refused == after

CallNull ==
    /\ Fetch("call")
    /\ Callee \in {Null, Unknown}
    /\ pc' = Refused
    /\ UNCHANGED <<file, reg_stack, buffer, call_stack, names, heap, status>>

Caller == call_stack[Len(call_stack)]

Pop(s) == SubSeq(s, 1, Len(s) - 1)

\* reg_stack.pop_back() and REG[r] = value
WithResult_Unpopped(v) == [reg_stack EXCEPT ![depth][Caller.r] = v]
WithResult_ReadRegister(v) ==
    [Pop(reg_stack) EXCEPT ![depth - 1][ins.r1] = v]
WithResult(v) == [Pop(reg_stack) EXCEPT ![depth - 1][Caller.r] = v]

Return ==
    /\ Fetch("ret")
    /\ call_stack # <<>>
    /\ reg_stack' = WithResult(IF ins.k THEN Num(ins.c) ELSE REG[ins.r1])
    /\ pc' = Caller.i
    /\ call_stack' = Pop(call_stack)
    /\ UNCHANGED <<file, buffer, names, heap, status>>

Leave ==
    /\ Fetch("leave")
    /\ call_stack # <<>>
    /\ reg_stack' = Pop(reg_stack)
    /\ pc' = Caller.i
    /\ call_stack' = Pop(call_stack)
    /\ UNCHANGED <<file, buffer, names, heap, status>>

-----------------------------------------------------------------------------
(* Calls of native functions: the arguments are read in the caller, the    *)
(* result goes to the register that held the function.                     *)

Accepts(name, n) == IF name \in {"printf", "scanf"} THEN n >= 1 ELSE n = 1

CallNative(name) ==
    /\ Fetch("call")
    /\ Calls(Native(name))
    /\ Accepts(name, nargs)

\* The wrong number of arguments ends the process with exit(1).
NativeArityError ==
    /\ Fetch("call")
    /\ \E name \in NativeNames : Calls(Native(name)) /\ ~Accepts(name, nargs)
    /\ status' = "exited"
    /\ UNCHANGED <<file, pc, reg_stack, buffer, call_stack, names, heap>>

\* puts returns 0, printf what the library returns.
Output ==
    /\ \/ CallNative("puts") /\ SetReg(ins.r1, Null)
       \/ CallNative("printf") /\ \E v \in Nums : SetReg(ins.r1, v)
    /\ Arg(1) # Null
    /\ pc' = after
    /\ UNCHANGED <<file, buffer, call_stack, names, heap, status>>

\* The first n conversions of scanf succeed and write through their arguments.
Scanned(n) == {Arg(j) : j \in 2 .. n + 1}

\* The places that writes through the wild addresses of A may reach.
Strays(A) ==
    {UNION {f[a] : a \in DOMAIN f} : f \in [{a \in A : Wild(a)} -> Hits]}

\* What scanf writes, and where.
Inputs(A) ==
    {[p \in stray \cup {a \in A : Known(a)} |->
        IF p \in stray THEN Unknown ELSE Num(input[p])] :
            stray \in Strays(A), input \in [A -> Word]}

Scanf ==
    /\ CallNative("scanf")
    /\ Arg(1) # Null
    /\ \E n \in 0 .. nargs - 1, result \in Word :
          /\ \A a \in Scanned(n) : Known(a) \/ Wild(a)
          /\ result = n \/ (n = 0 /\ result = WordMax)
          /\ \E f \in Inputs(Scanned(n)) :
                /\ heap' = CellsWith(f)
                /\ reg_stack' =
                        [RegistersWith(f) EXCEPT ![depth][ins.r1] = Num(result)]
    /\ pc' = after
    /\ UNCHANGED <<file, buffer, call_stack, names, status>>

Exit ==
    /\ CallNative("exit")
    /\ status' = "exited"
    /\ UNCHANGED <<file, pc, reg_stack, buffer, call_stack, names, heap>>

\* malloc: an uninitialised cell, or NULL.
Malloc ==
    /\ CallNative("malloc")
    /\ \/ \E c \in NewCells :
             /\ heap' = [heap EXCEPT ![c] = Unknown]
             /\ SetReg(ins.r1, CellPtr(c))
       \/ /\ SetReg(ins.r1, Null)
          /\ heap' = heap
    /\ pc' = after
    /\ UNCHANGED <<file, buffer, call_stack, names, status>>

FreeCall ==
    /\ CallNative("free")
    /\ \/ Arg(1) = Null /\ heap' = heap
       \/ \E c \in Cell :
             /\ heap[c] # Free
             /\ Arg(1) = CellPtr(c) \/ Wild(Arg(1))
             /\ heap' = [heap EXCEPT ![c] = Free]
    /\ SetReg(ins.r1, Null)
    /\ pc' = after
    /\ UNCHANGED <<file, buffer, call_stack, names, status>>

-----------------------------------------------------------------------------
(* How the process ends *)

WrongCommand ==
    /\ Fetch("wrong")
    /\ status' = "exited"
    /\ UNCHANGED <<file, pc, reg_stack, buffer, call_stack, names, heap>>

End ==
    /\ status = "running"
    /\ pc >= prog.size
    /\ status' = "done"
    /\ UNCHANGED <<file, pc, reg_stack, buffer, call_stack, names, heap>>

LaterArgs == {Arg(j) : j \in 2 .. nargs}

MayFault(a) == a = Null \/ Wild(a)

\* A signal or an uncaught exception: a division by zero, an access through
\* an address that is not mapped, memory exhausted, a format that
\* dereferences an integer.
Crash ==
    /\ \/ Fetch("alu") /\ MayDivideByZero
       \/ Fetch("ld") /\ MayFault(Operand)
       \/ Fetch("st") /\ MayFault(Target)
       \/ (Fetch("css") \/ Fetch("css_dyn")) /\ NewCells = {}
       \/ Fetch("call") /\ Wild(Callee)
       \/ /\ Fetch("call")
          /\ \E f \in Functions(prog) : Calls(f) /\ f.nargs = nargs
          /\ Len(call_stack) = MaxDepth
       \/ /\ CallNative("puts") \/ CallNative("printf") \/ CallNative("scanf")
          /\ MayFault(Arg(1))
       \/ /\ CallNative("printf") \/ CallNative("scanf")
          /\ \E a \in LaterArgs : MayFault(a)
       \/ CallNative("free") /\ Wild(Arg(1))
    /\ status' = "crashed"
    /\ UNCHANGED <<file, pc, reg_stack, buffer, call_stack, names, heap>>

\* The memory of the VM itself, the bytecode included, is written or freed,
\* or something else than a function is called: the model stops.
MayHitVM(a) == Wild(a) \/ a.tag \in {"fun", "native"}

Undefined ==
    /\ \/ Fetch("st") /\ MayHitVM(Target)
       \/ Fetch("call") /\ (Wild(Callee) \/ Known(Callee))
       \/ CallNative("scanf") /\ \E a \in LaterArgs : MayHitVM(a)
       \/ CallNative("free") /\ (MayHitVM(Arg(1)) \/ LiveReg(Arg(1)))
       \/ (Fetch("ret") \/ Fetch("leave")) /\ call_stack = <<>>
    /\ status' = "undefined"
    /\ UNCHANGED <<file, pc, reg_stack, buffer, call_stack, names, heap>>

Next ==
    \/ Fd \/ Compute \/ Ineg \/ Gg \/ Sg \/ CreateString \/ Lea
    \/ Load \/ Store \/ Jmp \/ Jz \/ Jnz
    \/ CallFunction \/ AssertFails \/ CallNull \/ Return \/ Leave
    \/ NativeArityError \/ Output \/ Scanf \/ Exit \/ Malloc \/ FreeCall
    \/ WrongCommand \/ End \/ Crash \/ Undefined

Spec == Init /\ [][Next]_vars

-----------------------------------------------------------------------------
(* Properties *)

\* reg_stack and call_stack grow and shrink together, the frame of the top
\* level being the one without a return address.
FramesMatchCalls == Len(reg_stack) = Len(call_stack) + 1

\* ret and leave read call_stack.back() without testing that it exists.
\* Control is in the body of a function exactly when some call is active,
\* and every caller but the first was itself in a body.
ControlMatchesCalls ==
    status = "running" =>
        /\ InBody(prog, pc) <=> call_stack # <<>>
        /\ \A d \in DOMAIN call_stack :
              InBody(prog, call_stack[d].i) <=> d > 1

\* Every saved return address is just past a call instruction, arguments
\* included, and the saved register is the one that call names.
ReturnSites ==
    \A d \in DOMAIN call_stack :
        \E j \in Sites(prog) :
            /\ prog.code[j].op = "call"
            /\ After(prog, j) = call_stack[d].i
            /\ prog.code[j].r1 = call_stack[d].r

\* The addresses through which the instruction writes, and the one it frees.
Written ==
    IF Fetch("st") THEN {Target}
    ELSE IF CallNative("scanf") THEN LaterArgs ELSE {}
Released == IF CallNative("free") THEN {Arg(1)} ELSE {}

\* "Each stack frame has its own set of 256 registers": an instruction
\* changes a register of a suspended frame only if it returns to that frame,
\* and then only the result register of the call, or if it writes through a
\* live pointer to that very register, or through a wild address.
SuspendedFramesKept ==
    \A d \in 1 .. depth - 1, q \in Reg :
        reg_stack'[d][q] # reg_stack[d][q] =>
            \/ Fetch("ret") /\ d = depth - 1 /\ q = Caller.r
            \/ \E a \in Written : a = RegPtr(buffer.gen, d, q) \/ Wild(a)
SuspendedFramesSafe == [][SuspendedFramesKept]_vars

\* Memory of malloc and new changes only while it is not allocated, or by
\* an instruction that writes to it or frees it through its address, or
\* through a wild one.
CellsKept ==
    \A c \in Cell :
        heap'[c] # heap[c] =>
            \/ heap[c] = Free
            \/ \E a \in Written \cup Released : a = CellPtr(c) \/ Wild(a)
CellsReachedByAddress == [][CellsKept]_vars

\* "lea <Reg1> <Reg2>  # <Reg1> = &<Reg2>": a pointer that a frame took to
\* its own register points to that register for as long as the frame lives.
\* The code does not keep this: the vector of frames moves when it grows.
LeaAddressesRegister ==
    \A d \in 1 .. depth, q \in Reg :
        LET v == reg_stack[d][q]
        IN  v.tag = "reg" /\ v.frame = d => LiveReg(v)
=============================================================================

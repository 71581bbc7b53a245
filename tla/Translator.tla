----------------------------- MODULE Translator -----------------------------
(***************************************************************************)
(* The translator, class RbvmWriter of src/llvm-backend/RbvmBackend.cpp:   *)
(* an LLVM module goes in, a bytecode file comes out.  One action per      *)
(* block printed, and per loop or function begun and ended.                *)
(*                                                                         *)
(* A module is a record [functions, globals]; a function has a name, the   *)
(* identifiers of its parameters, and blocks, the first one its entry; a   *)
(* block has phis, a body and a terminator.  Of the types the translator   *)
(* keeps only the bit mask of an integer and whether there is a value; an  *)
(* instruction without one has the identifier NoId.                        *)
(***************************************************************************)
EXTENDS Assembly, Graphs

CONSTANTS
    Modules,        \* the LLVM modules to translate, by some index
    FullWidth,      \* the width of a whole register (64)
    NoId,           \* the identifier of instructions without a value
    Mangle(_)       \* the name under which globals are looked up

VARIABLES
    module,         \* the index of the module being translated
    fn,             \* the number of the function being printed
    LI,             \* for each of its blocks, the loops around it, innermost last
    work,           \* the active calls of printLoop; the first is printFunction
    writer,         \* the members of the RbvmWriter and the text it has written
    layout,         \* for each function printed, where things are in the file
    ended           \* doFinalization is done

vars == <<module, fn, LI, work, writer, layout, ended>>

M == Modules[module]
F == M.functions[fn]

-----------------------------------------------------------------------------
(* Loops, as the analysis LoopInfo of LLVM finds them: the header of a     *)
(* natural loop dominates a block that branches back to it.                *)

Successor(f, b) == ToSet(f.blocks[b].term.to)

Flow(f, blocks) ==
    [node |-> blocks,
     edge |-> {e \in blocks \X blocks : e[2] \in Successor(f, e[1])}]

LoopInfo(f) ==
    LET Blocks == DOMAIN f.blocks
        without == [h \in Blocks |-> ConnectionsIn(Flow(f, Blocks \ {h}))]
        Dominates(h, b) == h \in {1, b} \/ ~without[h][1, b]
        Back(h) == {b \in Blocks : h \in Successor(f, b) /\ Dominates(h, b)}
        loop == [h \in {h \in Blocks : Back(h) # {}} |->
                    {h} \cup {b \in Blocks \ {h} :
                        \E s \in Back(h) \ {h} : without[h][b, s]}]
        Around(b) == {h \in DOMAIN loop : b \in loop[h]}
        Inward(s) ==
            \A m, n \in DOMAIN s : m <= n => loop[s[n]] \subseteq loop[s[m]]
    IN  [b \in Blocks |-> CHOOSE s \in SetToSeqs(Around(b)) : Inward(s)]

-----------------------------------------------------------------------------
(* Writing instructions *)

\* produce1 takes a uint8_t.
Byte_Unsigned(r) == r
Byte(r) == r % (LastReg + 1)

With(f, j, x) == [k \in DOMAIN f \cup {j} |-> IF k = j THEN x ELSE f[k]]

Emit(w, x) ==
    [w EXCEPT !.code = With(w.code, w.size, x), !.size = @ + Length(x)]

EmitRR(w, f, r, q) == Emit(w, AluR(f, Byte(r), Byte(q)))
EmitRC(w, f, r, c) == Emit(w, AluC(f, Byte(r), c))
EmitJump(w, op, r) == Emit(w, JumpI(op, Byte(r), 0))

\* The jump written at position h comes to the end of what is written so far.
FixupLocal(w, h) == [w EXCEPT !.code[h].off = w.size - h]

PostponeJmp(w, b) ==
    Emit([w EXCEPT !.PostponedJumps = Append(@, [block |-> b, pos |-> w.size])],
         JumpI("jmp", 0, -1))

NewReg(w) == w.NextReg + 1
Fresh(w) == [w EXCEPT !.NextReg = @ + 1]
Result(w, r) == [w EXCEPT !.ResultReg = r]

\* Register r takes a copy of the result.
Into(w, r) == EmitRR(w, "mov", r, w.ResultReg)
ResultInto(w, r) == Result(Into(w, r), r)
Copied(w) == Into(Fresh(w), NewReg(w))

MaskedTo(w, mask) ==
    Result(EmitRC(Copied(w), "and", NewReg(w), mask), NewReg(w))

WriteCastTo(w, mask) == IF mask = WordMax THEN w ELSE MaskedTo(w, mask)

\* What is written next is skipped if the result is zero, until Otherwise,
\* with h the position of the jz; what follows then is skipped if it is not.
localJZ(w) == EmitJump(w, "jz", w.ResultReg)
Otherwise(w, h) == FixupLocal(EmitJump(w, "jmp", 0), h)

-----------------------------------------------------------------------------
(* Operands: a local value, an alloca of the entry block, a global, an     *)
(* integer (sign-extended), undef, or a constant address into a global.    *)

Mov(w, n) == Result(EmitRC(Fresh(w), "mov", NewReg(w), n), NewReg(w))

\* The integer is cast to its type, but it is the uncast one that is used.
PrintInt(w, n, mask) ==
    IF mask = 1 THEN Mov(w, n)
    ELSE Result(WriteCastTo(Mov(w, n), mask), NewReg(w))

PrintUndef(w, mask) == ResultInto(PrintInt(Fresh(w), 0, mask), NewReg(w))

ReadGlobal(w, x) ==
    Result(Emit(Fresh(w), GgI(Mangle(x), Byte(NewReg(w)))), NewReg(w))

WriteLeaf(w, o) ==
    CASE o.kind = "int" -> PrintInt(w, o.n, o.mask)
      [] o.kind = "undef" -> PrintUndef(w, o.mask)
      [] o.kind = "global" -> ReadGlobal(w, o.name)
      [] o.kind \in {"local", "alloca"} -> Result(w, w.Locals[o.id])

TakeAddress(w) ==
    Result(Emit(Fresh(w), LeaI(Byte(NewReg(w)), Byte(w.ResultReg))), NewReg(w))

\* As a value an alloca is the address of its register.
WriteValue(w, o) ==
    IF o.kind = "alloca" THEN TakeAddress(WriteLeaf(w, o)) ELSE WriteLeaf(w, o)

\* The bytes an index steps over: those of a primitive type.
Scale(bits) == IF bits > 8 /\ bits % 8 = 0 THEN bits \div 8 ELSE 1

AddIndex(w, new, scale) ==
    IF scale = 1 THEN EmitRR(w, "iadd", new, w.ResultReg)
    ELSE EmitRR(EmitRC(Into(w, new + 1), "umul", new + 1, scale),
                "iadd", new, new + 1)

\* A register for the address and one to scale an index in.
Indexed(ptr, indices) ==
    Result(FoldLeft(LAMBDA w, x :
                        AddIndex(WriteValue(w, x.index), NewReg(ptr), Scale(x.bits)),
                    Fresh(Copied(ptr)), indices),
           NewReg(ptr))

WriteGEP(w, base, indices) == Indexed(WriteValue(w, base), indices)

WriteOperand(w, o) ==
    IF o.kind = "gep"
    THEN ResultInto(WriteGEP(Fresh(w), o.base, o.indices), NewReg(w))
    ELSE WriteValue(w, o)

-----------------------------------------------------------------------------
(* Instructions.  x.args are the operands of x, in the order of LLVM, the  *)
(* callee first.                                                           *)

Operate(left, x) ==
    LET Second(w) == EmitRR(w, x.f, NewReg(left), w.ResultReg)
    IN  Result(Second(WriteOperand(Copied(left), x.args[2])), NewReg(left))

BinaryOrCompare(w, x) == Operate(WriteOperand(w, x.args[1]), x)

Binary(w, x) == WriteCastTo(BinaryOrCompare(w, x), x.mask)

CastTo(w, mask) == IF mask = 1 THEN MaskedTo(w, 1) ELSE WriteCastTo(w, mask)
Cast(w, x) == CastTo(WriteOperand(w, x.args[1]), x.mask)

Select(w, x) ==
    LET Chosen(v, o) == Into(WriteOperand(v, o), NewReg(w))
        No(yes, h) == FixupLocal(Chosen(Otherwise(yes, h), x.args[3]), yes.size)
        Either(cond) == No(Chosen(localJZ(cond), x.args[2]), cond.size)
    IN  WriteCastTo(Result(Either(WriteOperand(Fresh(w), x.args[1])), NewReg(w)),
                    x.mask)

\* produceLD_RR and produceST_RR know the widths of the machine and write nothing
\* for another one, such as a pointer's (0 bits) or a truth value's (1 bit): the
\* register of the load is taken all the same.
LoadFrom(w, width) ==
    LET ld == LdI(width, Byte(NewReg(w)), Byte(w.ResultReg))
    IN  Result(IF width \in Widths THEN Emit(Fresh(w), ld) ELSE Fresh(w), NewReg(w))

\* The register of an alloca is its memory.
Load(w, x) ==
    IF x.args[1].kind = "alloca" THEN WriteLeaf(w, x.args[1])
    ELSE LoadFrom(WriteOperand(w, x.args[1]), x.w)

NewCell(w) ==
    Result(Emit(Fresh(w), DynI(Byte(NewReg(w)), Byte(w.ResultReg))), NewReg(w))

Assigned(w, name) == Emit(w, SgI(name, Byte(w.ResultReg)))

\* A store to a global gives it a new cell.
StoreTo(what, o, width) ==
    LET Through(w) ==
            IF width \in Widths
            THEN Emit(w, StI(width, Byte(w.ResultReg), Byte(what.ResultReg))) ELSE w
    IN  CASE o.kind = "global" ->
                Result(Assigned(NewCell(what), o.name), what.ResultReg)
          [] o.kind = "alloca" -> ResultInto(what, what.Locals[o.id])
          [] OTHER -> Through(WriteOperand(what, o))

Store(w, x) == StoreTo(WriteOperand(w, x.args[1]), x.args[2], x.w)

Passed(s, w) == [w |-> w, regs |-> Append(s.regs, Byte(w.ResultReg))]

CallTo(callee, x) ==
    LET Argument(s, j) ==
            IF j \in x.byval
            THEN Passed(s, LoadFrom(WriteOperand(s.w, x.args[j + 1]), FullWidth))
            ELSE Passed(s, WriteOperand(s.w, x.args[j + 1]))
        Made(s) == Emit(s.w, CallI(Byte(NewReg(callee)), s.regs))
    IN  Result(Made(FoldLeftDomain(Argument, [w |-> Copied(callee), regs |-> <<>>],
                                   Tail(x.args))),
               NewReg(callee))

Call(w, x) == CallTo(WriteOperand(w, x.args[1]), x)

Visit(w, x) ==
    CASE x.op = "phi" -> Result(w, w.Locals[x.id])
      [] x.op = "binary" -> Binary(w, x)
      [] x.op = "icmp" -> BinaryOrCompare(w, x)
      [] x.op = "cast" -> Cast(w, x)
      [] x.op = "select" -> Select(w, x)
      [] x.op = "load" -> Load(w, x)
      [] x.op = "store" -> Store(w, x)
      [] x.op = "call" -> Call(w, x)
      [] x.op = "gep" -> WriteGEP(w, x.args[1], x.indices)

KeepResult(w, id) == IF id = NoId THEN w ELSE Into(w, w.Locals[id])

\* A void value has no mask to be cast to; an alloca is only its register.
PrintInst(w, x) ==
    IF x.op = "alloca" THEN w
    ELSE KeepResult(WriteCastTo(Visit(w, x), x.mask), x.id)

-----------------------------------------------------------------------------
(* The end of a block *)

\* The phi nodes of block s take their values for a branch from block b.
PhiCopies_FromTarget(w, b, s) ==
    LET Copy(v, phi) == KeepResult(WriteOperand(v, phi.from[s]), phi.id)
    IN  FoldLeft(Copy, w, F.blocks[s].phis)
PhiCopies(w, b, s) ==
    LET Copy(v, phi) ==
            IF phi.from[b].kind = "undef" THEN v
            ELSE KeepResult(WriteOperand(v, phi.from[b]), phi.id)
    IN  FoldLeft(Copy, w, F.blocks[s].phis)

BranchTo(w, b, s) == PostponeJmp(PhiCopies(w, b, s), s)

Branch(w, b, t) ==
    LET No(yes, h) == FixupLocal(BranchTo(Otherwise(yes, h), b, t.to[2]), yes.size)
        Either(cond) == No(BranchTo(localJZ(cond), b, t.to[1]), cond.size)
    IN  Either(WriteOperand(w, t.arg))

Switch(w, b, t) ==
    LET Equal(v, j) == BinaryOrCompare(v, [f |-> "eq", args |-> <<t.arg, t.cases[j]>>])
        Arm(cond, j) == FixupLocal(BranchTo(localJZ(cond), b, t.to[j]), cond.size)
        Case(v, j) == Arm(Equal(v, j), j)
    IN  BranchTo(FoldLeftDomain(Case, w, t.cases), b, Last(t.to))

Return(w) == Emit(w, RetI(Byte(w.ResultReg)))

\* visitUnreachable writes nothing: what comes next in the file follows the block.
PrintTerminator(w, b, t) ==
    CASE t.op = "br" -> BranchTo(w, b, t.to[1])
      [] t.op = "cond" -> Branch(w, b, t)
      [] t.op = "switch" -> Switch(w, b, t)
      [] t.op = "leave" -> Emit(w, OpI("leave"))
      [] t.op = "unreachable" -> w
      [] t.op = "ret" -> Return(WriteOperand(w, t.arg))

PrintBasicBlock(w, b) ==
    LET at == [w EXCEPT !.BlockPositions = With(w.BlockPositions, b, w.size)]
        insts == F.blocks[b].phis \o F.blocks[b].body
    IN  PrintTerminator(FoldLeft(PrintInst, at, insts), b, F.blocks[b].term)

\* What has a register in a function: its parameters, then its values.
Values(f) ==
    LET Seen(ids, x) == IF x.id = NoId THEN ids ELSE Append(ids, x.id)
        OfBlock(ids, block) == FoldLeft(Seen, ids, block.phis \o block.body)
    IN  FoldLeft(OfBlock, f.params, f.blocks)

-----------------------------------------------------------------------------
(* What LLVM guarantees of a module, and what the translator takes: the    *)
(* operands the model has, integers that fit in a register, calls of no    *)
(* more arguments than there are registers.                                *)

ValidLeaf(ids, o) ==
    \/ o.kind = "int" /\ {o.n, o.mask} \subseteq Word
    \/ o.kind = "undef" /\ o.mask \in Word
    \/ o.kind = "global" /\ {o.name, Mangle(o.name)} \subseteq Names
    \/ o.kind \in {"local", "alloca"} /\ o.id \in ids

ValidIndices(ids, indices) ==
    /\ indices \in Seq(ToSet(indices))
    /\ \A x \in ToSet(indices) : ValidLeaf(ids, x.index) /\ Scale(x.bits) \in Word

ValidOperand(ids, o) ==
    \/ ValidLeaf(ids, o)
    \/ o.kind = "gep" /\ ValidLeaf(ids, o.base) /\ ValidIndices(ids, o.indices)

ValidOperands(ids, os) ==
    os \in Seq(ToSet(os)) /\ \A o \in ToSet(os) : ValidOperand(ids, o)

Arity(op) ==
    CASE op \in {"binary", "icmp", "store"} -> {2}
      [] op \in {"cast", "load", "gep"} -> {1}
      [] op = "select" -> {3}
      [] op = "call" -> 1 .. LastReg + 1

ValidInst(ids, x) ==
    /\ x.mask \in Word
    /\ \/ x.op \in {"phi", "alloca"} /\ x.id \in ids
       \/ /\ x.op \in {"binary", "icmp", "store", "cast", "load", "gep", "select", "call"}
          /\ x.id \in ids \cup {NoId}
          /\ x.op # "cast" => x.f \in AluOps
          /\ ValidOperands(ids, x.args) /\ Len(x.args) \in Arity(x.op)
          /\ x.op = "gep" =>
                ValidLeaf(ids, x.args[1]) /\ ValidIndices(ids, x.indices)

\* A block that ends in unreachable does not end for the translator.
Falls(f, b) == f.blocks[b].term.op = "unreachable"

ValidTerm(ids, blocks, t) ==
    /\ t.to \in Seq(blocks)
    /\ \/ t.op \in {"leave", "unreachable"} /\ t.to = <<>>
       \/ t.op = "ret" /\ t.to = <<>> /\ ValidOperand(ids, t.arg)
       \/ t.op = "br" /\ Len(t.to) = 1
       \/ t.op = "cond" /\ Len(t.to) = 2 /\ ValidOperand(ids, t.arg)
       \/ /\ t.op = "switch" /\ Len(t.to) = Len(t.cases) + 1
          /\ ValidOperand(ids, t.arg) /\ ValidOperands(ids, t.cases)

ValidBlock(f, ids, b) ==
    LET block == f.blocks[b]
    IN  /\ block.phis \in Seq(ToSet(block.phis)) /\ block.body \in Seq(ToSet(block.body))
        /\ \A x \in ToSet(block.phis) \cup ToSet(block.body) : ValidInst(ids, x)
        /\ \A c \in {c \in DOMAIN f.blocks : b \in Successor(f, c)} :
            \A x \in ToSet(block.phis) : ValidOperand(ids, x.from[c])
        /\ ValidTerm(ids, DOMAIN f.blocks, block.term)

\* Loops are nested: those around a header are the outer ones of any block in
\* its loop.
LoopsNest(li) ==
    \A b \in DOMAIN li :
        /\ li[b] \in Seq(DOMAIN li)
        /\ \A n \in DOMAIN li[b] : li[li[b][n]] = SubSeq(li[b], 1, n)

\* No branch leads back to the entry, and every block can be reached from it:
\* createCFGSimplificationPass, which runs first, removes the others.
Simplified(f) ==
    /\ \A b \in DOMAIN f.blocks : 1 \notin Successor(f, b)
    /\ \A S \in SUBSET DOMAIN f.blocks :
        1 \in S /\ (\A b \in S : Successor(f, b) \subseteq S) => S = DOMAIN f.blocks

ValidFunction(f) ==
    /\ f.name \in Names
    /\ f.params \in Seq(ToSet(f.params))
    /\ f.blocks \in Seq(ToSet(f.blocks)) /\ f.blocks # <<>>
    /\ \A b \in DOMAIN f.blocks : ValidBlock(f, ToSet(Values(f)), b)
    /\ IsInjective(Values(f))       \* a value is defined once
    /\ LoopsNest(LoopInfo(f))
    /\ Simplified(f)

ValidGlobal(g) ==
    /\ Mangle(g.name) \in Names
    /\ g.init.kind \in {"null", "string", "array"} \/ ValidOperand({}, g.init)

ASSUME ModulesAssumption ==
    \A m \in DOMAIN Modules :
        LET functions == Modules[m].functions
            globals == Modules[m].globals
        IN  /\ functions \in Seq(ToSet(functions)) /\ globals \in Seq(ToSet(globals))
            /\ \A f \in ToSet(functions) : ValidFunction(f)
            /\ \A g \in ToSet(globals) : ValidGlobal(g)

ASSUME FormatAssumption ==
    /\ {"mov", "and", "iadd", "umul", "eq"} \subseteq AluOps
    /\ FullWidth \in Widths /\ "main" \in Names /\ 1 \in Reg

-----------------------------------------------------------------------------
(* The pass over a module *)

EmptyWriter ==
    [code |-> <<>>, size |-> 0, PostponedJumps |-> <<>>,
     BlockPositions |-> <<>>, Locals |-> <<>>, NextReg |-> 0, ResultReg |-> 0]

Init ==
    /\ module \in DOMAIN Modules
    /\ fn = 1
    /\ LI = <<>>
    /\ work = <<>>
    /\ writer = EmptyWriter
    /\ layout = <<>>
    /\ ended = FALSE

Declared(w, f) ==
    LET v == Emit(w, FdI(f.name, Len(f.params)))
        first == w.NextReg
        ids == Values(f)
    IN  [v EXCEPT !.NextReg = first + Len(ids),
                  !.Locals = [id \in ToSet(ids) |->
                      first + CHOOSE j \in DOMAIN ids : ids[j] = id]]

\* The blocks printLoop acts on when called for a loop: those that are in no
\* loop inside it, and the headers of the loops just inside it.
InLoop_AnyHeader(li, loops) ==
    {b \in DOMAIN li :
        IsPrefix(loops, li[b]) /\ (li[b] # loops => Last(li[b]) = b)}
InLoop(li, loops) ==
    {b \in DOMAIN li : li[b] \in {loops, Append(loops, b)}}

Activation(li, loops, begin) ==
    [loops |-> loops, begin |-> begin, todo |-> InLoop(li, loops)]

\* printFunction declares the function and numbers its registers.
StartFunction ==
    /\ work = <<>>
    /\ fn <= Len(M.functions)
    /\ LI' = LoopInfo(F)
    /\ writer' = Declared(writer, F)
    /\ work' = <<Activation(LI', <<>>, writer.size)>>
    /\ UNCHANGED <<module, fn, layout, ended>>

inner == Last(work)

\* A function prints its blocks in order; a loop prints its header first and
\* the others in the order in which LoopInfo happens to hold them.
Upcoming ==
    LET todo == inner.todo
    IN  IF inner.loops = <<>> THEN {CHOOSE b \in todo : \A c \in todo : b <= c}
        ELSE todo \cap {Last(inner.loops)}

CanPrint(b) ==
    /\ work # <<>>
    /\ b \in inner.todo
    /\ Upcoming # {} => b \in Upcoming

Done(b) == [work EXCEPT ![Len(work)].todo = @ \ {b}]

PrintBlock(b) ==
    /\ CanPrint(b)
    /\ LI[b] = inner.loops
    /\ writer' = PrintBasicBlock(writer, b)
    /\ work' = Done(b)
    /\ UNCHANGED <<module, fn, LI, layout, ended>>

EnterLoop(b) ==
    /\ CanPrint(b)
    /\ LI[b] # inner.loops
    /\ work' = Append(Done(b), Activation(LI, LI[b], writer.size))
    /\ UNCHANGED <<module, fn, LI, writer, layout, ended>>

\* printLoop closes the loop with a jump back to where it began.
EndLoop ==
    /\ Len(work) > 1
    /\ inner.todo = {}
    /\ writer' = Emit(writer, JumpI("jmp", 0, inner.begin - writer.size))
    /\ work' = Front(work)
    /\ UNCHANGED <<module, fn, LI, layout, ended>>

\* The declaration at position h skips what is written after its header.
FixupFD_WithField(w, h) ==
    [w EXCEPT !.code[h].nskip = w.size - (h + Length(w.code[h]) - 8)]
FixupFD(w, h) ==
    [w EXCEPT !.code[h].nskip = w.size - (h + Length(w.code[h]))]

\* A block that was never printed would be taken to be at 0.
FixupPostponed(w) ==
    LET Position(b) ==
            IF b \in DOMAIN w.BlockPositions THEN w.BlockPositions[b] ELSE 0
        Fix(v, p) == [v EXCEPT !.code[p.pos].off = Position(p.block) - p.pos]
    IN  FoldLeft(Fix, w, w.PostponedJumps)

Reset(w) == [EmptyWriter EXCEPT !.code = w.code, !.size = w.size]

FinishFunction ==
    /\ Len(work) = 1
    /\ inner.todo = {}
    /\ writer' = Reset(FixupPostponed(FixupFD(writer, inner.begin)))
    /\ layout' = Append(layout,
                    [begin |-> inner.begin, registers |-> writer.NextReg,
                     Locals |-> writer.Locals,
                     BlockPositions |-> writer.BlockPositions])
    /\ fn' = fn + 1
    /\ work' = <<>>
    /\ UNCHANGED <<module, LI, ended>>

\* A global that starts as zero is a null address.  An array that is not a
\* string is not written at all, only its register is used.
InitialValue(w, init) ==
    CASE init.kind = "null" -> Mov(w, 0)
      [] init.kind = "string" ->
            Result(Emit(Fresh(w), CssI(Byte(NewReg(w)))), NewReg(w))
      [] init.kind = "array" -> Result(Fresh(w), NewReg(w))
      [] OTHER -> NewCell(WriteOperand(w, init))

DeclareGlobal(w, g) == Assigned(InitialValue(w, g.init), Mangle(g.name))

\* doFinalization: the globals, then a call of main.
Finalize ==
    /\ work = <<>>
    /\ fn > Len(M.functions)
    /\ ~ended
    /\ writer' = Emit(Emit(FoldLeft(DeclareGlobal, writer, M.globals),
                            GgI("main", 1)),
                       CallI(1, <<>>))
    /\ ended' = TRUE
    /\ UNCHANGED <<module, fn, LI, work, layout>>

Next ==
    \/ StartFunction
    \/ \E b \in DOMAIN LI : PrintBlock(b) \/ EnterLoop(b)
    \/ EndLoop
    \/ FinishFunction
    \/ Finalize

Spec == Init /\ [][Next]_vars
=============================================================================

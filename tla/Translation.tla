---------------------------- MODULE Translation ----------------------------
(***************************************************************************)
(* What a translation has to be: the file is one the VM can run, and each  *)
(* block of the module and its bytecode do the same from the same values.  *)
(*                                                                         *)
(* Both sides are executed on symbols.  A value is a tuple headed by the   *)
(* operation that made it; the state of an execution is a record           *)
(*   env    the value of each identifier (IR) or register (bytecode)       *)
(*   trace  the calls and stores made, in order                            *)
(*   path   the conditions met, with the way taken                         *)
(*   to     where control arrived: at a place in the file, where a block   *)
(*          or the end of the function is, or the way the function was left *)
(* and a block has as many final states as paths through it.  What an      *)
(* operation computes is the business of Words: here it only has to be the *)
(* same operation, on the same values.                                     *)
(***************************************************************************)
EXTENDS Translator

Num(n) == <<"int", n>>
Apply(f, a, b) == IF f = "umul" /\ a = Num(0) THEN a ELSE <<f, a, b>>

\* A mask applied twice masks once.
Mask(v, m) ==
    CASE m = WordMax -> v
      [] v[1] = "and" /\ v[3] = Num(m) -> v
      [] v[1] = "int" -> Num(v[2] % (m + 1))
      [] OTHER -> Apply("and", v, Num(m))

Record(s, event) == [s EXCEPT !.trace = Append(@, event)]

\* What memory and callees answer depends on everything done before.
Answer(what, s) == <<"answer", what, Len(s.trace)>>

Splits(s, cond) ==
    {[s EXCEPT !.path = Append(@, <<cond, taken>>)] : taken \in BOOLEAN}
Taken(s) == Last(s.path)[2]

-----------------------------------------------------------------------------
(* The module *)

\* locals is where the registers of a function are: the address of an alloca
\* is that of its register.
LeafMeaning(env, locals, o) ==
    CASE o.kind = "int" -> Num(o.n % (o.mask + 1))
      [] o.kind = "undef" -> Num(0)
      [] o.kind = "global" -> <<"global", o.name>>
      [] o.kind = "local" -> env[o.id]
      [] o.kind = "alloca" -> <<"address", locals[o.id]>>

Meaning(env, locals, o) ==
    LET Step(x) ==
            IF x.bytes = 1 THEN LeafMeaning(env, locals, x.index)
            ELSE Apply("umul", LeafMeaning(env, locals, x.index), Num(x.bytes))
    IN  IF o.kind # "gep" THEN LeafMeaning(env, locals, o)
        ELSE FoldLeft(LAMBDA v, x : Apply("iadd", v, Step(x)),
                      LeafMeaning(env, locals, o.base), o.indices)

\* The states after instruction x in state s.
Effects(x, s, locals) ==
    LET V(j) == Meaning(s.env, locals, x.args[j])
        Gives(t, v) ==
            IF x.id = NoId THEN t ELSE [t EXCEPT !.env[x.id] = Mask(v, x.mask)]
    IN  CASE x.op \in {"phi", "alloca"} -> {s}
          [] x.op \in {"binary", "icmp"} -> {Gives(s, Apply(x.f, V(1), V(2)))}
          [] x.op = "cast" ->
                {Gives(s, IF x.f = "sext" THEN <<"sext", V(1)>> ELSE V(1))}
          [] x.op = "gep" ->
                {Gives(s, Meaning(s.env, locals,
                     [kind |-> "gep", base |-> x.args[1], indices |-> x.indices]))}
          [] x.op = "select" ->
                {Gives(t, IF Taken(t) THEN V(2) ELSE V(3)) : t \in Splits(s, V(1))}
          [] x.op = "load" ->
                {Gives(s, IF x.args[1].kind = "alloca" THEN s.env[x.args[1].id]
                          ELSE Answer(<<"load", x.w, V(1)>>, s))}
          [] x.op = "store" /\ x.args[2].kind = "alloca" ->
                {[s EXCEPT !.env[x.args[2].id] = V(1)]}
          [] x.op = "store" /\ x.args[2].kind = "global" ->
                {Record(s, <<"set", x.args[2].name, V(1)>>)}
          [] x.op = "store" /\ x.args[2].kind \notin {"alloca", "global"} ->
                {Record(s, <<"store", x.w, V(2), V(1)>>)}
          [] x.op = "call" ->
                LET ArgValue(j) == IF j \notin x.byval THEN V(j + 1)
                                 ELSE Answer(<<"load", FullWidth, V(j + 1)>>, s)
                    called == Record(s, <<"call", V(1),
                                  [j \in 1 .. Len(x.args) - 1 |-> ArgValue(j)]>>)
                IN  {Gives(called, Answer(<<"call">>, called))}

\* Control goes from block b to block n: its phi nodes change all at once.
\* An undefined value may be anything, the old one too.
Enter(f, locals, b, n, s) ==
    LET phis == f.blocks[n].phis
        Incoming(j) ==
            IF phis[j].from[b].kind = "undef" THEN s.env[phis[j].id]
            ELSE Meaning(s.env, locals, phis[j].from[b])
        new == [id \in {phis[j].id : j \in DOMAIN phis} |->
                    Incoming(CHOOSE j \in DOMAIN phis : phis[j].id = id)]
    IN  [s EXCEPT !.env = new @@ @, !.to = <<"block", n>>]

\* The cases of a switch are tried in order; the last way is the default.
Cases(f, locals, b, s) ==
    LET t == f.blocks[b].term
        Tried(j) == Apply("eq", Meaning(s.env, locals, t.arg),
                          Meaning(s.env, locals, t.cases[j]))
        Conditions(way) ==
            [j \in DOMAIN t.cases \cap (1 .. way) |-> <<Tried(j), j = way>>]
    IN  {Enter(f, locals, b, t.to[way],
               [s EXCEPT !.path = @ \o Conditions(way)]) : way \in DOMAIN t.to}

Outcomes(f, locals, b, s) ==
    LET t == f.blocks[b].term
        v == Meaning(s.env, locals, t.arg)
    IN  CASE t.op = "br" -> {Enter(f, locals, b, t.to[1], s)}
          [] t.op = "cond" ->
                {Enter(f, locals, b, t.to[IF Taken(u) THEN 1 ELSE 2], u) :
                    u \in Splits(s, v)}
          [] t.op = "switch" -> Cases(f, locals, b, s)
          [] t.op = "ret" -> {[s EXCEPT !.to = <<"ret", v>>]}
          [] t.op = "leave" -> {[s EXCEPT !.to = <<"leave">>]}
          [] t.op = "unreachable" -> {[s EXCEPT !.to = <<"undefined">>]}

BlockMeaning(f, locals, b, env) ==
    LET start == [env |-> env, trace |-> <<>>, path |-> <<>>, to |-> <<>>]
        insts == f.blocks[b].phis \o f.blocks[b].body
        after == FoldLeft(LAMBDA S, x : UNION {Effects(x, s, locals) : s \in S},
                          {start}, insts)
    IN  UNION {Outcomes(f, locals, b, s) : s \in after}

-----------------------------------------------------------------------------
(* The bytecode *)

\* The states after the instruction at s.pc, as src/vm/RBVM.cpp executes it.
Steps(p, s) ==
    LET x == p.code[s.pc]
        REG(r) == s.env[r]
        next == [s EXCEPT !.pc = After(p, s.pc)]
        Sets(t, r, v) == [t EXCEPT !.env[r] = v]
        Jumps(t) == [t EXCEPT !.pc = s.pc + x.off]
        second == IF x.k THEN Num(x.c) ELSE REG(x.r2)
    IN  CASE x.op = "alu" /\ x.f = "mov" -> {Sets(next, x.r1, second)}
          [] x.op = "alu" /\ x.f = "and" ->
                {Sets(next, x.r1, Mask(REG(x.r1), x.c))}
          [] x.op = "alu" /\ x.f \notin {"mov", "and"} ->
                {Sets(next, x.r1, Apply(x.f, REG(x.r1), second))}
          [] x.op = "gg" -> {Sets(next, x.r1, <<"global", x.name>>)}
          [] x.op = "lea" -> {Sets(next, x.r1, <<"address", x.r2>>)}
          [] x.op = "ld" ->
                {Sets(next, x.r1, Answer(<<"load", x.w, REG(x.r2)>>, s))}
          [] x.op = "css_dyn" -> {Sets(next, x.r1, <<"cell", REG(x.r2)>>)}
          [] x.op = "sg" -> {Record(next, <<"set", x.name, REG(x.r1)[2]>>)}
          [] x.op = "st" ->
                {Record(next, <<"store", x.w, REG(x.r1), REG(x.r2)>>)}
          [] x.op = "call" ->
                LET called == Record(next, <<"call", REG(x.r1),
                                  [j \in DOMAIN x.args |-> REG(x.args[j])]>>)
                IN  {Sets(called, x.r1, Answer(<<"call">>, called))}
          [] x.op = "jmp" -> {Jumps(s)}
          [] x.op = "jz" -> {IF Taken(t) THEN t ELSE Jumps(t) :
                                t \in Splits(next, REG(x.r1))}
          [] x.op = "ret" ->
                {[s EXCEPT !.to = <<"ret", IF x.k THEN Num(x.c) ELSE REG(x.r1)>>]}
          [] x.op = "leave" -> {[s EXCEPT !.to = <<"leave">>]}

\* The states in which the bytecode of the block that begins there arrives at
\* one of the places or returns.
BytecodeMeaning(p, places, begin, env) ==
    LET Arrived(s) ==
            IF s.to = <<>> /\ s.pc \in places
            THEN [s EXCEPT !.to = <<"at", s.pc>>] ELSE s
        start == [pc |-> begin, env |-> env, trace |-> <<>>, path |-> <<>>, to |-> <<>>]
        run[n \in 0 .. Cardinality(Sites(p))] ==
            IF n = 0 THEN {start}
            ELSE LET before == run[n - 1]
                     going == {s \in before : s.to = <<>>}
                 IN  IF going = {} THEN before
                     ELSE (before \ going)
                          \cup {Arrived(s) : s \in UNION {Steps(p, s) : s \in going}}
    IN  run[Cardinality(Sites(p))]

-----------------------------------------------------------------------------
(* Properties *)

Text == [code |-> writer.code, size |-> writer.size]

\* The type invariant: what is written is well formed instruction by
\* instruction, and what is still to be fixed is a jump.
TypeOK ==
    /\ module \in DOMAIN Modules
    /\ writer.code \in [DOMAIN writer.code -> Instructions]
    /\ DOMAIN writer.code \subseteq 0 .. writer.size - 1
    /\ writer.ResultReg \in 0 .. writer.NextReg
    /\ \A id \in DOMAIN writer.Locals : writer.Locals[id] \in 1 .. writer.NextReg
    /\ \A j \in DOMAIN writer.PostponedJumps :
        LET p == writer.PostponedJumps[j]
        IN  /\ p.block \in DOMAIN F.blocks
            /\ p.pos \in DOMAIN writer.code /\ writer.code[p.pos].op = "jmp"
    /\ \A n \in DOMAIN work : work[n].begin \in 0 .. writer.size
    /\ Len(layout) = fn - 1

\* With its blocks at these positions, control can fall out of the body of
\* function f: the last of them ends in unreachable.
LastFalls(f, positions) ==
    ~\E b \in DOMAIN positions :
        ~Falls(f, b) /\ \A c \in DOMAIN positions : positions[c] <= positions[b]
FallsOut(n) == LastFalls(M.functions[n], layout[n].BlockPositions)

\* What the VM and the disassembler take for granted about a file, and what
\* the proofs about them assume, is what the translator writes: all offsets
\* put in afterwards (fixupFD, fixupLocalJZ, fixupPostponed) are right.  Where
\* a function ends in a block that ends in unreachable, nothing keeps control
\* in its body, and only the instructions follow each other as they should.
OutputWellFormed ==
    ended => /\ Contiguous(Text)
             /\ (\A n \in DOMAIN layout : ~FallsOut(n)) => WellFormed(WithLive(Text))

\* Each block is in the file once, however loops are nested: printFunction
\* and printLoop divide the blocks between them.  Another copy of a block
\* would be dead, and only jumps after the end of a block or a loop are.
OnlyJumpsAreDead ==
    ended => \A j \in Sites(Text) \ Live(WithLive(Text)) : Text.code[j].op = "jmp"

\* What the translator does not get right, or not in all cases: names that are
\* mangled, more values than registers, integers that do not fit their type
\* unsigned, steps over arrays and structures, phi nodes that read an earlier
\* phi node of their block, accesses of pointers and truth values, sign extension.
Operands(f) ==
    UNION {UNION {ToSet(b.body[j].args) : j \in DOMAIN b.body}
           \cup UNION {{p.from[c] : c \in DOMAIN p.from} : p \in ToSet(b.phis)}
           \cup {b.term.arg} \cup ToSet(b.term.cases) : b \in ToSet(f.blocks)}

\* The operands of getelementptr, instruction or constant, are leaves too.
LeafOperands(f) ==
    LET Geps == {o \in Operands(f) : o.kind = "gep"}
        Indices ==
            UNION {ToSet(o.indices) : o \in Geps}
            \cup UNION {UNION {ToSet(b.body[j].indices) : j \in DOMAIN b.body} :
                            b \in ToSet(f.blocks)}
    IN  (Operands(f) \ Geps) \cup {o.base : o \in Geps} \cup {x.index : x \in Indices}

PlainOperands(f) ==
    \A o \in LeafOperands(f) :
        /\ o.kind = "global" => Mangle(o.name) = o.name
        /\ o.kind = "int" => o.n <= o.mask

PlainIndices(f) ==
    LET Plain(x) == \/ x.bytes = Scale(x.bits)
                    \/ x.index.kind = "int" /\ x.index.n = 0
    IN  /\ \A o \in Operands(f) :
            o.kind = "gep" => \A x \in ToSet(o.indices) : Plain(x)
        /\ \A b \in ToSet(f.blocks) : \A j \in DOMAIN b.body :
            \A x \in ToSet(b.body[j].indices) : Plain(x)

SafePhis(f) ==
    \A b \in DOMAIN f.blocks : \A j \in DOMAIN f.blocks[b].phis :
        LET phis == f.blocks[b].phis
        IN  \A c \in DOMAIN phis[j].from : \A k \in 1 .. j - 1 :
                LET o == phis[j].from[c]
                    Read == IF o.kind # "gep" THEN {o}
                            ELSE {o.base} \cup {x.index : x \in ToSet(o.indices)}
                IN  \A u \in Read : u.kind = "local" => u.id # phis[k].id

Instrs(f) == UNION {ToSet(b.body) : b \in ToSet(f.blocks)}

\* Loads and stores for which the backend writes an instruction, if they need one.
SizedAccesses(f) ==
    \A x \in Instrs(f) :
        \/ x.w \in Widths
        \/ x.op \notin {"load", "store"}
        \/ x.op = "load" /\ x.args[1].kind = "alloca"
        \/ x.op = "store" /\ x.args[2].kind \in {"alloca", "global"}

\* The translator masks the operand of any cast.
NoSignExtension(f) == \A x \in Instrs(f) : x.op = "cast" => x.f # "sext"

RegistersSuffice(n) == layout[n].registers <= LastReg

\* A call of function n enters at its first block, and finds each value in a
\* register of its own, the arguments where init_call puts them.
CallsEnter(n) ==
    LET f == M.functions[n]
        at == layout[n]
        fd == Text.code[at.begin]
    IN  /\ fd.op = "fd" /\ fd.name = f.name /\ fd.nargs = Len(f.params)
        /\ at.BlockPositions[1] = After(Text, at.begin)
        /\ IsInjective(at.Locals)
        /\ \A id \in DOMAIN at.Locals : at.Locals[id] \in 1 .. at.registers
        /\ \A k \in DOMAIN f.params : at.Locals[f.params[k]] = k

\* A phi node is kept by the branches into its block, and no wider than its type.
Held(f, b, id) ==
    LET phis == {x \in ToSet(f.blocks[b].phis) : x.id = id}
    IN  IF phis = {} THEN <<"value", id>>
        ELSE Mask(<<"value", id>>, (CHOOSE x \in phis : TRUE).mask)

\* From any values of its identifiers a block and its bytecode leave the same
\* values, for the same branches taken, after the same calls and stores, and
\* go on to the same block; after unreachable, that is anywhere.  A block of
\* nothing but unreachable has no bytecode.
BlocksKeepMeaning ==
    ended => \A n \in DOMAIN layout :
        LET f == M.functions[n]
            locals == layout[n].Locals
            starts == layout[n].BlockPositions
            ids == DOMAIN locals
            env(b) == [id \in ids |-> Held(f, b, id)]
            regs(b) == [r \in Reg |->
                           IF \E id \in ids : locals[id] = r
                           THEN Held(f, b, CHOOSE id \in ids : locals[id] = r)
                           ELSE <<"junk", r>>]
            End == Past(Text, layout[n].begin)
            Empty(b) == starts[b] \in {End} \cup {starts[c] : c \in DOMAIN starts \ {b}}
            Place(to) == IF to[1] = "block" THEN <<"at", starts[to[2]]>> ELSE to
            Seen(b, s, values) ==
                [env |-> values, trace |-> s.trace, path |-> s.path,
                 to |-> IF Falls(f, b) THEN <<"anywhere">> ELSE Place(s.to)]
            Meant(b) ==
                {Seen(b, s, s.env) : s \in BlockMeaning(f, locals, b, env(b))}
            Written(b) ==
                {Seen(b, s, [id \in ids |-> s.env[locals[id]]]) :
                    s \in BytecodeMeaning(Text, {End} \cup Range(starts), starts[b], regs(b))}
        IN  /\ CallsEnter(n)
            /\ RegistersSuffice(n) /\ PlainOperands(f) /\ PlainIndices(f)
               /\ SafePhis(f) /\ SizedAccesses(f) /\ NoSignExtension(f) =>
                \A b \in DOMAIN f.blocks :
                    (Falls(f, b) /\ Empty(b)) \/ Meant(b) = Written(b)
=============================================================================

---------------------------- MODULE MCTranslator ----------------------------
(***************************************************************************)
(* Small LLVM modules: every flow of control between three blocks, with    *)
(* one of a few bodies and phi nodes in the second and the third block,    *)
(* and nests of loops.                                                     *)
(***************************************************************************)
EXTENDS Translation

MCWordMax == 15
Byte4 == 3                  \* the mask of a narrow integer
MCWidths == {"w8", "w64"}
MCAluOps == {"mov", "iadd", "isub", "umul", "and", "eq", "slt"}
MCNames == {"f", "main", "puts", "x", "y", "s.1", "s_1", "z"}
MCMangle(name) == IF name = "s.1" THEN "s_1" ELSE name

-----------------------------------------------------------------------------
(* Operands and instructions; identifiers are numbers, 0 is none *)

Local(id) == [kind |-> "local", id |-> id]
Alloca(id) == [kind |-> "alloca", id |-> id]
Global(x) == [kind |-> "global", name |-> x]
IntC(n, mask) == [kind |-> "int", n |-> n, mask |-> mask]
Undef == [kind |-> "undef", mask |-> WordMax]
\* An index that steps over a primitive of so many bits, or over an array.
Idx(o, bits) == [index |-> o, bits |-> bits, bytes |-> bits \div 8]
OverArray(o) == [index |-> o, bits |-> 0, bytes |-> 4]
Element(x, n) ==
    [kind |-> "gep", base |-> Global(x),
     indices |-> <<OverArray(IntC(0, WordMax)), Idx(IntC(n, WordMax), 64)>>]

Inst(op, id, args) ==
    [op |-> op, id |-> id, args |-> args, f |-> "mov", mask |-> WordMax,
     w |-> "w64", byval |-> {}, indices |-> <<>>]
Alu2(f, id, a, b, mask) ==
    [Inst("binary", id, <<a, b>>) EXCEPT !.f = f, !.mask = mask]
Compare(f, id, a, b) ==
    [Inst("icmp", id, <<a, b>>) EXCEPT !.f = f, !.mask = 1]
GepI(id, base, indices) ==
    [Inst("gep", id, <<base>>) EXCEPT !.indices = indices]
CastI(id, a, mask) == [Inst("cast", id, <<a>>) EXCEPT !.mask = mask]
SextI(id, a) == [Inst("cast", id, <<a>>) EXCEPT !.f = "sext"]
\* A load or a store of a pointer (no bits) or a truth value (one bit).
Wide(x, w) == [x EXCEPT !.w = w]
CallByVal(id, args, byval) == [Inst("call", id, args) EXCEPT !.byval = byval]
Phi(id, from) == [op |-> "phi", id |-> id, mask |-> WordMax, from |-> from]

Term(op, arg, cases, to) == [op |-> op, arg |-> arg, cases |-> cases, to |-> to]
Go(b) == Term("br", Undef, <<>>, <<b>>)
Fork(o, b, c) == Term("cond", o, <<>>, <<b, c>>)
Pick(o, ns, to) == Term("switch", o, [j \in DOMAIN ns |-> IntC(ns[j], WordMax)], to)
Give(o) == Term("ret", o, <<>>, <<>>)
Void == Term("leave", Undef, <<>>, <<>>)
Never == Term("unreachable", Undef, <<>>, <<>>)

Block(phis, body, term) == [phis |-> phis, body |-> body, term |-> term]

-----------------------------------------------------------------------------
(* Functions of two parameters, 1 and 2.  The first block makes an alloca  *)
(* 10, a sum 11 and a condition 12; block b makes 10b + 1, 10b + 2, ...    *)

First ==
    <<Inst("alloca", 10, <<>>),
      Alu2("iadd", 11, Local(1), IntC(1, WordMax), WordMax),
      Compare("slt", 12, Local(11), Local(2)),
      Inst("store", 0, <<Local(1), Alloca(10)>>)>>

Bodies(b) ==
    LET v == 10 * b
    IN  << <<GepI(v + 1, Local(1), <<OverArray(Local(2))>>)>>,
           <<Alu2("isub", v + 1, Local(2), Local(11), Byte4),
             Alu2("iadd", v + 2, Local(v + 1), IntC(2, Byte4), Byte4)>>,
           <<Inst("select", v + 1, <<Local(12), Local(1), IntC(3, WordMax)>>),
             CastI(v + 2, Local(v + 1), 1)>>,
           <<Inst("load", v + 1, <<Alloca(10)>>),
             Inst("store", 0, <<Local(v + 1), Global("x")>>),
             Inst("load", v + 2, <<Global("x")>>),
             Inst("store", 0, <<Local(v + 2), Alloca(10)>>)>>,
           <<Inst("call", v + 1, <<Global("puts"), Alloca(10), Local(11)>>),
             CallByVal(0, <<Local(v + 1), Element("y", 1), Undef>>, {1})>>,
           <<GepI(v + 1, Local(1), <<Idx(Local(11), 64), Idx(Local(2), 8)>>),
             Inst("store", 0, <<Alloca(10), Local(v + 1)>>),
             Inst("load", v + 2, <<Element("y", 2)>>)>>,
           <<Inst("load", v + 1, <<Global("s.1")>>),
             Inst("store", 0, <<Local(v + 1), Global("s.1")>>)>>,
           <<Alu2("iadd", v + 1, Local(1), IntC(15, Byte4), Byte4)>> >>

\* The phi nodes of block b: a value from the first block, from block b
\* itself and from the other one.
Phis(b) ==
    LET v == 10 * b + 5
        P(id, first, own, other) ==
            Phi(id, [c \in 1 .. 3 |-> IF c = 1 THEN first
                                     ELSE IF c = b THEN own ELSE other])
    IN  << <<>>,
           <<[P(v, IntC(1, Byte4), Local(v), IntC(2, Byte4)) EXCEPT !.mask = Byte4]>>,
           <<P(v, Local(11), Local(v), IntC(2, WordMax))>>,
           <<P(v, Local(1), Local(v + 1), Local(11)),
             P(v + 1, Alloca(10), Undef, Element("y", 1))>>,
           <<P(v, Local(1), Local(v + 1), Undef),
             P(v + 1, Local(2), Local(v), Local(2))>> >>

Terms ==
    FlattenSeq([j \in 1 .. 2 |->
        LET b == j + 1
        IN  <<Go(b), Fork(Local(12), b, 5 - b),
              Pick(Local(11), <<0, 3>>, <<b, 5 - b, b>>)>>])
Ends == Terms \o <<Give(Local(11))>>

ThreeBlocks(t, u, x, bodies, phis) ==
    <<Block(<<>>, First, t), Block(phis[1], bodies[1], u), Block(phis[2], bodies[2], x)>>

\* Both blocks can be reached.
Reachable(t, u, x) ==
    /\ 2 \in ToSet(t.to) \cup ToSet(x.to)
    /\ 3 \in ToSet(t.to) \cup ToSet(u.to)

\* Three loops inside each other, two with their blocks out of order, and an
\* irreducible cycle beside a loop.
Nests ==
    LET Entry(t) == Block(<<>>, First, t)
        Plain(b, t) == Block(<<>>, Bodies(b)[2], t)
    IN  << <<Entry(Go(2)), Plain(2, Fork(Local(12), 3, 5)), Plain(3, Go(4)),
             Plain(4, Pick(Local(11), <<0, 3>>, <<4, 3, 2>>)), Plain(5, Void)>>,
           <<Entry(Go(2)), Plain(2, Go(4)), Plain(3, Fork(Local(12), 2, 5)),
             Plain(4, Fork(Local(12), 4, 3)), Plain(5, Give(Local(11)))>>,
           <<Entry(Fork(Local(12), 2, 3)), Plain(2, Fork(Local(12), 3, 4)),
             Plain(3, Go(2)), Plain(4, Fork(Local(12), 4, 5)), Plain(5, Void)>> >>

Main ==
    [name |-> "main", params |-> <<>>,
     blocks |-> <<Block(<<>>, <<Inst("call", 1, <<Global("f"), IntC(1, WordMax),
                                                 Global("z")>>)>>, Void)>>]

Globals ==
    <<[name |-> "x", init |-> [kind |-> "null"]],
      [name |-> "y", init |-> [kind |-> "array"]],
      [name |-> "s.1", init |-> [kind |-> "string"]],
      [name |-> "z", init |-> IntC(5, WordMax)]>>

TwoFunctions(blocks) ==
    [functions |-> <<[name |-> "f", params |-> <<1, 2>>, blocks |-> blocks], Main>>,
     globals |-> Globals]

\* Blocks that end in unreachable: after a call, with the block behind them or
\* at the end; without any code; the only block; accesses of pointers and truth
\* values, and a sign extension.
Others ==
    LET Entry(t) == Block(<<>>, First, t)
        Exit(t) == Block(<<>>, <<Inst("call", 0, <<Global("puts"), Local(11)>>)>>, t)
        Nothing == Block(<<>>, <<>>, Never)
        With1(body) == <<Block(<<>>, First \o body, Give(Local(1)))>>
        p == Wide(Inst("load", 13, <<Local(2)>>), "w0")
    IN  << <<Entry(Fork(Local(12), 2, 3)), Exit(Never), Exit(Void)>>,
           <<Entry(Fork(Local(12), 2, 3)), Exit(Void), Exit(Never)>>,
           <<Entry(Pick(Local(11), <<0, 3>>, <<2, 4, 3>>)), Exit(Go(4)), Nothing,
             Exit(Give(Local(11)))>>,
           <<Entry(Pick(Local(11), <<0, 3>>, <<2, 4, 3>>)), Nothing, Nothing, Nothing>>,
           <<Entry(Go(2)), Block(<<>>, Bodies(2)[2], Pick(Local(11), <<0, 3>>, <<2, 3, 4>>)),
             Exit(Never), Nothing>>,
           <<Entry(Never)>>,
           <<Nothing>>,
           With1(<<p>>),
           With1(<<Inst("load", 13, <<Local(2)>>),
                   Wide(Inst("store", 0, <<Local(13), Local(1)>>), "w1")>>),
           With1(<<Wide(Inst("store", 0, <<Local(1), Element("y", 2)>>), "w0")>>),
           With1(<<SextI(13, Local(1))>>) >>

Indices ==
    {<<t, u, x, j>> \in (DOMAIN Terms) \X (DOMAIN Ends) \X (DOMAIN Ends) \X (1 .. 8) :
        Reachable(Terms[t], Ends[u], Ends[x])}

ModuleTable ==
    [i \in Indices |->
        TwoFunctions(ThreeBlocks(Terms[i[1]], Ends[i[2]], Ends[i[3]],
            <<Bodies(2)[i[4]], Bodies(3)[1 + (i[4] % 8)]>>,
            <<Phis(2)[1 + (i[4] % 5)], Phis(3)[1 + ((i[4] + i[2]) % 5)]>>))]
    @@ [n \in {<<k>> : k \in DOMAIN (Nests \o Others)} |->
            TwoFunctions((Nests \o Others)[n[1]])]

\* Only a name for the table: see MCPrograms.
MCModules == ModuleTable
=============================================================================

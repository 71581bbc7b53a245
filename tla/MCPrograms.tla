----------------------------- MODULE MCPrograms -----------------------------
(***************************************************************************)
(* Bytecode files for TLC, assembled from sequences of instructions in     *)
(* which a jump counts instructions, not bytes.                            *)
(***************************************************************************)
EXTENDS Assembly

MCLastReg == 2
MCWordMax == 3
MCWidths == {"w8", "w64"}
MCNames == {"f", "g", "x", "puts", "printf", "scanf", "exit", "malloc", "free"}
MCAluOps == {"mov", "iadd", "isub", "udiv", "slt", "lshr"}

-----------------------------------------------------------------------------
(* An assembler *)

\* The function f itself, which TLC then evaluates once and not at every use.
Tabulated(f) == f @@ <<>>

\* The declaration of a function and its body; nskip counts instructions.
Define(x, n, body) ==
    <<[Blank EXCEPT !.op = "fd", !.name = x, !.nargs = n,
                    !.nskip = Len(body)]>> \o body

\* Offsets of the instructions of s, and the size of the program last.
Offsets(s) ==
    LET at[j \in 1 .. Len(s) + 1] ==
            IF j = 1 THEN 0 ELSE at[j - 1] + Length(s[j - 1])
    IN  Tabulated(at)

Assemble(s) ==
    LET at == Offsets(s)
        Patched(j) ==
            [s[j] EXCEPT
                !.nskip = IF s[j].op = "fd"
                          THEN at[j + 1 + s[j].nskip] - at[j + 1] ELSE 0,
                !.off = IF s[j].op \in {"jmp", "jz", "jnz"}
                        THEN at[j + s[j].off] - at[j] ELSE 0]
        index == [o \in {at[j] : j \in 1 .. Len(s)} |->
                    CHOOSE j \in 1 .. Len(s) : at[j] = o]
    IN  WithLive([code |-> Tabulated([o \in DOMAIN index |-> Patched(index[o])]),
                  size |-> at[Len(s) + 1]])

\* Every sequence of s followed by every sequence of t.
Joined(s, t) ==
    [k \in 1 .. Len(s) * Len(t) |->
        s[1 + (k - 1) \div Len(t)] \o t[1 + ((k - 1) % Len(t))]] \o <<>>

\* Any two and any three of the sequences of s, one after the other.
Pairs(s) == Joined(s, s)
Triples(s) == Joined(Pairs(s), s)

\* The files of the sequences of instructions in s.
Assembled(s) == [k \in DOMAIN s |-> Assemble(s[k])] \o <<>>

-----------------------------------------------------------------------------
(* Programs that call: the top level calls f, f calls g or itself, g uses  *)
(* its argument as a value or as a pointer, one computed from a pointer    *)
(* included.                                                               *)

Pieces ==
    << <<>>,
       <<AluR("iadd", 1, 2)>>,
       <<AluC("iadd", 1, 1)>>,
       <<LeaI(2, 1)>>,
       <<LeaI(1, 2)>>,
       <<StI("w64", 1, 2)>>,
       <<LdI("w64", 2, 1)>>,
       <<SgI("x", 1)>>,
       <<GgI("x", 1)>>,
       <<JumpI("jz", 1, 2), OpI("leave")>>,
       <<GgI("g", 0), CallI(0, <<1>>)>>,
       <<GgI("g", 2), CallI(2, <<2>>)>>,
       <<GgI("f", 2), CallI(2, <<1>>)>>,
       <<GgI("f", 2), CallI(2, <<1, 1>>)>> >>

\* A body may end in a jump that is never taken, to the end of the body.
Endings == << <<RetI(1)>>, <<OpI("leave"), JumpI("jmp", 0, 1)>> >>

Callees ==
    << <<RetC(3)>>,
       <<MovC(2, 2), StI("w64", 1, 2), OpI("leave")>>,
       <<LdI("w8", 2, 1), RetI(2)>>,
       <<LeaI(1, 2), RetI(1)>> >>

Tops ==
    << <<MovC(1, 1)>>,
       <<GgI("g", 0), CallI(0, <<1>>), LeaI(1, 2)>>,
       <<MovC(2, 3), GgI("g", 1)>> >>

\* g is declared first, then f, whose body is two pieces and an ending.
CallingSequences ==
    LET Declare(x, bodies) ==
            [j \in DOMAIN bodies |-> Define(x, 1, bodies[j])]
        gs == Declare("g", Callees)
        fs == Declare("f", Joined(Pairs(Pieces), Endings))
        call == <<GgI("f", 0), CallI(0, <<1>>)>>
        tops == [t \in DOMAIN Tops |-> Tops[t] \o call]
    IN  Joined(Joined(gs, fs), tops)

-----------------------------------------------------------------------------
(* Programs that use memory and the native functions, at top level *)

NativeI(x, args) == <<GgI(x, 0), CallI(0, args)>>

Uses ==
    << <<CssI(1)>>,
       <<DynI(2, 1)>>,
       <<GgI("malloc", 1), CallI(1, <<0>>)>>,
       NativeI("free", <<1>>),
       NativeI("scanf", <<1, 2>>),
       NativeI("printf", <<1, 2>>),
       NativeI("puts", <<1>>),
       NativeI("puts", <<1, 2>>),
       NativeI("exit", <<1>>),
       <<CallI(0, <<1>>)>>,
       <<LeaI(2, 1)>>,
       <<AluC("iadd", 1, 1)>>,
       <<LdI("w8", 2, 1)>>,
       <<StI("w8", 1, 2)>>,
       <<StI("w64", 2, 1)>>,
       <<MovC(2, 1), InegI(2)>>,
       <<AluC("udiv", 2, 2), AluR("udiv", 1, 2)>>,
       <<AluC("lshr", 2, 1), AluR("slt", 1, 2)>>,
       <<JumpI("jnz", 2, 2), OpI("wrong")>>,
       <<JumpI("jmp", 0, 2), OpI("wrong")>> >>

MemorySequences == Triples(Uses)

\* The programs in which an address of a register reaches a callee.
PointingTable ==
    LET gs == [g \in DOMAIN Callees |-> Define("g", 1, Callees[g])]
        fs == [a \in DOMAIN Pieces |->
                  Define("f", 1, Pieces[a] \o <<RetI(1)>>)]
        top == <<LeaI(1, 2), GgI("f", 0), CallI(0, <<1>>)>>
    IN  Assembled(Joined(Joined(gs, fs), <<top>>))

\* TLC evaluates a definition once, but one that a cfg gives to a constant
\* at every use: these only name the tables.
MCTable == Assembled(CallingSequences \o MemorySequences)
MCProgramFiles == MCTable
PointingPrograms == PointingTable
=============================================================================

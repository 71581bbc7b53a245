------------------------------ MODULE Assembly ------------------------------
(***************************************************************************)
(* Instructions of Bytecode by their mnemonics: what the producers of      *)
(* src/llvm-backend/RbvmBackend.h append to a file, decoded.               *)
(***************************************************************************)
EXTENDS Bytecode, SequencesExt, TLC

Blank ==
    [op |-> "leave", f |-> "mov", r1 |-> 0, r2 |-> 0, k |-> FALSE, c |-> 0,
     w |-> CHOOSE w \in Widths : TRUE, name |-> CHOOSE x \in Names : TRUE,
     nargs |-> 0, nskip |-> 0, off |-> 0, args |-> <<>>]

OpI(o) == [Blank EXCEPT !.op = o]
FdI(x, n) == [Blank EXCEPT !.op = "fd", !.name = x, !.nargs = n]
MovC(r, n) == [Blank EXCEPT !.op = "alu", !.r1 = r, !.k = TRUE, !.c = n]
AluR(o, r, q) == [Blank EXCEPT !.op = "alu", !.f = o, !.r1 = r, !.r2 = q]
AluC(o, r, n) ==
    [Blank EXCEPT !.op = "alu", !.f = o, !.r1 = r, !.k = TRUE, !.c = n]
InegI(r) == [Blank EXCEPT !.op = "ineg", !.r1 = r]
GgI(x, r) == [Blank EXCEPT !.op = "gg", !.name = x, !.r1 = r]
SgI(x, r) == [Blank EXCEPT !.op = "sg", !.name = x, !.r1 = r]
CssI(r) == [Blank EXCEPT !.op = "css", !.r1 = r, !.c = 1]
DynI(r, q) == [Blank EXCEPT !.op = "css_dyn", !.r1 = r, !.r2 = q]
LeaI(r, q) == [Blank EXCEPT !.op = "lea", !.r1 = r, !.r2 = q]
LdI(w, r, q) == [Blank EXCEPT !.op = "ld", !.w = w, !.r1 = r, !.r2 = q]
StI(w, r, q) == [Blank EXCEPT !.op = "st", !.w = w, !.r1 = r, !.r2 = q]
JumpI(o, r, n) == [Blank EXCEPT !.op = o, !.r1 = r, !.off = n]
CallI(r, args) == [Blank EXCEPT !.op = "call", !.r1 = r, !.args = args]
RetI(r) == [Blank EXCEPT !.op = "ret", !.r1 = r]
RetC(n) == [Blank EXCEPT !.op = "ret", !.k = TRUE, !.c = n]

\* A file with the sites control comes to, in as many steps as it has sites.
WithLive(p) ==
    LET Onward(j) ==
            Targets(p, j) \cup (IF p.code[j].op = "fd" THEN {After(p, j)} ELSE {})
        reached[n \in 0 .. Cardinality(Sites(p))] ==
            IF n = 0 THEN {0}
            ELSE LET before == reached[n - 1]
                 IN  before \cup ((UNION {Onward(j) : j \in before}) \cap Sites(p))
    IN  [code |-> p.code, size |-> p.size, live |-> reached[Cardinality(Sites(p))]]
=============================================================================

# A verification of RBVM and its web IDE

The repository holds a register virtual machine (RBVM), an LLVM backend that translates LLVM IR to its
bytecode, a disassembler, and a web IDE that compiles programs and keeps "smart contracts" running as
sessions a browser talks to. This directory models the parts that carry its logic in TLA+, checks them
with TLC on small instances, and proves the main results for every instance with TLAPS.

Contents: 1 inventory - 2 modules and code - 3 runs - 4 fairness - 5 proofs - 6 findings -
7 what is not modelled - 8 plan - 9 how to run.


## 1. Inventory

| component | source | state | operations | what makes it correct |
|---|---|---|---|---|
| RBVM interpreter | `vm/RBVM.cpp`, `vm/opcode.h` | offset `i`, `reg_stack` (256 registers a frame), `call_stack` (return offset, result register), `names`, memory | one case of `main` per opcode; `init_call`; native functions | calls nest; `ret` and `leave` find a return address; a frame is changed only by its own function, by a return to it or through an address its callee writes to; the offset is always an instruction boundary |
| Disassembler | `vm/disassembler.cpp` | offset `i` | one case per opcode | its decoder agrees with the VM's on where every instruction ends |
| Bytecode reader | `vm/reader.h` | none | reads a file whole | a file that is not there ends the program before it does anything |
| LLVM backend | `llvm-backend/*` | `RbvmWriter`: the text, next and result register, registers of values, positions of blocks, postponed jumps | `printModule`, `printFunction`, `printLoop`, `printBasicBlock`, `visit*`, `produce*`, `fixup*` | what it emits is well formed; every block is emitted once; a block's bytecode does what the block says, phi nodes included; integers keep their width and sign |
| Session server | `ExecutionHolder.java`, `ExecutionController.java`, `RunCodeAPI.java` | maps `controllers` and `lastCallTime`; a process, its pipes and its future per session | `run-maintain`, `communicate-maintain`, sweep of idle sessions, termination callback; `run` | a reply belongs to its request; only idle sessions are ended and all idle ones are; no process is lost; a dead one is forgotten |
| Compilation service | `CompilationAPI.java`, `CoderHelper.java` | temporary files, three processes one after the other | `compile`, hex sentences | each request gets the bytecode of its own text, or none, and leaves no files |
| IDE client | `static/main.js` | a record per file in local storage, the editor, requests under way | edit, select, create, compile, run, call a method, reload; an answer to each request | text, bytecode and session of a file belong together; the page shows those of the selected file |
| Contracts | `examples/contract.cpp`, `smart_loop.cpp` | a hash table of balances, a supply | `total-supply`, `balance-of`, `transfer` | the table behaves as a map; a transfer is all or nothing and conserves tokens; every command ends, with one answer |
| Web shell, examples, scripts | the rest | none of the system's | - | - |

How they interact. The backend writes a bytecode file; the VM and the disassembler each decode it with
code of their own. A compilation runs `clang`, the backend and the disassembler over files named after the
request, and answers with the bytecode as a sentence of hexadecimal words; a run or a maintained run turns such
a sentence into a file again and starts the VM on it. The session server keeps a VM process per session, which
runs a translated contract; a request writes a line to the standard input of that process and reads a line of
its output, all requests of a session sharing one `Scanner` and one writer. When the process ends, callbacks of
a future read what is left of its output and remove the controller from the map. Every request ends with a
sweep that terminates sessions without a recent call. The client polls nothing: it waits for the answer of each
request, and the user goes on editing meanwhile.

What is hard in it:

* the VM returns, calls and skips by offsets it does not test, on two stacks that must move together, and
  takes addresses inside a vector that moves;
* two decoders of one format, with an exception (`lshr`) in both;
* a register has one width and the types of LLVM many: constants are sign-extended, results zero-extended, and
  the opcodes disagree about which of the two their operands are;
* requests are threads: the sweep reads a time and acts on it later, the lookup and its refresh are two
  steps on two maps, and the process may exit between any two of them;
* the reaping thread reads `input` without the lock that protects it, and the pipes of a one-shot run only
  when the program has ended;
* a compilation looks at no exit status, swallows the failure of a write, and hands files from stage to stage;
* an answer reaches the page when the file it belongs to was edited, or another one selected, and writes back a
  record that is as old as the request;
* a file is written once with jumps and lengths that are not known yet, put in later at saved positions; the
  number of a register is cut to a byte at every use; loops are printed by a recursion of their own;
* linear probing, with wrap-around and collisions, under a transfer made of two searches and two insertions.

The hazards of the code, each at its line, with the properties aimed at it, are in `PROJECT.json`.


## 2. Modules and code

| module | models | extends |
|---|---|---|
| `Bytecode` | the format as the VM reads it: instructions, `Length`, `Targets`; what the translator owes the VM (`WellFormed`) | - |
| `BytecodeFiles` | the files the VM is run on, with the assumption that they are well formed | `Bytecode` |
| `Assembly` | instructions by their mnemonics | `Bytecode` |
| `Translator` | the LLVM backend | `Assembly` |
| `Translation` | what a translation has to be: both sides executed on symbols | `Translator` |
| `Words` | integer types in the registers of the VM: arithmetic, comparisons, casts, constants | - |
| `Rbvm` | the interpreter | `BytecodeFiles` |
| `Disassembler` | the disassembler | `BytecodeFiles` |
| `Sessions` | the session server | - |
| `OneShot` | compilations, one-shot runs, the files of all requests, the bytecode reader | - |
| `IdeClient` | the page | - |
| `Token` | what a token promises: balances that change in one step | - |
| `Contract` | the example contract; implements `Token` by `Ledger == INSTANCE Token WITH balance <- Balance` | - |
| `MCPrograms` | the table of bytecode files TLC runs | `Assembly` |
| `MC...` | an instance for TLC of each | the model |
| `RbvmProofs`, `WordsProofs`, `TranslationProofs`, `DisassemblerProofs`, `SessionsProofs`, `OneShotProofs`, `IdeClientProofs`, `ContractProofs` | theorems | the model, `TLAPS` |

**Bytecode.** A file is a function from the byte offsets of its instructions to decoded records. Offsets and
lengths are the real ones, with one parameter for the length of a name, so that a wrong offset is not an
instruction boundary of the model either. `WellFormed` collects everything the VM takes for granted about a
file: jumps stay on boundaries and inside or outside function bodies, `nskip` reaches the end of the body,
only a body returns. It speaks of the live instructions, those control can come to: after a conditional branch
that ends a body, and after a loop, the translator leaves a jump nothing comes to, and that one may go anywhere.
`BytecodeFiles` assumes it of the constant `Programs`, evaluated on every file TLC is given.

**Translator.** `writer` holds the members of the `RbvmWriter` and the decoded text, with the offsets of the
real one: an operand is written by a chain of `Emit`s in the order of the code, and a jump or `fd` that is not
finished is an instruction whose offset is put in later (`FixupLocal`, `FixupFD`, `FixupPostponed`). A register
is a number until it is written, where `Byte` cuts it as `produce1` does. The actions are what happens around
the blocks: `StartFunction` numbers the registers of values, `PrintBlock`, `EnterLoop`, `EndLoop` (a frame of
`work` is an active call of `printLoop`), `FinishFunction`, and `Finalize` with the globals and the call of
`main`. `LoopInfo` is LLVM's analysis, external, written as its definition: natural loops of back edges to a
dominator. In what order a loop holds its blocks beyond the header is LLVM's affair and left open.
`ModulesAssumption` is what LLVM's verifier and the sources of the model give the translator: at least one block,
a value for each incoming edge of a phi node, blocks to go to that exist and none after a return, identifiers
defined once, operands of a kind the model has, names the format has, and loops that are nested as `LoopInfo`
gives them. A block may end in `unreachable`, after a call that does not return: nothing is written for it
(`visitUnreachable`), so that control falls into what is written next, or out of the body (`Falls`). Nor is anything
written for a load or a store whose size is not one of `Widths`, that of a pointer (0 bits) or a truth value (1). No branch leads back to the entry block, which LLVM forbids, and every block can be reached from it
(`Simplified`): the pass that simplifies the flow of control (`createCFGSimplificationPass`) runs first and removes
the others. `FormatAssumption` names the opcodes and widths the translator relies on.

**Translation.** The reference: what a block means on one side, what its bytecode does on the other, both as
the set of final states over symbolic values (registers, calls and stores in order, conditions met, next block).
A block that ends in `unreachable` may go on anywhere. The mask of a narrow result is the meaning of a cast but
for a sign extension, which is an operation of its own. Whether the VM's operation is LLVM's, of the same name, is
a question for `Words`.
`CallsEnter` says what a call finds: the header of the function, its first block behind it, a register of its own
for each value, the arguments in the first ones.

**Words.** A value and the register that holds it, side by side, for the last result and one other operand. A
step is an instruction of LLVM: on the one side its meaning (external), on the other what `visitBinaryOperator`,
`visitICmpInst`, `visitCastInst` and `printConstant` make of it and what the lambdas of the VM compute, with the
C++ types they are instantiated at: `sdiv`, `srem` and `ashr` unsigned, `lshr` on half a register. `TypeOK` says
that a register holds no bits beyond its type but those of a sign, and only a constant, or a parameter that was
given one, has such a sign: a result and the copy to a phi node (`Phi`) are masked. `First` puts a constant or a
parameter where the first operand is. The bitwise
operators of C++ are the constants `BitAnd`, `BitOr` and `BitXor`, of which `BitwiseAssumption` says that
they give words and work bit by bit as far as the lowest `n` bits go; the run gives them their real values.

**Rbvm.** One action per group of opcodes, each with every call its case makes (`init_call`, the native
functions). `reg_stack`, `call_stack`, `names` are the C++ variables; `pc` is `i` between instructions;
`buffer` is the identity and capacity of the vector's memory, which `init_call` replaces when it is full
(`Grown`). A register holds a tagged value: a number, a function, a native function, a cell obtained from
`malloc` or `new`, an address made by `lea`, which names the memory of the vector it points into and works only
while the vector lives there, or `Unknown`, which stands for any 64 bits. What the ALU computes on numbers is the
parameter `Alu`; on an address it gives `Unknown` (moving it and adding nothing apart), as every `getelementptr`
of the translator does, and so does a read of memory that holds nothing the model follows. An address is `Wild`
when the model does not know what it refers to: `Unknown`, a number other than 0, a pointer into a vector that
moved or a popped frame, a freed cell. An access through a wild address may work or crash; a store may hit one or
two registers of any frame or cells of anybody (`Hits`: it need not be aligned), a call may enter any function,
`free` may release any block, and a branch on `Unknown` goes both ways. Memory is one value per cell, the first
8 bytes of the block, and blocks are at least that long, as those of glibc are; what lies further is reached by
computed addresses only. Conversions of `scanf` are of numbers and `printf` has no `%n`.
The process ends by `End`, `Exit`, `WrongCommand`, `AssertFails`
(`aborted`), `Crash` (a signal: division by zero, memory that is not mapped, no memory for another frame) or
`Undefined`, where what was hit is memory of the VM itself (its maps, its return addresses, the bytecode) or not
a function at all, and nothing can be said of what follows; the model stops there.

**Disassembler.** One action per group of cases, with the number of bytes its code reads written out again
(`HeaderBytes`, `ConstantBytes`, the arguments of `Prints`) and not taken from `Length`. The listing is the set
of offsets printed. `Contiguous` assumes that a file is written one instruction after the other,
as the translator does: the VM never needs it, the linear pass does.

**Sessions.** Each request is a thread with a step per access to a map, a pipe or the clock, in the order of
the code: `Put`, `Attach`, `Touch` (`ExecutionHolder.run`), `Lookup`, `Refresh` (`get`), `StartSweep`,
`Visit`, `Kill`, `EndSweep` (`cleanUnused`), `Open`, `Send`, `Receive` (`RunCodeAPI`). The program is `Boot`,
`Answer` and `ProcessExits`, at any time; the reaping thread is `ReadErrors`, `ReadOutput` and `Remove`.
`Boot` is the line that the loop of a contract prints when it starts. `Answer` is what it prints to a line it was
sent: one line if that is one whole command, none if it is not complete, two or more if a number in it cannot be
read, since what `scanf` left is the next command. `garbled`, a history variable, remembers the sessions sent
another line than one whole command.
`ReceiveTogether` is the data race of two requests in one unsynchronised `Scanner`: both get one line.
`shared`, a history variable, remembers the sessions that ever served two requests at once.

**OneShot.** Each request is a thread with one process at a time and files of its own in the one directory all
share. `StartCompile`, `WrongFormat`, `Write`, three times `Launch` (or `LaunchFails`) and `Join`, `ReadResult`,
`CleanUp` are `compile`; a run is `Write` (or `Refuse`), `Launch`, `Join`, `CleanUp`; a maintained run ends
here when its file is written and goes on in `Sessions`. `Write` may leave no file or a part of it, as
`writeFile` prints the exception and returns. A program loads its file whole (`read_text`), prints to two pipes
of bounded room, may read, may go on for ever, may fail, and leaves its output file only if it did not; what it
prints is counted. `NeverEnds` says which programs do not end.
`ReadErrors` and `ReadOutput` are the reaping thread, after the exit. Bytes are numbers, a hex word has a prefix
digits and, if somebody wrote one, a sign, and `ToHexSentence`, `FromHexSentence` are computed, not assumed inverse.

**IdeClient.** A handler of the page is a step, as JavaScript runs it. `storage` is the local storage; a request
keeps the record its `File` object had loaded, since each setter writes the whole record back (`Written`).
`fileSelected` sets the text of the editor, which fires the change events, whose handler drops the bytecode:
`Reopened` is the record read before and written after. `Answered` takes any of the requests under way, in any
order. The server is what its answers may be; `SessionEnds` at any time.

**Contract.** One probe of the hash table is one step, so that a search that does not end is a behaviour. A
line of input is a sequence of words and numbers, read as `scanf` reads them: a number that is missing leaves
the word in the input. `Balance` is what the table holds, with the debited sender counted at its old balance
until the second insertion, where the transfer takes effect. `Token` reads both balances, then writes the
one of the receiver last, as the code does, and says nothing of slots and steps. Two history variables
relate answers to lines: `orderly`, whether every line so far was one whole command, and `owed`, how many of
those are not answered yet.


## 3. Runs

| run | shows | bounds |
|---|---|---|
| `vm` | `TypeOK`, `ControlMatchesCalls`, `ReturnSites`, `SuspendedFramesSafe` on programs of two functions that call each other and themselves, return or leave, pass pointers to registers and addresses computed from them and store through them; `CellsReachedByAddress` on sequences of three uses of memory, native functions, jumps and arithmetic | 4704 and 8000 programs, 3 registers, words of 2 bits, 2 widths, 3 nested calls, 2 cells; 175 945 states |
| `lea_pointer` | violation, see findings | two nested functions |
| `listing` | `TypeOK`, `ListsWhatRuns`: the disassembler lists what the VM runs | the files of `vm` |
| `translator` | `TypeOK`, `OutputWellFormed`, `OnlyJumpsAreDead`, `BlocksKeepMeaning` | 2142 modules of two functions, 48 registers |
| `words` | `TypeOK`, `ArithmeticExact`, `ComparisonsExact`, `CastsExact` | registers of 5 bits, `lshr` on 3, types of 1, 2, 3 and 5 bits, all values; 33 700 states |
| `sessions` | six safety properties of the server | 3 requests, 2 sessions, clock to 2 with a timeout of 1, at most 2 answers to a line; 890 768 states |
| `sessions_liveness` | `DeadSessionsForgotten`, `RequestsEnd` | 3 requests, 1 session, at most 2 answers to a line; 111 297 states |
| `stale_sweep` | violation, see findings | as `sessions` |
| `one_shot` | `TypeOK`, `ReplyIsOwnBytecode`, `VmRunsOwnText`, `FilesRemoved`, `RepliesComplete`, `RequestsAnswered` | 2 requests, a text with and without the loop of a contract, pipes with room for one piece; 643 600 states |
| `ide` | `TypeOK`, `BytecodeMatchesCode`, `SessionRunsBytecode`, `SelectingKeepsFiles`, `EditorShowsText`, `AreaShowsBytecode` | 2 files, 2 texts, 3 sessions, 2 requests under way; 487 662 states |
| `contract` | `TypeOK`, `AccountsFindable`, `OneAnswerPerLine`, `ImplementsToken`, `CommandsAnswered` | 3 accounts and 0 in 4 slots, amounts to 9 |
| `self_transfer` | violation, see findings | as `contract` |

Why the bounds are enough to be interesting.

`vm`: with three nested calls the vector of frames is moved
twice (capacities 1, 2, 4) and a frame is suspended under a suspended frame; three registers are a callee, an
argument and a free one. A cell is freed, handed out again and reached by a stale address within three
uses, while another stays in use. Larger frames and longer programs are covered by the proofs.

`translator`: a function of the table has three blocks; all ways of control between them with a branch, a
condition or a switch, loops of one and two blocks and irreducible cycles included, are combined with eight
bodies, which hold every kind of instruction and operand of the model, and five patterns of phi nodes, a narrow
one among them. Three more modules nest loops three deep, out of order, and beside an irreducible cycle; seven
have blocks that end in `unreachable`, in front of another block, at the end, without any code, inside a loop, and
as the only block; four load or store a pointer or a truth value, or extend a sign. Loops
are printed with the order of their blocks left open, so one module gives several files. 48 registers stand for
256: most functions have enough of them and some do not. `BlocksKeepMeaning` is stated for functions within the
limits of the translator, each a named precondition, and each is needed: without it TLC finds a module whose
block is translated to something else. `RegistersSuffice`: `produce1` keeps eight bits of a register's number.
`PlainOperands`: a global is read under its mangled name and stored under its own; an integer is written
sign-extended, since the cast to its type is made and then not used (`RbvmBackend.cpp:679`). `PlainIndices`: a
step over an array or a structure is taken as one byte. `SafePhis`: phi nodes are copied one after the other, so
a later one reads what an earlier one has become. `SizedAccesses`: `produceLD_RR` and `produceST_RR` write nothing
for a size other than 8, 16, 32 or 64, and `getPrimitiveSizeInBits` of a pointer is 0. `NoSignExtension`: any cast is
a copy and a mask. Of the 2142 modules, 622 meet the last five in both functions; `OnlyJumpsAreDead`, and the part
of `OutputWellFormed` that instructions follow each other, hold of all. That a file is `WellFormed` is said of
modules no function of which has at its end a block that ends in `unreachable` (`FallsOut`): in the others control
can leave a body, and only the caller of a function that does not return keeps the VM from it. A block of nothing
but `unreachable` has no bytecode of its own, so nothing is compared. At the start of a block its narrow phi nodes
hold a value of their type (`Held`): a branch into the block has put one there.

`words`: the types are narrower than what `lshr` reads, as wide, and as wide as a register, with `i1`, which the
code treats apart. All values of a type are met, in each of the two forms a register holds them in. The properties
say for which operands each opcode is right, and no weaker condition will do: unsigned division of sign-extended
constants, signed division and arithmetic shifts of negative values, logical shifts of more than 32 bits, and
comparisons of a result with a negative constant are the cases left out, and in each the code computes
something else.

`sessions`: a run, a call and a third request that sweeps or collides with either; a timeout of one tick lets a
session be refreshed, be idle within the timeout and be idle beyond it before the clock ends. `Slack`, the ticks
a request may take when it waits for nothing, is at most `Timeout`: the code works with 30 minutes, and a
request that computes that long is not what the properties are about. Requests and sessions are symmetric in
`sessions`; no symmetry is used with liveness. `SequentialRepliesMatch`, `RequestsEnd` exclude sessions on which
two requests ever overlapped: with two at once the `Scanner` gives a line to either, to both or to none. They
exclude sessions that were sent something else than one whole command, too: an incomplete one waits for the rest of it,
and the second answer to an unreadable one is what the next request of the session reads, and so on for all that
follow, though none overlap. Nothing in the server or the page keeps a user from sending one.

`one_shot`: two requests meet in every pair of stages, of one kind or of two; bytes with one and with two
digits, and a text cut off that compiles to something else; a program that prints once to each stream, one that
prints twice to one, one that reads, and one that loops, so that a pipe with room for one is enough, just enough,
and not enough.
`ReplyIsOwnBytecode` is about texts that were written whole: `writeFile` swallows the exception, and a part of a
text may compile. `RequestsAnswered` excludes programs that loop, read or print more than a pipe holds
(`NeverEnds`): what a client has run need not end, `join` has no timeout, and such a request waits for ever.

`ide`: two requests, on one file or on two, of one kind or of two, are answered in either order, after edits,
selections and reloads; a third session is one that the first two were not. `SessionIds` are symmetric. There is
one page: two tabs with one local storage are not modelled.

`contract`: of the accounts 3, 4 and 7, 3 and 7 hash to the last slot and 4 to the first, where
the search for 7 wraps around, whatever the order in which they appear; amounts of 4 against a supply of 7 and
a largest number of 9 make transfers succeed, lack money and overflow. `CommandsAnswered` holds because the table
has an empty slot; with as many accounts as slots (1024) the search for one more account does not end.
`OneAnswerPerLine` is about lines that are one whole command: with `balance-of total-supply` the second word
stays in the input and is answered as a command of its own.

All runs set `CHECK_DEADLOCK FALSE`: a VM process ends, the input of a contract ends, and requests are finite.


## 4. Fairness

`Rbvm`, `Disassembler`, `Translator`, `Words`, `IdeClient`: safety only (the passes end with their input; nobody
is obliged to click or to answer). `Sessions`: weak fairness of each request's thread, of the thread that
reaps each process (both are scheduled by the JVM and block only where the model's guards do), and of each
program printing its first line and answering the lines it reads (contracts do; a program that never answers
makes its request wait, which is what `readLine` does). `ProcessExits`, new requests and the clock are not
fair: nothing obliges them. `OneShot`: weak fairness of each thread, each process and the reaping thread; a
program that waits for input or for room in a pipe is not enabled, so that fairness does not make it go on.
`Contract`: weak fairness of the program; the client need not send anything.


## 5. Proofs

Each theorem holds for all values of the constants that meet the named assumptions of the model: sizes are
natural numbers, the ALU returns words, files are `WellFormed` and (for the listing) `Contiguous`; `Slack <=
Timeout`; null is not a text, a sentence or a record; the compiler gives bytes for a text, at least one for a
whole one; bitwise operators work bit by bit; a module is what LLVM's verifier lets through, of the kinds of
instruction the model has, `unreachable` among them (`ModulesAssumption`). That files are well formed and contiguous
is not taken on trust: `TranslationProofs!RightOffsets` proves that every file the translator writes is contiguous,
and well formed if no function of its module has at its end a block that ends in `unreachable`. What `Rbvm` and
`RbvmProofs` say is of well-formed files. TLC evaluates every assumption in some run.

| theorem | statement |
|---|---|
| `RbvmProofs!TypeCorrect`, `CallsNest`, `FramesAgree`, `ReturnsKnown` | `Spec => [](TypeOK /\ FramesMatchCalls)`, `[](ControlMatchesCalls /\ ReturnSites)`, `[]FramesMatchCalls`, `[]ReturnSites` |
| `RbvmProofs!FramesPrivate`, `CellsGuarded` | `Spec => SuspendedFramesSafe`, `CellsReachedByAddress` |
| `WordsProofs!TypeCorrect`, `Arithmetic`, `ComparesRight`, `Conversions` | `Spec => []TypeOK`, `[]ArithmeticExact`, `[]ComparisonsExact`, `[]CastsExact` |
| `TranslationProofs!Invariance`, `TypeCorrect`, `RightOffsets` | `Spec => []Inv`, `[]TypeOK`, `[]OutputWellFormed` |
| `TranslationProofs!FlowInvariance`, `NothingElseDead` | `Spec => []Flowing`, `[]OnlyJumpsAreDead` |
| `TranslationProofs!LayoutInvariance`, `SameControl` | `Spec => []Laid`, `[]ControlKept` (`CallsEnter` and the flow between blocks, of `BlocksKeepMeaning`) |
| `DisassemblerProofs!TypeCorrect`, `ListingAgrees` | `Spec => []TypeOK`, `[]ListsWhatRuns` |
| `SessionsProofs!TypeCorrect`, `MissingDead`, `LiveHeld`, `OwnSpared` | `Safety => []TypeOK`, `[]MissingMeansDead`, `[]LiveProcessesHeld`, `[]OwnSweepSpares` |
| `SessionsProofs!IdleCaught`, `RepliesMatch` | `Safety => SweepsCatchIdle`, `[]SequentialRepliesMatch` |
| `OneShotProofs!TypeCorrect`, `RepliesOwn`, `VmRunsOwn`, `DiskClean`, `AllTaken` | `Spec => []TypeOK`, `[]ReplyIsOwnBytecode`, `[]VmRunsOwnText`, `[]FilesRemoved`, `RepliesComplete` |
| `IdeClientProofs!TypeCorrect`, `BytecodeMatches`, `SessionMatches` | `Spec => []TypeOK`, `[]BytecodeMatchesCode`, `[]SessionRunsBytecode` |
| `IdeClientProofs!SelectingHarmless`, `EditorFollows`, `AreaFollows` | `Spec => SelectingKeepsFiles`, `EditorShowsText`, `AreaShowsBytecode` |
| `ContractProofs!TypeCorrect`, `TableFindable`, `LinesAnswered` | `Spec => []TypeOK`, `[]AccountsFindable`, `[]OneAnswerPerLine` |
| `ContractProofs!LedgerKept` | `Spec => ImplementsToken` |

**Rbvm.** `TypeOK` alone is not inductive: a return writes into the frame below and needs it to exist, so the
invariant counts frames and return addresses together. One lemma per family of actions (`LocalStepsKeepShape`,
`StoreKeepsShape`, ...), on lemmas about fetching, operands and the typing of what loads, stores and the ALU
give. Where the next offset comes from is `WellFormed` for a jump or a fall-through and `call_stack` for a
return. For the calls, `CallDiscipline` adds that each saved offset is past a call, and on which side of a
body that call was: a call enters a body and pushes an offset of its own side, a return goes back to it, nothing
else changes sides. `FramesPrivate` and `CellsGuarded` are action properties proved from these: only `Return`,
`Store` and `Scanf` change a frame below the top one, and the latter two only the registers their address
operands name (`WritesNamed`, `StoreNamed`, `ScanfNamed`), unless such an operand is wild: then the store may hit
anything, and the property says only that it takes such an operand.

**Words.** `TypeOK` is not inductive by itself: an operation keeps the other operand, so `ArgHeld` says that this one
is held in one of its two forms. The lemmas are about arithmetic modulo powers of two: that `pow2` is a product
over sums of exponents, that wrapping twice is wrapping to the smaller width, that a sum, difference, product,
left shift or bitwise operation of registers wraps to that of the values, and what the sign of a register is.
Facts about all exponents rest on `Induction`: a set of naturals with 0 and successors is all of them, since its
complement would have a least element.

**Translation.** Every producer of code is shown to extend a `Good` writer: `Extends` says what is new in the text
and that nothing old changed; `Continues` is that for code in the middle of a block (straight, or jumping within
what it added), `Ends` for the code that ends a block, whose jumps are patched (`fixupLocal`), postponed, or dead.
Operands, calls, phi nodes and bodies are folds; `Induction` over the steps of a fold, with `Unfolds` for its
definition, gives their lemmas. Between actions the invariant `Inv` has two parts. The text is `Finished` up to the
function being printed: every jump leads to an instruction before the end, on its own side of the bodies, but for a
set `D` of jumps that nothing comes to. The function itself is a `Body`: its jumps stay inside it or are pending. And
each block is printed or `Waits` in an active `printLoop`; `JustInside` and `LoopsAround` show, from the
nesting of loops, that what a loop leaves to its caller and what it takes to an inner loop are all of its blocks.
So when `printFunction` ends every postponed jump has a position, `FunctionFinished` puts it in, and the Body
becomes part of what is `Finished`. A block that ends in `unreachable` lets control come to its end, so that a `Body` may,
too, while such a block is the last one (`Known`, `Opened`); `Tight` says that no finished function ends that way,
and only then is the text `Finished`. `OutputWellFormed` speaks of the live instructions, a fixed point reached step
by step: `LiveCloses` shows, by counting, that as many steps as there are instructions suffice.

That nothing but jumps is dead (`OnlyJumpsAreDead`) needs the converse, that control does come to everything else,
and `Inv` only bounds where it goes. Each producer therefore also says that every site it adds is `Led` to, from an
instruction before it that is no jump, or from the last jump it adds to the end; and a terminator `Offers` a branch
to each block that follows. `Flowing` carries that from action to action: `Flows` up to the function being printed
(every set that holds site 0 and is closed under the steps of control holds all sites but jumps), `BlockFlows` in it
(the same, from the beginning of each block, up to a branch to each block that follows), `Entered` (the first block
comes first), and `Nested` with `Once`: the calls of `printLoop` lie one in the other, and what still waits has not
been printed. When `printFunction` ends, `FunctionFlows` puts them together: a closed set that holds the first block
holds all blocks, since all can be reached (`Simplified`), hence all their code, and the end, past the declaration.

The same lemmas give the half of `BlocksKeepMeaning` that is about control, for every module and without the
preconditions of the other half. `Laid` says of the function being printed that each block `Encloses` code of its
own, which control leaves only by a branch to a block that follows in the module, and that its values are
`Numbered`; of each function printed before, that it is `LaidOut` in the text as `layout` says. What is written
later `Agree`s with the text up to there, so it stays so (`LaidOutAgrees`). `ControlKept` is what that comes to in
the file: `CallsEnter`, and for each block and each of its successors a jump to that successor that control comes to,
and no other way out (`Branches`). For a block that ends in `unreachable` it says nothing of the way out: what is
written next, there, is not what follows in the module. `Branches` quantifies over all
sets of sites, so it is the prover's; TLC was given it with the closed sets computed, on the modules of the run
`translator` that have no `unreachable`, before it was proved.

**Disassembler.** `Agreement` is `TypeOK` with both halves of `ListsWhatRuns`. The lemma `CasesReadLength` shows
that every case reads `Length` bytes; `PrintsKeepsAgreement` that a step over that many bytes, in a contiguous
file, skips no instruction and lists none twice.

**Sessions.** Three invariants, one on the other. `Holding` says at which step of a request its session is in
which map, and what a sweep still has to visit: with it a lookup fails only when the process is dead, and no live
process leaves a map. `InTime` relates the clock to the time each request began: as a request takes no more than
`Slack` ticks, the entry it refreshed is not expired when its own sweep reads it. `Exchange` says, of a session
without overlapping requests, what is in the two pipes at each step of its one request, and what the reaping
thread may have taken; so what is read is the answer to what was written.

**OneShot.** A request touches its own files only, so the invariant `Served` is one formula `Local` about a thread,
its process and its files, for each request: where the thread is for its kind (`Placed`), which files there are
(`Filed`), what the process read and printed (`Piped`), and what each stage leaves for the next when the text was
written whole (`Staged`): a stage that failed left no file, so the next one fails too, and the bytes that come out
are those of the text. `BytesKept` and `SentenceKept` show that the two conversions undo each other. `OwnStep` shows
that what others do changes nothing.

**IdeClient.** Since a request writes its old record back, `Records` says of the records in the storage and of
those that wait in requests alike that they are `Coherent`: bytecode of the text, session of the bytecode.
Sessions never change what they run, so a record stays coherent however long it waits.

**Contract.** `Progress` says what is known at each place of the program (which numbers were read, that the sum was
tested). `Hashing` adds `AccountsFindable` and what a search has seen so far: every slot from the home of the key
to the one probed is taken by another key; then the first free slot is the right one, and the insertion keeps
the table findable. Modular arithmetic of slots is in three lemmas (`ModRange`, `ModBack`, `ModNext`). `Discipline` is
the count of answers owed. `Keeping` adds what the local copies of balances are worth: `prev_from` is the balance of
the sender until the second insertion, and `prev_to` that of the receiver when it was read, also for a transfer to
oneself. From it each step of `Contract` is a step of `Token` or leaves balances and answer alone.

Only model-checked, of the properties the runs check:

* `BlocksKeepMeaning`, the values: which value is in which register, and which calls and stores were made. It
  relates two symbolic executions, of a block and of its bytecode. That a call enters where it should, and that a
  block goes on to the blocks it should and no other, is proved (`SameControl`); on which condition is not.
* `DeadSessionsForgotten`, `RequestsEnd`, `RequestsAnswered`, `CommandsAnswered`: liveness, as fairness and
  `ENABLED` are out of the prover's reach.

No module a proof uses declares a recursive operator: the recursion of the model is in functions and folds.


## 6. Findings

* `lea_pointer` (`LeaAddressesRegister`): `lea` stores an address inside the vector of frames, and the next
  call that makes the vector grow moves every frame. The pointer then is stale although its frame lives.
* `stale_sweep` (`OnlyIdleKilled`): `cleanUnused` acts on a time it read before a concurrent call refreshed it,
  and ends a session that is in use.
* `self_transfer` (`TokensConserved`): a transfer to oneself adds the amount to the balance, since the second
  insertion overwrites the first. `ImplementsToken` says what does hold.

Met on the way and left to the text: the disassembler prints the argument registers of a call as signed characters
(`disassembler.cpp:368`); `lshr` takes a constant of four bytes, where every other opcode takes eight, in the VM and
the disassembler alike; the translator only emits its register form. The limits named in section 3
(`RegistersSuffice`, `SafePhis`, `SizedAccesses`, `NoSignExtension`, `Within`, `Comparable`, ...) are those of the
code.


## 7. Not modelled

* Floating point, strings and their formatting: values are abstract. Of arithmetic, `Words` has the integers.
* The web shell, the example programs and the test scripts: no state of the system.
* `llvm-rbvm.cpp` beyond the file it leaves or does not leave, and the target registration: set-up of LLVM.
* The wording of listings, logs and replies, and what the console of the page shows.
* Of the translator: floating point, constant expressions other than addresses, aliases, intrinsics,
  calls of more than eight arguments (whose opcode would be another instruction's), and what it gives up on.
* What a VM does after a call that was not to return did return: at `unreachable` control falls into what is
  written next, and behind a last block out of the body. The files with such a last block are not among those
  `Rbvm` assumes.
* Pointers to globals across stores: a store gives the global a new cell, so that an address taken earlier
  leads to the old one (`RbvmBackend.cpp:98`); the blocks of `Translation` take an address to be a name.
* Limits nobody promises: the depth of recursion, the number of sessions ever started.
* Undefined behaviour after it happened: the model stops.


## 8. Plan

What is left, in this order:

1. A proof of the values of `BlocksKeepMeaning`, producer by producer as `Extends` and `Leads` are proved: what an
   operand, an instruction and the copies of a branch leave in the registers, in a run of the code they add.
2. `TranslateAndRun`: a module translated by `Translator` and run by `Rbvm`, against the module itself, calls and
   loops included; pointers to globals need it.
3. `ContractSession`: `Contract` as the program behind a session of `Sessions`. `OneAnswerPerLine` is the
   interface between them: `exchangeLines` reads one line for each it writes.
4. `Activations`: an abstract machine of nested calls, with one stack of frames, that `Rbvm` implements.
5. Two tabs of the page with one local storage.


## 9. How to run

    tlc -workers 2 -config Vm.cfg MCRbvm.tla            # LeaPointer.cfg
    tlc -workers 2 -config Listing.cfg MCDisassembler.tla
    tlc -workers 2 -config Translator.cfg MCTranslator.tla
    tlc -workers 2 -config Words.cfg MCWords.tla
    tlc -workers 2 -config Sessions.cfg MCSessions.tla  # SessionsLiveness.cfg, StaleSweep.cfg
    tlc -workers 2 -config OneShot.cfg MCOneShot.tla
    tlc -workers 2 -config IdeClient.cfg MCIdeClient.tla
    tlc -workers 2 -config Contract.cfg MCContract.tla  # SelfTransfer.cfg
    tlapm RbvmProofs.tla                                # and the other seven modules of proofs

Every property of a passing run has a mutant in `PROJECT.json`: a small change of one definition, named beside
it in the module (`Saved_BeforeArgs`, `NextSlot_Two`, ...), that a plausible mistake in the code would make and
that violates the property under the same configuration.

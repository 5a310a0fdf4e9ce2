# TinySwift: specifications and proofs

TLA+ modules that model the TinySwift compiler, its runtime and its language
server, the TLC configurations that check them on small instances, and proofs of
their safety properties that the TLA+ proof system checks. Paths below are
relative to the repository.

Contents: [the system](#1-the-system), [component inventory](#2-component-inventory),
[modules and code](#3-modules-and-the-code-they-model), [runs](#4-runs-bounds-and-results),
[fairness](#5-fairness), [proofs](#6-proofs), [disagreements](#7-where-the-code-and-its-own-words-disagree),
[limits](#8-limits-of-the-models), [plan](#9-plan).

To reproduce: `tlc -config <cfg> <module>` for a row of section 4, and `tlapm` on
`ArcRuntimeProofs.tla`, `EventLoopProofs.tla`, `CycleCollectorProofs.tla`,
`HashMapProofs.tla`, `SwissTableProofs.tla`, `LanguageServerProofs.tla`,
`ArcInsertionProofs.tla` and `DriverProofs.tla` for section 6. `PROJECT.json` lists the components, the hazards, the runs, a faulty
variant of the code that each property detects, and the source lines of every
definition.

## 1. The system

TinySwift is a compiler for a dialect of Swift, built on the toolchain of the
Carbon language, together with a C runtime and a language server.

    words --command line--> options --driver--> the phases, file by file
    source --lex--> tokens --parse--> parse tree --check--> SemIR
                                                  (names, types; blocks;
                                                   retains, releases, defers)
    SemIR --sil gen--> TinySIL --verify, mandatory passes,
                                 performance passes, verify--> TinySIL
    TinySIL --lower--> LLVM IR --codegen, link--> executable + runtime

    editor <==JSON-RPC over two pipes==> language server
                                         (lex, parse, check on every edit)

Parts meet in four ways. The phases hand tables to one another (calls, in one
thread); within the checker, handlers also leave things for one another in the
context (a pending modifier, condition or type, a table of variables). Compiled
code calls the runtime, concurrently when the program has threads. The runtime
calls back into compiled code: `deinit_fn` when an object dies, `resume_fn` when
a task has its turn, and both may call the runtime again. The editor and the
server are two processes that exchange messages.

The behaviours that are hard to get right, and to test, are therefore the
interleaving of atomic operations, re-entrant callbacks, tables that change
while they are iterated, state that one handler leaves for another and a third
one finds, what several program transformations do *together* to all programs
(not to the ones somebody wrote a test for), the early ends of a chain of phases,
and messages between two processes that do not wait for each other.

## 2. Component inventory

**modelled**: each operation that changes state is an action or an operator an
action applies. **partly**: the named part is. **—**: not modelled, with the
reason.

### Runtime, `src/runtime/tinyswift_runtime.c`

| component | state | operations | what makes it correct | status |
|---|---|---|---|---|
| ARC | a 32-bit count and a `deinit_fn` per block | `alloc`, `retain`, `release`, `is_unique`; atomics, `abort()` on misuse | the count is the number of references; nothing referenced is freed; what is not referenced is freed, once; `is_unique` can be acted on | modelled: `ArcRuntime` |
| cycle collector | thread-local list of ≤ 1024 candidates | `release_cycle_candidate`; `collect_cycles` at exit, with `deinit_fn` inside its loop | disturbs nothing before exit; forgets no possible garbage; frees nothing twice; ends | modelled: `CycleCollector` |
| hash map, hash set | slots with a state, key and value; a count | `set`/`insert`, `get`, `contains`, `remove`, growth | is a map / a set; a probe always ends; the count is exact | modelled: `HashMap` |
| event loop | growing array of tasks, loop variable | `async_submit`, `run_event_loop`, `block_on`, `timer_create` | no task lost or doubled; round-robin; the loop returns | modelled: `EventLoop` |
| strings, printing, math, files, error slot, legacy dictionary | buffers; one global error slot | one call each | a string is the text it should be; the error slot is read when it is set | partly: what compiled code sees of them is in `Lowering`, `Execution`, `ControlFlow`; math and files are wrappers of libc |
| dynamic arrays | buffer, count, capacity | append, insert, remove, get/set with bounds checks, … | is a sequence; a failing `realloc` harms nothing | —: copies within one buffer. That they are handed arrays of the right kind is `RuntimeCallsFit` |
| I/O polling | registrations with kqueue/epoll | register, poll, resume once | every waiting task is resumed | —: nothing the compiler emits calls it, so the legal sequences of calls cannot be read from the code |
| test runner | signal handlers, a jump buffer, counters | run a test; a crash jumps out of the handler | a test that crashes does not end the run | —: what a second crash does is decided by the operating system |

### Front end, `src/toolchain/lex`, `parse`, `check`

| component | state | operations | what makes it correct | status |
|---|---|---|---|---|
| lexer | token buffer, open brackets | scan; match brackets, append recovery tokens | brackets pair as in the text | partly: the matching is in `Parser`; scanning is a function of tables |
| parser | position, list of nodes, depth of types | one function per construct, error recovery; rebuild the tree from the list | ends; the list is a tree; brackets and precedences as the grammar says | modelled: `Parser`, `ParseNodes` |
| checker: declarations, names, types | scopes, scopes of types, functions, pending modifiers | four passes over all files; lookup, access, inheritance, extensions, cycle capability | a name means what Swift says, in every order of declarations and files | partly: `CheckContext`, `Declarations`; without specialisation of generics and witness tables |
| checker: synthesized members | — | `==`, `!=`, `<`, `hash`, `description` for a conformance | they do what the protocol asks, of all fields | modelled: `Declarations` |
| checker: statements | open blocks, the list of body blocks, targets of jumps, deferred blocks | a handler per statement | the code does what the statements mean, on every path | partly: `Statements`; every statement over plain values |
| checker: expressions, collections, calls | scope, tables of collection variables, pending types | a handler per expression, of declarations and assignments | the program prints what Swift says; the runtime gets what it is made for | partly: `Operators`, `Collections`, `Calls`, `Expressions`; straight-line code |
| checker: compile-time evaluation | values of names, pending condition, returned | an interpreter for `#comptime` functions | does what the compiled function does | partly: `Comptime`: the statements |
| checker: ARC and defer insertion | stack of cleanup scopes, stack of deferred blocks, emitted code | handlers of declarations, assignments, returns, blocks, `defer`, end of a function | on every path no dead object is touched, none leaks, deferred blocks run once, in reverse | partly: `ArcInsertion` |
| checker: generics, protocols | templates, witness tables | specialise, look up witnesses | — | —: a second copy of the handlers above over substituted types; templates are declared, generic calls typed |
| coroutine transform, generators | — | — | — | —: does nothing yet: `async` functions run when called |
| SemIR | append-only tables | add, look up | — | —: seen as sequences |

### Back end, driver, tools

| component | state | operations | what makes it correct | status |
|---|---|---|---|---|
| SIL generation | functions, blocks, values | one translation per instruction; fix-up of conditional branches | every operand has its value; every block its place | partly: `ControlFlow` (blocks), `SilGen` (values), and the shapes of `SilOptimizer` and `ArcInsertion` |
| TinySIL and its verifier | functions, blocks, instructions; `success_` | build; verify | generated and optimised functions pass, all of them | partly: `SilOptimizer`, `ControlFlow` |
| SIL optimizer | the function, `changed`, round | definite initialisation, Mem2Reg, ARC elimination, DCE, ≤ 4 rounds | the function does the same afterwards, with the same counts | partly: `SilOptimizer` |
| lowering | LLVM values and blocks by number | one translation per instruction | no instruction is skipped; types fit | partly: `Lowering`, `Execution`, `ControlFlow` |
| code generation, linking | files | calls of LLVM and `cc` | — | partly: when they run and that they can fail, in `Compilation` |
| driver | options, units, phases | check the installation, select, `compile`, `format` | errors stop the output; diagnostics are shown once | modelled: `Driver`, `Compilation` |
| driver: `build`, `run`, `test`, manifest | processes, directories | start this program and others | — | partly: their options (`CommandLine`); see section 7 |
| command line | options set, words left | parse options, positional arguments, subcommands, defaults | an accepted line means what its words say | modelled: `CommandLine` |
| diagnostics | buffer | emit, sort, flush | nothing lost, nothing left unflushed | partly: `Compilation` |
| formatter | — | rewrite a file | — | partly: when it writes, in `Driver`; not the layout |
| language server | open documents, each with its compilation; `shutdown_requested_` | 10 message handlers, read and write loop | answers every request once and from the right text; the last diagnostics shown are those of the last text; ends | modelled: `LanguageServer` |
| hash tables of the compiler (`src/common`) | metadata, entries, growth budget, storage inside or on the heap | look up, insert, update, erase, clear, grow, reserve, copy, move | maps and sets, whatever was erased or copied; storage has one owner | modelled: `SwissTable` |
| source buffers, installation, other common libraries, prelude, test infrastructure | files, paths, containers | — | — | —: system calls and inherited libraries; that a file or the installation may be missing is in the driver |

### Hazards

`PROJECT.json` has 40, each at its line with the properties that would notice
it. The main ones by component:

* **ARC**: two releases race for the last reference; the count has already
  wrapped when `INT32_MAX` is noticed; `deinit_fn` re-enters; `is_unique` is
  answered from a plain load and used afterwards.
* **Cycle collector**: entries that outlive their object; a full list; the list
  grows while the collector iterates over it.
* **Hash tables**: tombstones and reinsertion; a table full of both; growth that
  hashes differently from the caller; room that is counted wrongly after an
  erasure; storage that changes its owner in copies and moves.
* **Event loop**: tasks submitted in the middle of a pass; removal by moving the
  last task; a failing `realloc`; tasks without a resume function.
* **Parser**: early returns that must give a count back; nodes with a fixed
  number of children, which take another construct's when one is missing; loops
  that meet a token nobody consumes.
* **Checker**: a pending condition, modifier or type that the wrong handler
  takes; tables of variables that later assignments make stale; blocks listed
  after those that use their values; deferred blocks of loop bodies;
  declarations in an order the passes do not expect; order and positions of
  fields in synthesized members.
* **ARC insertion**: the order of releases, deferred blocks and the caller's use
  of the result; paths that skip a declaration; exits that emit no releases.
* **Optimizer**: stale values across writes through another address; pairing of
  retains and releases by number although a run takes one path.
* **Lowering**: an instruction whose operand has no value is skipped silently.
* **Driver**: one of several files fails while others go on; diagnostics that an
  early end leaves in a buffer; defaults that are applied after the words.
* **Language server**: results on their way while a document changes; a text too
  large for a buffer; early returns of handlers; both pipes full.
* **Without a property**: the read of a freed header by the collector (the model
  reaches it, the code has no guard against it), the second registration of a
  descriptor with epoll, the signal mask of the test runner.

## 3. Modules and the code they model

    ArcRuntime  <- MCArcRuntime, ArcRuntimeProofs
    EventLoop   <- EventLoopProofs
    CycleCollector <- CycleCollectorProofs
    HashMap     <- MCHashMap, HashMapProofs
                                     HashMap implements KeyValueMap
    SwissTable  <- MCSwissTable, SwissTableProofs
                                     SwissTable implements KeyedTables
    LanguageServer <- LanguageServerProofs
                                     LanguageServer implements DiagnosticsFeed
    ArcInsertion <- ArcInsertionProofs
    SilOptimizer

    ParseNodes <- Parser <- MCParser
    Statements <- StatementMeaning
                    StatementMeaning <- ControlFlow <- MCControlFlow
    Operators <- Collections <- Calls <- SilGen <- Lowering <- Execution
                    <- ExpressionMeaning <- Expressions <- MCExpressions
    CheckContext <- Declarations
    CommandLine <- Compilation <- Driver <- DriverProofs
                    Declarations, Driver <- DeclarationMeaning <- MCDriver

An arrow reads "is extended by". The MC modules give values to the constants
that a configuration cannot write. No module replaces a definition of another.
Four modules model no code and are what code is compared with: `KeyValueMap` and
`KeyedTables` (maps), `DiagnosticsFeed`, and the three *Meaning* modules.
`Stepwise`, which `Statements`, `Operators`, `CheckContext` and `Compilation`
extend, has the operator with which handlers pass a changed context on: `Then(call, LAMBDA x : rest)`.

### ArcRuntime

One thread's call is two steps: the atomic operation (`RetainAdd`,
`ReleaseSub`) and what is done with the value it returned (`RetainReturn` /
`RetainAbort`, `ReleaseReturn` / `ReleaseAbort` / `ReleaseLast`), so two calls
interleave wherever the C code lets them. `refcount` is a word of the width
`MaxRef` stands for and wraps. `loc` is what each variable and each object's
field refers to: it is the program's side, against which the counts are
compared. `stack[t]` has the objects whose `deinit_fn` thread `t` is running;
inside it the thread may do all it may do elsewhere, and in addition release the
field of *self*. `Free` is the return of `deinit_fn` and the `free` after it.
The program is constrained only in that it copies references it can reach, to
locations that are empty, and gives up references it holds.

### CycleCollector

`ReleaseLast` and `ReleaseCandidate` are the two branches of
`release_cycle_candidate`. `Exit` is `exit()` calling the handler. The
collector's loop is `Skip`, `Keep`, `ForceFree` (which starts `deinit_fn`) and
`Finish`, with `ReadFreed` for a candidate whose header is gone; `Free` takes
the loop up again when the `deinit_fn` the collector called returns. Program
code runs in between, as `deinit_fn` allows. After an access to a freed header
(`wild`) nothing is defined and the behaviour stops. Counts change in one step:
the candidate list is thread-local, and the interleavings of counts are
`ArcRuntime`'s.

### HashMap, KeyValueMap

One module for map and set, which have the same code but for the values; `kind`
is fixed by the create function. A probe sequence is `Probe(table, h, i)` for
i = 0, 1, …; the loops of the code become the least i at which a search stops
(`Stops`) and the tombstones before it (`Tombs`). `Rehashed` moves the entries
to a table of twice the size by the table's *own* hash `Rehash`; the caller's
hash is `Hash`. `KeyValueMap` is the promise: a finite map (or set) with the
same five operations, whose answers are in `last`. `IsAMap` is the refinement.

### SwissTable, KeyedTables

The table of the compiler itself, `src/common/raw_hashtable.h`: groups of slots
with a metadata byte each, probed by triangular numbers over the groups. A slot
is empty, deleted or its entry; the seven bits of the hash kept in the metadata
only narrow a search that compares keys, and are left out. There is an action for
each function of the interface: `Insert`, `Update`, `Erase`, `Clear`, `Reset`,
`GrowToAllocSize`, `GrowForInsertCount`, `CopyAssign`, `MoveAssign`. Growth is
`GrownSlots` (every entry probed for anew) or `Regrown`, the doubling that copies
the groups and moves only the entries a probe had displaced.
Two tables share the heap (`heap` is the set of blocks that are
allocated), so that copies and moves between a table inside its object
(`SmallSize`) and one on the heap, and of a table to itself, can go wrong.
`KeyedTables` is what `map.h` promises: independent maps, one of which may be
moved from and may then only be given a new value.

### EventLoop

`tasks[0..count-1]` is the array; index i of the code is `tasks[i + 1]`. A pass
of the `for` loop is `Skip`, `Call`, then `Suspend` or `Complete`, and
`EndPass`; between `Call` and the return of `resume_fn` the task may submit
others (`Submit`), block on one or start a timer. `Submit` has the branch where
`realloc` fails. `status` and `turns` are history: what became of each task, and
who had a turn in this pass.

### ParseNodes, Parser, MCParser

The stack of C++ calls is `code`, the steps still to do, innermost first. A
parse function is an operator that, where the current token selects a branch,
gives the steps of that branch (`Choose`, `CallFunction`); what is decided at a
later token is a step of its own. `Consume` and its siblings are the ways the
code takes a token: after looking at it, unseen, or with a check that aborts.
`MatchOpenCloseTokens` is the end of the lexer, in `Init`. When the parser is
done, `TakeNode` reads the list of nodes from its beginning, as the constructor
of `TreeAndSubtrees` does, with the child counts and brackets of
`typed_nodes.h` (`ParseNodes`). `crossed` and `strays` are history.

### Statements, StatementMeaning, ControlFlow

`Statements` begins with the part of the checker's `Context` that builds a body;
each handler of `handle_stmt.cpp` is an operator that returns the changed context. Conditions are siblings of their statement, as in the parse
tree, and pass through the same pending fields. `ControlFlow` generates SIL from
the blocks in one walk over their list (`EmitFunctionBody`), fixes up the
branches, verifies, and then *runs* the function: its actions are the
instructions, and what a call returns is chosen when it is made. `trace` is
compared with `StatementMeaning`, a structured walk over the same tree without
blocks, and with the checker's interpreter, which `ControlFlow` begins with.

### Operators … Expressions

Straight-line programs go the whole way: `Operators`, `Collections` and `Calls`
are the handlers of `handle_expr.cpp` and `handle_decl.cpp` and add
instructions to a context that persists from one statement to the next
(`c`: scope, tables of collection variables, pending types). `SilGen` turns
them into SIL, with the holes that operands without a value leave. `Lowering`
and `Execution` say what lowered code does when it runs: values have the width
of their LLVM type, memory consists of objects of a family (stack storage,
string, array, dynamic array, dictionary, set, instance), and `bad` gathers what
no program should do. `ExpressionMeaning` is an interpreter of the syntax tree
over values. Its `ok` is false for programs of which no claim is made: Swift
does not accept them, they trap, or they are of a kind marked *not as Swift*,
listed in section 8.

### CommandLine, CheckContext, Declarations, Compilation, Driver

`CommandLine` is the parser of `command_line.cpp`, one operator per function,
over words that are already split at `=`; its last section declares the options of
the driver's commands as their `Build` functions do. `CheckContext` has scopes,
access levels, lookup, and what is pending; `Declarations` the handlers of types,
members, functions and extensions and the four passes of `check.cpp`, in one
context for all files, and the members written for conformances
(`synthesis.cpp`), which `Evaluate` runs on objects.

`Compilation` is `CompileSubcommand::Run`: an action per phase and file, with its early ends, the buffers of diagnostics, and what is
written at the end. What lexing or parsing a file reports is given by the
`world`. The checker is a parameter, as in the code, where it is a function the
driver calls with one context and the tree of a file (`Checker`, `FreshContext`);
the run gives it that of `Declarations`. `Driver` is around it: installation,
command line, `format`. `DeclarationMeaning` says what the names of a program
stand for, of the whole program at once, and what the context must hold when the
driver has had it checked.

### ArcInsertion

Two phases in one behaviour. In `"check"` the actions are the checker's handlers
and append to `code`: `Declare` (with its retain and `AddClassCleanup`),
`Assign`, `Discard`, `Use`, `Defer`, `BeginIf`, `EndIf`, `Return`,
`ReturnNothing`, `EndBody`. In `"run"` the code that was inserted is executed,
along either branch, with real counts. A statement form for which the code is
wrong is recorded in `forms` and named in the exception of a property, so the
properties say exactly where the code is right.

### SilOptimizer

A function is built statement by statement in the shapes `sil_gen.cpp` emits
(one block, or an entry block, the block of an `if` and the block after it).
`DefiniteInitialization` (with the verifier before it), `Mem2Reg`,
`ARCElimination` and `DeadCodeElimination` are one action per pass, each the
whole pass over the function; the last decides on another round, and at the end
verifies. `accepted` is `success_`: as in the driver, nothing stops when it is
false. Properties compare `fn` with `source` by executing both along every path
with symbolic values (`Run`): a trace of calls, prints and returned values, and
the count of each object.

### LanguageServer, DiagnosticsFeed

The server reads a message, handles it to its end and writes at most one message
(`WriteMessage` waits for room in the pipe); one action per handler, with its
early returns. The editor is external. It keeps to what the server declares at
`initialize` (each change carries the whole text) and sends nothing after
`exit`; otherwise it edits, asks, closes, sends unknown methods, messages that
are not objects or not JSON, and closes its end, whenever it likes. A text is
the number of the edit that made it, and stands for what is computed from it.
`DiagnosticsFeed` is the promise: for each document the results of its states
are shown one after the other, none skipped, none for another document.
The mapping takes as *due* the diagnostics on their way to the editor followed
by the updates on their way to the server.

## 4. Runs, bounds and results

Twelve runs, all of which must pass. The number is kept small so that they can be
repeated with every change; a property therefore often has named parts, each
stated on its own in the module.

| run (module, cfg) | distinct states | bounds |
|---|---|---|
| `arc` (MCArcRuntime) | 15,525 | 2 threads, 3 variables, 2 objects, `MaxRef` 2 |
| `cycles` (CycleCollector, MCCycleCollector) | 23,299 | 2 variables, 2 objects, 3 candidates |
| `event_loop` (EventLoop, MCEventLoop) | 30,560 | 4 tasks, one without `resume_fn`; capacity 1, 2, 4; 1 suspension |
| `hash_map` (MCHashMap) | 270,994 | capacity 3, grows to 6; 4 keys, 2 values; map and set |
| `swiss_table` (MCSwissTable) | 43,629 | 2 tables (symmetric), 3 keys, groups of 2, sizes 4 to 16, 3 heap blocks |
| `parser` (MCParser) | 647,261 | 19 files of all constructs, with one edit each; 4,394 chains of operators |
| `control_flow` (MCControlFlow) | 235,105 | bodies of statements one and two levels deep; 6 answers |
| `expressions` (MCExpressions) | 20,269 | 12 menus of statements, programs of up to 4; `Int` of 5 bits |
| `driver` (MCDriver) | 49,888 | 7,573 command lines and worlds; see below |
| `arc_insertion` (ArcInsertion, MCArcInsertion) | 4.4 million | 5 statements, 3 locals (symmetric) |
| `optimizer` (SilOptimizer, MCSilOptimizer) | 1.1 million | 4 statements, 7 values, ≤ 3 blocks |
| `language_server` (LanguageServer, MCLanguageServer) | 529,882 | 2 documents, 2 edits, 2 requests, pipes of 2, text 2 too large |

**arc.** `CountIsExact`: a count is the number of references, modulo the word,
between any two atomic steps. `NoDanglingReference`: what a variable or field
refers to is alive, even while an overflowed count waits for `abort()`.
`DestroyedOnce`, `LastReleaseFrees`: a block is destroyed by one activation of
`deinit_fn`, and never missed. `UniqueIsSole`: `is_unique` stays right until its
thread calls again. Two threads are enough for every race of two operations;
three variables let one thread hold two references while another holds the third;
with `MaxRef` = 2 the third reference overflows; two objects with a field each
give re-entrant destruction of depth two. The proofs (section 6) remove the bounds.

**cycles.** `SafeUntilExit`: until exit, the collector's release is as good as
the ordinary one. `GarbageIsCollected`: an object that only fields hold is in the
list, unless the list has overflowed (`GarbageIsCandidate`); what was freed is
purged from it, whatever `deinit_fn` appended (`CollectedIsPurged`); and the
two-object cycle of the code's comment is collected (`PairsAreCollected`).
`CollectionEnds`. Two objects make the smallest cycle, and three entries are
fewer than the releases that can happen, so the list overflows in most behaviours.

**event_loop.** `QueuedOnce`: the array has each queued task once, through
growth, failing growth and removals. `OneTurnPerPass`: round-robin. `LoopEnds`:
each task with a resume function is run to its end, and the loop returns unless
it is given a task without one, for which it spins forever. Four tasks pass two
doublings and allow a removal from the middle while two others move.

**hash_map.** `TableIsSound`: no history leaves a stored key behind an empty
slot or stored twice (`EveryKeyIsFound`, until the first growth: section 7), the
count is exact, across growth, and a search always finds a place to put its key
(`SlotIsLeft`). `IsAMap`: until the first growth every call does what
`KeyValueMap` says. Four keys, of which two collide and whose cluster wraps round
the end of the table, with three slots of which two may be occupied, give every
mixture of tombstones, occupied and empty slots.

**swiss_table.** `TableIsSound`: every key is met by its probe, and the growth
budget is the number of insertions the empty slots allow. `StorageIsOwned`: each
heap block has exactly one table, and no table one that was freed.
`ReserveSuffices`: after `GrowForInsertCount(n)` there is room for n, whatever
tombstones there are. `ImplementsMaps`: two tables are two independent maps
through every operation. Groups of two slots, three keys of which two share a
group at every size and the third only in the smallest, and sizes 4, 8 and 16
give full groups, displaced entries, growth in place and growth by rehashing;
two tables give every combination of small and heap storage in copies and moves.

**parser.** `ParsingEnds`: on every file. `TreeIsSound`: the depth of types is
given back on every path, and a file accepted without a diagnostic is a tree in
which no node takes the opening of another construct (but for five kinds named in
the module: section 7). `BracketsAgree`: what is accepted has every bracket closed
where the lexer closed it. `BindsByPrecedence`: a chain of operators is the tree
its precedences say. The files contain every construct of the grammar once; one
token cut off, removed or inserted (of nine that begin or end something) reaches
the error paths. Chains have three links of thirteen kinds: two operators are
needed to compare, a third to nest.

**control_flow.** `RunsAsWritten`: what the function does, call by call, is what
its statements mean for the answers it was given, and it ends where they do.
`VerifierAccepts`: the verifier accepts the function and no operand is missing
when the walk over the blocks reaches it. `ComptimeAgrees`: the interpreter of
`#comptime` functions does the same. Every statement stands around and inside
every other that it can interact with (loops in loops, switches, `do` and `defer`
in loops, loops in branches); six answers run a loop twice and leave it from the
second iteration. Deadlock is checked: a run ends in `Done`.

**expressions.** `RunsAsSwift`: the program is accepted and prints, calls and asks
of the system what Swift says, in that order. `NothingIsLost`: no instruction is
left out for want of an operand, and every function gets the arguments it has
parameters for. `RuntimeCallsFit`: the runtime is handed what its functions are
made for, and stores fit their storage. A menu holds the statements that make one
part of the language meet itself; four statements are a declaration, two changes
and a use. `HasMeaning` cuts off what follows a program without meaning, which has
none either. `Int` has five bits: what overflows them traps in Swift and is no
claim here.

**driver.** `ArgumentsAreApplied`: options have the last value given, all values
in order, or their default; positional arguments have the words that are no
option. `DiagnosticsAreShown`: each is shown once, none stays in a buffer, those
of a file in their order. `ErrorsStopCompilation`: nothing is generated from a
program with an error, and a run succeeds only if nothing was reported.
`CheckedAsSwift`: every name means the declaration Swift says, what is not visible
is an error and nothing else is, functions have their own modifiers, and the
classes traced for cycles are those that can reach a class.
`SynthesizedAsWritten`: the synthesized members compute what their protocols ask.
The scenarios are 1,440 programs of two files in which a set of types and a set
of functions come in every order that keeps a superclass before its subclass,
split between the files at several places; structs of every list of at most three
fields over three types; command lines of up to two words behind `compile` and
`run` (three behind `compile`); and worlds with files that are missing, are no
files, or report errors in any phase, with a faulty prelude, without an
installation, a target or a linker, and with outputs that cannot be written.

**arc_insertion.** `SafeAccess` and `CleanupIsComplete` (`NothingLeaks`,
`ReleasedInReverse`, `ResultIsAlive`, `DefersHaveRun`), for every body of up to
five statements on every path, outside the named forms. Every object but the one
returned has to be freed, and the one returned to be alive: `return v` is the
exception that `ResultIsAlive` names, as it releases `v` with the other locals.
Discarded objects (`C()` as a statement) belong to no local and are not counted
as leaks. Five statements are a declaration, a copy, a
`defer`, an `if` and an early return, in any order; no handler looks further back
than the two stacks.

**optimizer.** `SameTrace`: a function does the same after the passes.
`OwnershipIsKept`: the retains and releases that go are matched on every path
(`CountsAreKept`) and none is needed (`ObjectsStayAlive`). `VerdictIsSound`:
nothing that is removed or renamed is needed (`DefinedBeforeUse`), a rejected
function is wrong and every optimised function verifies
(`RejectedIsUninitialized`). Four statements are what a hazard needs: a
declaration, two writes and a read, or an object, two copies and a use.

**language_server.** `RepliesAreRight`: every request is on its way in, on its
way out or answered, once and in order (`AnsweredInOrder`); an answer is about the
text the document had when the editor asked (`AnswersAreCurrent`); at rest, what
is shown belongs to the text (`ShownIsFresh`). `ImplementsFeed`. `ServesAndEnds`:
nobody waits forever, and the exit code tells whether `shutdown` was asked for.
Two documents show independence, two edits an open, change or reopening, pipes
of two messages a full pipe on both sides. Deadlock is checked here, in
`control_flow` and in `hash_map`; the other programs may stop, and their
configurations say so.

Every property was also checked against a faulty variant of a definition it
depends on (a dropped test, an off-by-one, a swapped order, a missing reset); the
variants stand beside the definitions they vary, marked *Mutant*, and TLC finds
each of them.

## 5. Fairness

* `arc`: weak fairness of `Return` (a thread inside the runtime gets on with its
  call; the scheduler suspends none forever) and strong fairness of the return of
  each activation of `deinit_fn` (it is user code that ends; strong, because the
  return is not possible while the code makes another call).
* `cycles`: weak fairness of the collector's own steps. That each `deinit_fn`
  ends is the hypothesis of `CollectionEnds`, not assumed of the program.
* `event_loop`: weak fairness of the loop: a single thread that runs, resume
  functions that return, and a program that calls the loop when it has tasks.
  Submissions, `block_on` and timers are not fair.
* `language_server`: weak fairness of the server's loop and of the editor's
  reading. Nothing is assumed of what the editor sends.
* `parser`: weak fairness of `Next`: a single thread that runs. That it ends is
  then that no infinite sequence of its steps exists.

The other specifications need none: their properties are invariants, action
properties or refinements of safety specifications.

## 6. Proofs

`ArcRuntimeProofs` proves for any finite sets of threads, variables and objects
and any width of the count: `TypeCorrect`, `CountCorrect` (`CountIsExact`),
`ReferencesCorrect` (`NoDanglingReference`), `DestructionCorrect`
(`DestroyedOnce`), `UniqueCorrect` (`UniqueIsSole`) and `TouchCorrect`: no step
changes the count of a block that is free. The last is proved outright and has no
run.

Assumptions: the sets are finite, and names of different kinds differ
(`SetsAssumption`); each variable belongs to a thread (`OwnerAssumption`); there
are at most `MaxRef` = 2^31 - 1 threads (`WidthAssumption`). The last is needed:
each thread may have incremented a full count and not yet called `abort()`, and
with more than `MaxRef` of them the word would wrap round to a positive number.

The invariant `IInv` is the conjunction of the properties and of four parts that
make it inductive. `RetainsHold`: a retain in progress has reserved its
destination, and its object is alive or is the one the thread is destroying (the
count was then 0, and the thread will abort). `LastHolds`: between the
`fetch_sub` that takes the last reference and the call of `deinit_fn`, the block
is unreferenced and only that thread will destroy it; without it two releases
could each believe they were the last. `WidthHolds`: not counting the threads
about to abort there are at most `MaxRef` references; without it a wrapped count
could read 1. `SoleHolds`: the variable `is_unique` answered for is still its
thread's. The argument: `Wrapping` says that up to 2 * `MaxRef` increments are
undone by as many decrements and that a positive word is the number itself;
`Counting` that there are never more references than that; `CountTells` draws the
consequences (0: none, 1: exactly one); `CountMoves` how one step moves count
and references together; `Reachable` that what a thread can name is alive. Then
one lemma per action.

`EventLoopProofs` proves for any set of tasks, first capacity and number of
suspensions: `TypeCorrect`, `QueueCorrect` (`QueuedOnce`), `RoundRobinCorrect`
(`OneTurnPerPass`) and `CallKeepsSlotCorrect`: while a resume function runs,
nothing it does moves its own task. To the properties `IInv` adds `Position` (i
points at the task that runs) and `TurnsAreSubmitted` (only submitted tasks had a
turn, so a new one in the middle of a pass has its turn ahead). `AppendSlots` and
`WithoutSlots` say what submission and removal do to the array. `CallKeepsSlot`
has no run of its own: it is proved outright.

`CycleCollectorProofs` proves for any finite sets of variables and objects and
any room for candidates: `TypeCorrect`, `SafeUntilExitCorrect` (`SafeUntilExit`)
and `CollectionCorrect` (`GarbageIsCollected`, all its parts). Assumptions: the
two sets are finite and their names differ (`FiniteAssumption`,
`NamesAssumption`), and the room is a number (`CandsAssumption`). What makes the
invariant inductive is that it weakens at exit, where the collector frees objects
that fields still refer to. `BeforeExit`: until then every reference is to a live
object and every count is exact. Afterwards only bounds hold (`CountsBounded`): a
live object counts at least 1 and no fewer than what variables of a running
`deinit_fn` hold, no more than its references; and those variables hold live
objects (`InnerAlive`). `Nested`: each object on the stack of `deinit_fn` calls
is being destroyed, once, and no variable of a call that returned holds
anything. `AtExit`: only the object at hand, and what its destruction calls, is
destroyed. `CollectedIsGone`: what was collected is free and no candidate.
`Awaited`, without which garbage could be forgotten: unless the list overflowed,
a live object that no variable holds is in the part of the list the loop has yet
to look at, or has two fields referring to it. `Gained` and `Lost` say what one
reference more or less does to the numbers, `HeldAlive` and `AtHand` which objects
a step may name; then one lemma per action.

`HashMapProofs` proves for any keys and values, any pair of hash functions, any
first capacity and any load limit below 100 percent: `TypeCorrect`,
`TableCorrect` (`TableIsSound`) and `MapCorrect` (`IsAMap`): until the table grows
it implements `KeyValueMap`, call by call, answers included. Assumptions: the
hashes are numbers (`HashAssumption`), the capacity is positive and the limit
between 1 and 99 percent (`CapAssumption`), the answers of `contains` and a failed
`get` are no values (`AnswerAssumption`); the number of keys is not bounded. To
`TypeOK` the invariant adds that the count is that of the occupied slots and that,
while the table has its first capacity, it is `Reachable`: no search for a stored
key ends before the key's slot. That is what a removal that leaves a tombstone
keeps and one that leaves an empty slot would not, and what an insertion into a
passed tombstone keeps only because the search has gone on to make sure that the
key is not behind it. `ProbesVisit` says that probing visits every slot once (the
arithmetic of the remainder), `SearchFacts` and `ReachableFound` where a search
ends, `SlotForKey` that a table with a slot that is not occupied has one for every
key; `PutFacts`, `ReplaceFacts`, `RemoveFacts` and `RehashedFacts` what the
operations do to a table, growth by an induction over the slots moved (a least
counterexample among the numbers). `StoreFacts` gives the map a reachable table
is in terms of its searches; `StorePut` and `StoreRemove` carry it over a change
of one slot.

`SwissTableProofs` proves for any tables, keys, values and hashes, any group size
that is a power of two, any load limit and any bound on the sizes:
`StorageCorrect` (`StorageIsOwned`); and, provided that `Clear` is not called on a
table with a group of nothing but deleted slots (`~ClearsAnything`, section 7),
`TableCorrect` (`TableIsSound`), `ReserveCorrect` (`ReserveSuffices`) and
`MapsCorrect` (`ImplementsMaps`). That condition is needed: TLC finds
`TableIsSound` violated with `ClearsAnything = TRUE`. Assumptions: the sizes a table
may begin with are powers of two, multiples of the group size and no smaller than
the load divisor, as the static assertions on `SmallSize` and the value of
`MinAllocatedSize` have it, and so are the sizes asked for powers of two, which
`GrowToAllocSizeImpl` checks (`SizesAssumption`); the allocator has a block for each table and one more
(`HeapAssumption`: allocation does not fail); hashes are numbers
(`HashAssumption`). The invariant of storage (`StorageInv`) adds to
`StorageIsOwned` the shape of the tables and that the size tells where the slots
are (`SizesTell`). That of the entries (`AllKept`) says of each table in use that
its slots are of a legal size, hold no key twice, that the probes for a stored key
reach its group before they reach one with an empty slot, and that the budget is
the threshold less the slots that are not empty, so that a slot is always empty
and every search ends. Under it lies arithmetic that the provers only find in
small steps: `Division`, `Bezout` and `OddFactor` give that a power of two has no
odd factor, from which `ProbesVisitAllGroups` (the n-th probe is the n-th
triangular number behind the first; no two of them coincide modulo a power of two).
`InsertIntoEmptyIs` and `LookupIs` say where a search ends, `ReinsertedHolds` and
`WidenedHolds` that rehashing and the doubling in place keep the entries and leave
none deleted, `HomeDoubles` that an entry at home stays at home in one of the
halves. `ThresholdGrows`, `ThresholdCovers` and `ReservedIsEnough` are the
arithmetic of the budgets. `MapIs` gives the map that slots stand for;
`EntryAdded`, `EntryWritten` and `EntryErased` carry it over a change of one slot,
and there is one lemma per call for what it does to the maps.

`LanguageServerProofs` proves for any documents and texts, any sizes, any numbers of
edits and requests and pipes of any capacity: `TypeCorrect`, `RepliesCorrect`
(`RepliesAreRight`) and `FeedCorrect` (`ImplementsFeed`). Assumption: `NoUri` names no document (`UriAssumption`). The
invariant follows a text through the server. `TextAfter` is the text a document is
going to have when the server has handled the next n messages of the pipe:
`TextsArrive` says that after all of them it is the editor's, `QueriesAreTimely`
that when a query's turn comes it is the text the editor had when it asked, and
`ResultsArrive`, of the other pipe, that after all of the replies the editor shows
what the server last published for the text it has. The messages in the pipes are
sound (`MessagesAreSound`), and the numbers of the requests in the first pipe,
followed by those of the answers in the second and those received, ascend without
a gap or a repetition (`AnsweredInOrder`). One lemma per handler, over lemmas on
queues that lose their head or gain a last message. The refinement adds that what
is published is the diagnostics of some text (`PublishedAreResults`), so that a
result due is the same before and after the server has computed it. `Due` is a
recursive function over the two pipes; `ListsExist` and `ResultsAreListed` give it
its defining equations, `AppendedResult` and `NextResult` what a message at the end
or the head of a pipe contributes, each by the least place where it would fail.
From these: an update makes one result due and nothing else does (`UpdateIsDue`,
`MessageIsNotDue`); taking it up moves its result from one pipe to the other without
changing the order (`PublishedStaysDue`); what the editor receives was due first
(`ReceivedIsDue`).

`ArcInsertionProofs` proves for any finite set of locals and bodies of any length:
`TypeCorrect`, `AccessCorrect` (`SafeAccess`) and `CleanupCorrect`
(`CleanupIsComplete`). Assumptions: the locals are finitely many, so that the
references to an object can be counted, the bound on statements is a number
(`FiniteAssumption`), and `None` is no local (`NoneAssumption`). A body is *plain*,
*tidy* or *ordered* when it uses none of the forms the properties except. The
invariant has two halves. `CheckInv` says of the code emitted, statement by
statement: an exit runs through, its first release being behind everything bound
so far and its first deferred block behind every `defer` so far (`ReleaseSound`,
`BlockSound`, `ExitSound`); in a plain body a local is bound once, in front of its
uses, and a copy directly behind its retain (`BindingSound`); the n-th `defer` is
that of the n-th block (`DeferSound`); a branch leads behind code that binds and
defers nothing, and never into the middle of an exit or between a retain and its
copy (`IfSound`). Without the last an early return would release what the path
that skipped it never bound. `RunInv` says of the function at an instruction: what
was released is an end of the cleanups, and the exit under way releases the rest
(`ReleasesRun`, `ReleasesRunOn`); exactly what precedes is bound (`SlotsAreBound`);
the count of an object is the number of locals that refer to it and were not
released, and one more between a retain and the copy (`CountsAreRight`); a
discarded object is in no other local (`TemporariesKeep`); what is handed over is
evaluated directly in front of the exit and a local refers to it, and but for a
`return v` nothing is released behind it (`ResultIsHeld`), so that its count is
not zero (`ResultLives`); the blocks due are those reached, less those run (`BlocksAreDue`). `OldMeaning`,
`OldSound` and `AddSome` carry the soundness of old code over an append,
`ExitIsSound` establishes that of a new exit; then one lemma per statement and per
instruction.

`DriverProofs` proves `ErrorsStop` (`ErrorsStopCompilation`) for any command lines,
files and faults, and for any checker that takes back no diagnostic. Assumptions:
a command line is a sequence of words and the places of a file's errors are numbers
(`ScenariosAssumption`); and, a hypothesis of the theorem, there is a set of
contexts that the checker stays in and in which a pass over a file leaves at least
as many diagnostics as it found (`CheckerAppends`). The code's checker is of this
kind: it holds a `DiagnosticEmitter` and can only emit. So is that of
`Declarations`, whose one line that changes the diagnostics appends to them; as its
handlers are `RECURSIVE`, that is read off the module and not proved. The
assumption is needed: a checker that withdrew an error after the driver had looked
at its verdict would let the code be generated.

The invariant says at each place of a run what was reported and what may still be.
Until the units are there nothing was (`Idle`, `AtCompile`). While files are read,
nothing was reported exactly if no unit has failed, and a unit in front of the one
at hand that has not failed has a source (`AtLex`, `AtParse`). What the checker
reports is kept by its context and not by the units, so in `AtCheck` nothing was
reported exactly if neither a unit has failed nor the context holds a diagnostic.
From `AtSil` on nothing was reported at all, which is why the verdict on a unit that
code generation overwrites (section 7) can no longer hide an error: only the first
unit may fail, and it does if the SIL was rejected (`Built`). `AtExit` has what was
written and the result. That `compile`
has a unit to begin with is a fact about the parser of the command line, without
which a run without files would succeed with nothing written: the invariant `Sound`
of parsing (the values of `FILE` are those of the words assigned to it, and at the
end a required argument has one) goes through the words of a line (`ReadSoundly`)
to `ParseIsSound`. The folds over words, letters and units are recursive functions,
which exist by a least counterexample; then one lemma per action.

Everything else is model-checked only: every property not named above. Out of
the prover's reach, and left to TLC: liveness and `ENABLED` (`LastReleaseFrees`,
`LoopEnds`, `CollectionEnds`, `ServesAndEnds`, `ParsingEnds`); and facts that need an
induction over data, such as what the scan of Mem2Reg, the handlers over syntax trees or the symbolic execution compute
for every input. `RECURSIVE` operators are only used in the modules about syntax
trees (statements, expressions, declarations), which have no theorems.

## 7. Where the code and its own words disagree

Found while modelling. Where a model reaches the behaviour, a property names it
as its exception, or the instance leaves it out, so that the properties hold and
say where the code is right; section 8 lists the forms of programs.

| the sentence | what the code does |
|---|---|
| "Skip already-freed objects (refcount <= 0)", `tinyswift_runtime.c:158` | the last release frees an object and leaves its entries: the collector reads a freed header (`ReadFreed`, `wild`) |
| "empty - not found", `tinyswift_runtime.c:1194` | growth places entries by a hash of its own, callers probe with another: stored keys are missed (`IsAMap` ends at the first growth) |
| "The return value (if class-typed) is excluded from cleanup", `handle_stmt.cpp:76` | all locals are released, the returned one too (`ResultIsAlive` names it as its exception) |
| "the value stored MOST RECENTLY BEFORE that load", `mem2reg.cpp:45` | a store to a field is not seen (`StoresField`) |
| "never eliminate the ownership release", `arc_elim.cpp:174` | with two returns, the releases removed are those of one path |
| the budget is "always" the threshold "minus the number of non-empty (filled or deleted) slots" (`raw_hashtable.h:115-118`) | `Clear` leaves a group of nothing but deleted slots as it is, and counts its slots as empty (`ClearsAnything`) |
| `ConsumeChecked` "Emits an error diagnostic if it doesn't match", `parse/context.h:77` | it aborts (`parse/context.cpp:48`) |
| "Values are always attached using an `=` after the name", `command_line.h:97` | `build`, `run` and `test` pass `--output` and the path as two words (`build_subcommand.cpp:149`), which their own parser rejects: they always fail |
| "circular dependency detected" (`build_subcommand.cpp:220`) | the message for any package that two others depend on |

Also shown by the models or read beside them:

* *ARC insertion*: a class-typed `var` is released by the address of its storage;
  a declaration or a `defer` in a branch belongs to the function; deferred blocks
  run after the locals are released, and not at all when the body ends without a
  `return` (against `examples/18_advanced_features.swift:24`); a `return` without
  a value and the implicit return release nothing.
* *Optimizer*: copies of a call's result lose their releases; definite
  initialisation accepts a load that comes before the store.
* *Event loop*: it never returns once it has a task without a resume function.
* *Interpolation*: digits are read into four bits each and the highest bit is
  taken for a sign (`handle_expr.cpp:286-294`, 394-411), so `"\(8)"` prints -8 and
  `"\(x + 9)"` adds -7 (`InterpolatedInt`; no other literal is changed).
* *Synthesized hash*: it has the whole part of a `Float` and the length of a
  `String` only (`synthesis.cpp:635-649`), so objects that differ in a fraction or
  in characters hash alike (`DifferInOneNumber`).
* *Lexer*: with two or more unmatched openings, the list of recovery tokens is
  written out of its range; the recovery closings do not nest.
* *Parser*: in `f(); }` the closing brace is parsed as a statement and diagnosed
  (`parse_stmt.cpp:380`); `try a + b` leaves `+ b` outside; `let (.a(x, y))` closes
  the wrong bracket; a parameter without a type, an enum case without a payload,
  an `is` pattern, `#warning` and `#error` have fewer children than their kind
  declares, so they take another construct's or abort (`MayBeShort`).
* *Command line*: a required first positional argument is skipped by `-- --`;
  `run x -- …` fails.
* *Driver*: code generation overwrites the verdict of a unit
  (`compile_subcommand.cpp:671`), so a program whose SIL fails verification is
  compiled with success; checker diagnostics of all files go through the first
  unit's consumer, sorted by offsets of different files; the default output is
  named after the first unit, a file of the prelude where there is one; `format`
  reports lexical errors, drops the characters and rewrites the file with success.
* *Build*: archives of dependencies precede the libraries that need them;
  `target.dependencies` is not used; `run --release` is not passed on.

## 8. Limits of the models

* Memory is sequentially consistent. In the code `retain` is relaxed, `release`
  is acquire-release and `is_unique` an acquire load. All of them are on one
  word, whose modifications are totally ordered, and a read-modify-write reads
  the last of them, so the counts are what the model says; whether an object's
  *payload* is seen in time by the thread that destroys it is not modelled.
* `malloc` and `calloc` do not fail, except where the code has a path for it.
* `ArcInsertion` has no loops, `guard`, `switch`, closures, fields of class type
  or calls of user functions; `SilOptimizer` no loops, block arguments, closures
  and class-typed vars, and leaves out the return analysis.
* `CycleCollector` has one field per object, so no cycles through two fields of
  one object, and one thread. In `HashMap`, `eq_fn` is equality and the two
  hashes are fixed functions.
* `LanguageServer` does not compute diagnostics, hovers or completions: an answer
  names the text it was computed from, or is empty.
* `Parser` sees tokens, not characters: a kind, the spelling where the parser
  looks at it, and the spacing in front.
* Bounds, by name: `MaxEdits`, `MaxRequests`, `Capacity` (`LanguageServer`),
  `MaxLeft` (`EventLoop`), `MaxCap` (`HashMap`), `MaxAlloc`, `Count`, `AllocSize`,
  `HeapBlock` (`SwissTable`), `MaxStmts`, `MaxId` (`ArcInsertion`, `SilOptimizer`),
  `MaxAnswers` (`ControlFlow`), `MaxLen` (`Expressions`).

The properties of the compiler are about these programs, and not about those
that follow, which it is known to treat otherwise.

**Statements** (`control_flow`): `&&`, `||`, `?:` and `try` in the condition of a
`while` or `repeat`, which are evaluated once (`examples/sorting.swift:61`); `if`,
`while` or `guard` directly in a `case` (`bugs/bug_26`); `do` whose `catch` falls
through, whose body leaves, or with two clauses, which all run; code after a
`return`; `break` and `continue` out of a body with deferred blocks, or a `return`
inside a loop of a function that defers; `throw` past deferred blocks; `defer` in
branches, `repeat` and loops over generators; a `guard` that does not leave; `try`
outside `do`, `throw` inside it; `break` in a `switch`, which leaves the enclosing
loop; arms of values and ranges mixed; a loop variable's name used twice
(`bugs/bug_93`); `guard let` (`bugs/bug_121`). In `#comptime` functions: `else if`
does nothing, `&&` and `||` evaluate both sides, `where` of a `for` is ignored,
and `break`, `continue`, `guard`, `repeat` and `switch` are not supported.

**Expressions** (`expressions`): assignments to a `let`, and of a collection to a
variable (the tables keep what it was declared with), copies of arrays,
`isEmpty` and `append` of literal arrays, collections in a `let`, `let x = []`
(`bugs/bug_154`), stores to elements of dynamic arrays; a dictionary type whose
variable is not initialised with a dictionary; values of dictionaries other than
`Int`; `d[k] = nil`; sets of doubles; printing of `Bool` and `Double`; the
literals 8 and 9 between the parentheses of an interpolation; `==` with
`nil`; compound assignments of mixed types; `??`, which evaluates its right side;
overloads of comparisons; `x!` of `nil` and overflow, which are not checked;
comparisons of strings as operands of other operators (`lower.cpp:1126`);
assignments to fields of class type (`bugs/bug_11`, `bug_134`); closures held by a
`var` and changes of captured variables; mutating methods on a `let`; calls with
labels, defaults or a number of arguments Swift would refuse, which pass.

**Declarations** (`driver`): a subclass in front of its superclass, which inherits
nothing; modifiers in front of declarations that do not take them, which a later
function takes in a later pass (`check.cpp:131`, 228-254), and `#comptime`, which
is never cleared (149); members after a subscript or a nested type, which lose the
enclosing type because it is cleared, not restored (`handle_type_decl.cpp:611`);
method bodies that use global functions, later types or later members, and bodies
of extensions that use members without `self` (`bugs/bug_49`), which do not
resolve; unqualified calls of inherited methods; members that extensions add to a
superclass; two `fileprivate` functions of one name; `private` at the top level,
which is visible everywhere; bodies of protocols and defaults of their extensions,
which are not used (`bugs/bug_119`); access levels of members, which are not
checked; fields of a class type declared later, for which cycle capability is
missed. **Synthesized members**: `==` of enums, which is always true; members for
subclasses, which read fields by the position among their own; `<` of strings,
which compares addresses; the text of `Bool` and `Float` fields, printed as `Int`.
What the hash promises beyond equal hashes of equal objects is no rule of Swift's:
here it tells apart what differs in one `Int` or in the whole part of one `Float`.

**Not modelled at all**, and why: see the dashes in section 2.

## 9. Plan

Written so far, in order of importance: reference counting, the insertion and the
optimisation of retains and releases, the runtime's tables, loop and collector,
the language server; then the compiler's passage from text to code: parser,
statements, expressions, declarations, driver with its command line, and the hash
tables it rests on. Proved: reference counting, the event loop, the cycle
collector, the runtime's hash tables and the compiler's own, the language server,
the insertion of releases and deferred blocks, and that the driver generates
nothing for a program with errors.

What would come next:

1. `SilOptimizer`: that a pass preserves the trace, one pass at a time.
2. `ArcInsertion` on the blocks of `Statements`, with loops, and composed with
   ARC elimination: a body is checked, optimised and run.
3. Specialisation of generic functions and types, and witness tables, over
   `Declarations`.
4. `build`, `run` and `test` with their manifest, once a build can succeed.
5. The I/O polling composed with `EventLoop`, once something calls it.

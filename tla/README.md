# A TLA+ development of the metacompiler

The metacompiler reads an annotated EBNF, an *a-grammar*, parses a text with it and
runs the JavaScript tags of the grammar over the result. The tags of its larger
grammars are compilers and interpreters themselves: they run on a runtime written in Go
(`abnf/jsrt.go`) or are compiled to LLVM IR and run on the *C floor*
(`languages/lib/runtime.c`). This directory models the parts in which a mistake is
hardest to find with a test, checks them with TLC and proves the invariants of ten of
them with TLAPS:

* how a grammar is put together, parsed with, and its tags run (`Assemble`, `Parser`,
  `Walk`), and how the compiled tags are cached between processes (`ScriptCodec`, `ScriptCache`);
* the two runtimes' generators and exceptions (`GenFloor`, `GenTwin`, one abstract
  protocol), the goroutines and panics of the Go dialect (`GoRun`), promises and async code
  (`Promises`);
* memory: the C floor's collector (`Collector`) and the reclaiming of handles by the IR machine
  (`Recycle`);
* the regular-expression engine with the methods of the languages that share it (`Regex`), and the
  lists, sets, dictionaries and enumerators of four languages (`Library`).

All source lines are those of `PROJECT.json`'s `map`, which names for every definition
the code it stands for.

## 1. The system

| Component | State | Operations | Interacts with |
|---|---|---|---|
| C floor: generators, try (`runtime.c` 3530-4010, 5780-6010) | generator cells, control blocks, `RES_*`, `JBP`, `JB_DEPTH`, `CUR_GEN`, `THROWN`, one pthread per body | `gen_new`, `gen_resume`, `gen_return`, `gen_throw`, `gen_close`, `js_yield`, `coro_entry`, `js_try`, `js_throw` | the collector scans the parked stacks and barriers it records |
| C floor: collector (`runtime.c` 380-1010) | arena, chunk bitmaps, free lists, mark stack, threshold | `ar_alloc_k`, `gc_collect`, `gc_mark`, `gc_trace`, `gc_sweep` | every allocation of the runtime may collect |
| C floor: scopes, values, strings, host functions | cells in the arena | the rest of `runtime.c` | allocate, throw |
| Parser (`abnf/parser.go`, `parserscript.go`) | text and position, block list, found list, whitespace memo, the a-grammar | `apply`, `ruleEnter`, `ruleExit`, `skipSpaces`, inline commands, `ParseWithAgrammar` | `:script()` rules call back into the text and position; its ASG goes to the compiler |
| References, includes, terminal merging (`parser.go`), verifier (`verifier.go`) | the a-grammar's productions, the set of included files, the ASG | `correctReferencesAndIDs`, `:include()`, `mergeTerminals`, `Verify` | before and after the parse |
| Compiler (`compiler.go`, `compilerscript.go`, `commonscript.go`) | the ASG, `up`, `ltr` and `stack` of the tag scripts, a code cache | a post-order walk with a merge of upstream values, tags, nested compiles | runs tag scripts |
| Scripts (`frozen.go`, `scriptcache.go`, `scriptcodec.go`) | in-memory map and an on-disk cache | freeze, load with a pool of goroutines, store | several processes share the directory |
| Go runtime: control (`jsrt.go`, `jsrtjsprint.go`, `jsrtgolang.go`) | generators on goroutines and channels, promises, async bodies, the microtask queue, Go's queue of goroutines, channels, defer and panic stacks | resume, yield, throw; then, resolve, await; go, send, receive, select; defer, panic, recover | called by compiled scripts and each other |
| Go runtime: regular expressions (`jsrtregex*.go`) | a compiled program, registers, back-tracking frames, `lastIndex` | parse, emit, run; match, scan, split, replace of five languages | callbacks of replacements |
| Go runtime: containers (`jsrt.go`, `jsrtjsprint.go`, `jsrtkotlin.go`) | headers over shared cells, dictionaries with a key index, enumerators | the methods of lists, sets and dictionaries | blocks that change the list a method walks |
| Go runtime: values, operators, other libraries (`jsrt*.go`) | values in a handle table | the operators and libraries of sixteen languages | run by the compiler's tags |
| LLVM machine (`llvmmap.go`), linker (`llvmlink.go`) | frames, registers, memory; modules | interpret, reclaim handles; merge | third-party library underneath |
| Call graph, imports, output, command line | - | reports and I/O | - |
| Grammars and runtimes in `languages/` | - | programs for the parts above | - |

What is hard in it:

* *Two threads without a lock.* A generator body runs on its own pthread, but all
  threads share the runtime's globals; only the turn word of a control block keeps them
  apart, and each hand-over swaps four globals by hand. The Go twin does the same with two
  channels.
* *Exceptions across stacks.* `js_throw` is a `longjmp` to the innermost barrier of the
  *running* stack. A throw that leaves a body has to be carried to the resumer's stack,
  and a close travels as a sentinel exception that no catch clause may take.
* *Code that re-enters.* A channel receive runs other goroutines nested on its own stack; a
  thenable's `then`, an executor and a deferred function run inside what called them; a tag
  script starts another parse and another walk with the same compiler's variables.
* *Order.* Reactions, async bodies and requests to async generators are served in an order the
  program sees; upstream values are merged in the order of the text.
* *Memory that is found again.* Any allocation may collect, with any number of stacks parked in any
  state of a hand-over; the machine lets go of a handle when an analysis says that nobody
  can ask for it.
* *Memos and backtracking.* The parser has three position-keyed memos, mutable state in
  its scripts, a whitespace rule that changes inside a production, and a text that a
  script may replace. The regex machine undoes captures and marks by hand.
* *Processes without a lock.* Several processes, of different builds, read and write one cache
  directory and may be killed at any point.

What makes each component correct: both engines' generators implement the iterator protocol, run
with their own globals and never lose the control; the collector reclaims nothing that
can be reached and everything else, the machine nothing that is asked for again; the parser ends and
answers what the grammar means, whatever the memos hold; an include leaves no link
that points to another production than the one that was written; scripts see what is below them,
in the order of the text, once; a promise's reactions run once, in order and in the tick they should;
goroutines run once and in order, and `recover` takes the panic it should;
a reader of the script cache runs what its own build would have emitted; a match is the one the written
pattern prefers; a list method does what its name says, and its block sees members of the list.

## 2. Modules

| Module | Models or states |
|---|---|
| `GenProtocol` | the abstract iterator protocol: a chain of activations, `next`/`return`/`throw` |
| `GenFloor`, `GenFloorProps` | generators, try/catch/finally of the C floor; their properties and the refinement mapping to `GenProtocol` |
| `GenTwin` | the same on the Go twin's goroutines; properties and its mapping to `GenProtocol` |
| `GenTwinProof` | its inductive invariant, its theorem, and the proof that it implements `GenProtocol` |
| `ManagedHeap` | the abstract heap: the reachable stays as it is |
| `Collector` | allocation, marking, tracing, sweeping; properties and the mapping to `ManagedHeap` |
| `FloorProof` | the C floor's inductive invariants, of generators and of the collector, the theorems, and the proofs that they implement `GenProtocol` and `ManagedHeap` |
| `Assemble` | a grammar with its includes, links, commands, and the verifier |
| `Parser`, `ParserProps` | the parser as a machine of applications; properties of its stack and lists |
| `ParserRef` | the meaning of a grammar as one recursive definition, and the comparison |
| `ParserProof` | the inductive invariants of the parser and of `Assemble`, and the theorems |
| `Upstream` | what the upstream variables promise: one list by key, with marks |
| `Walk` | the compiler's walk and the tag scripts; the properties of scripts that nest |
| `WalkProps` | terminal merging, and the mapping of the walk to `Upstream` |
| `ScriptCodec` | the two forms of a cached module |
| `ScriptCache` | processes, their maps, their loading goroutines and the shared directory |
| `ScriptCacheProof` | the inductive invariants of the cache and of the walk's scripts, and the theorems |
| `GoRun` | goroutines, channels, defer, panic and recover |
| `GoRunProof` | the inductive invariant and the theorems |
| `Promises` | promises, async functions and generators, combinators, the microtask queue |
| `PromisesProof` | the inductive invariant and the theorems |
| `CombinatorsProof` | what it leaves open about combinators, and the theorem |
| `RegexSyntax`, `Regex`, `RegexMethods` | the pattern parser; emitter, machine, searches, scans, splits, replacements; the methods of five languages |
| `RegexProps` | the meaning of a pattern's tree, and the comparison |
| `Recycle` | the IR machine's reclaiming of handles on the value table |
| `RecycleProof` | the inductive invariant and the theorems |
| `Lists` | values, slices with shared cells and room behind their end, dictionaries with a key index |
| `RubyLibrary`, `JsLibrary`, `PyLibrary`, `KtLibrary` | the methods of a language on them, with the blocks they call |
| `Library` | a program that makes one call after the other; its properties |
| `Meaning` | what the methods' names mean, on sequences and maps |
| `LibraryCalls` | small lists, the calls that matter to each method, blocks that change the list |
| `MC...` | the TLC instances: `MCParser`, `MCGrammars` (`Assemble` and `Walk`), `MCMemory` (`Collector` and `Recycle`), `MCRuntime` (`GoRun` and `Promises`), `MCRegex`, `MCLibrary` (`Library`, and `Regex` with the instance of `MCRegex`), `MCScriptCache` |

Definitions whose comment begins with `Mutant` are the plausible bugs that the properties
have to notice; they are used by no specification.

### GenFloor

A stack is named by its owner, `Main` or a generator. `pc` says what it does (`run`,
`raise` between `js_throw` and its landing, `wait` in `gen_resume`, `entry` in
`coro_entry` before the first turn, `parked` in `js_yield`, `gone`). The variables have
the names of the code's globals; `turn`, `state`, `parked`, `threw`, `closing`,
`throwin` are the words 0, 1, 10, 11, 13 and 14 of a control block, and `d`, `e`, `f` the
fields of a generator cell. `frames` are the activations of `js_try` on a stack, `call` the
locals of a `gen_resume` that waits. Each action is one stretch of code between two points where
control may change: `gen_resume` up to its wait, from its wait to its return, `js_yield` up to its
wait and from there, `coro_entry` from its first turn and at its end, and one action per exit of a clause
of `js_try`. A program may do, at any time, anything a program can: create, resume,
return into or throw into any generator, yield, throw, enter a try statement, end a clause
(a finally clause also with a `return` or `break` of its own), return from the body or from main.

Abstracted: the mutex and the condition variable are the turn word (a waiter may go on
exactly when the word is its); the values are `Undef`, the close sentinel and members of
`Val`. `RES` is a sequence instead of four arrays with a counter. The registry of
control blocks (`CORO_N`) is the set of started generators.

### Collector

A block is a slot of one of two partitions, cells or raw buffers of one size class. `refs`
are the handles the program keeps in a place, `junk` the dead words found there, which a
conservative scan cannot tell from handles. An allocation is a request that collects
first if the mode (`MEC_GC`) and the threshold say so - `Roots`, `Trace` until `Drained`,
`SweepFree`/`SweepPast` until `Swept` - and then takes the free list's head or the
bump pointer's slot. All program steps happen between allocations, as in the code: the
runtime is single-threaded while it runs (`SidesAlternate`), so nothing changes the heap
during a collection.

`gc_trace` follows a cell's fields only as far as its tag says, which is sound only
because the program stores only certain tags in certain fields; `MayHold` is that
discipline.

All roots are one place, `CStack`. That the scanned stacks and barriers are the right
ones is `RootsAreSound` of `GenFloor`, not assumed here twice. Left out: blocks above 1024 bytes, which have a list of their own (all raw), the growth of the mark
stack, and the index from an address to its chunk.

### Parser

The Go recursion is an explicit `stack` of applications with their locals; `answer` and
`out` are what the last one returned. One action is one stretch of `apply` between two
calls: entering (`ruleEnter`: found, blocked or begun), skipping whitespace, evaluating
the parameters of a command, applying a child, and leaving (`ruleExit`). Every operator of `apply`
is there, with the inline commands `:whitespace()`, `:number()` and `:script()`; line commands take
effect at the start. A production is known by its number. A script is a function from
its own state to an effect: the next state, a new position, a replaced text, a rule it
hands back.

Abstracted: a character is one byte; positions in the products, messages and `-trace` are left
out; memo keys compare a whitespace rule by its structure where the code compares
pointers (the same for the rules of one grammar unless two are written alike, which then behave alike); numbers of
`:number()` stay below 2^31; `hasScript`'s walk over links is bounded by `LinkDepth`.
Links are resolved: `correctReferencesAndIDs` has run.

`ParserRef` has the meaning of a grammar and three history variables that no action reads. `borrowed` are the applications
whose answer depends on what runs around them: `-lb` has refused something inside them on account of an application outside, or a
`:script()` has run below one that the found list takes. `lent` are the entries of the found list that keep
such an answer, and `misled` says that one has been used. `MeansTheGrammar` and `MemosAreSound` speak of the rest; `FoundListIsPure` of all, and fails.

### GenTwin

The Go twin's `jsGenerator` with its two unbuffered channels. A goroutine that sends (`Step`; `Send`) waits for the other
side, and a send and its receive are one action, a *meeting*: `Deliver` on `resume`, `Take` on `yields`. `thisStack` and
`curGen` are globals that the resumer swaps before and after; an entry of `thisStack` names the
call that pushed it, so that `OneRunsOnItsOwn` can tell whose entries the running goroutine has. `frames`
are a goroutine's compiled calls and its `js_try`, whose clauses truncate `thisStack` to the depth
they were entered at. A program may call, enter a try, throw, return, yield (inside a body) and drive any
generator at any time. `ImplementsProtocol` maps it to the same `GenProtocol` as the C floor: `Chain` is Main, the body it waits for, and so
on to the goroutine that is active, and a step of the protocol is a meeting, or an operation that needs none.

### GoRun

One host stack. An activation is a compiled function - its body in `js_gotry`, its deferred functions in
`js_rundefers`, then `js_gorepanic` - or a drain (`goDrain`) inside a receive, range or select that found
nothing. `goPanics` and `goDeferAt` are the code's two stacks, pushed and popped where the code does; a host
panic unwinds one activation after the other, a drain's included. `Frames` are the places of functions on the host stack,
`Deferring` those in their deferred functions, and `Place` finds the entry of one in `goDeferAt`. Each step of the running function is an
operation of the program's *menu* (a set of operations and their number). `born`, `runs`, `sent` and `got` are history. The bound
of a million goroutines per drain is left out.

### Promises

`heap` holds the promises (state, value, reactions), combinators, async generators and the queue; `stack` the code that
runs: the script first, then one job after the other, with executors, first stretches of async functions and thenables'
`then` nested on their callers. Each operation of the library - `promNew`, `promResolve`, `promThen`,
`finally`, the static functions, the four combinators, `js_jsasyncfn`, `js_jsawaitv`, the requests and
the loop of an async generator - is an action or part of one. What functions answer and throw is open. A job carries its
*generation*, the tick it was queued in, as history. The generator below an async body is a frame here; `GenTwin`
has its hand-over.

### Assemble

A file system is a function from files (a directory and a name) to declarations: productions and the commands
`:include()`, `:whitespace()`, `:startRule()`, ... Of a body only the names used are kept. `Begin`, a step of the command
loop for each rule (`Pass`, `Whitespace`, `Include`; an include is one step with all that `applyCommand` makes of the grammar: `resolveRulesToToken`,
`correctReferencesAndIDs`) and `Start` are what `ParseWithAgrammar` does with a grammar before its start rule; several parses use one grammar, one after
the other or inside one another. `included` and the grammar survive a parse that failed. The verifier's undefined names and
unreachable productions are operators over the grammar that a use leaves.

### Walk

`calls` is the Go stack of `compile`,
`compileRule` and the running scripts; `maps` are the upstream maps, of which `up` names the one bound now. Scripts do any
accesses of `up`, `push()`, `pop()` and `c.compile()`. There is one key of each kind the merge tells apart (text, array,
other object). `WalkProps` begins with a graph as the parser leaves it (`raw`), which `mergeTerminals` has merged; that the code
compacts a list in place, in the array it reads from, is not modelled: the merge is an operator here. `Upstream` is the abstract side: one list by key; `Open`, `Take` and `Close` are marks in it.

### ScriptCodec, ScriptCache

A module is globals, functions and blocks of instructions; the binary codec writes its nodes by tables of fields,
with forward references and shared types, and refuses what it does not know, which then goes to disk as text.
`ScriptCache` has the processes: the key of an entry hashes the build and the source; `prefetch` hands jobs to a pool of goroutines
and takes results from a buffered channel; `compileScript` looks in the map, in the directory, and compiles; a write
goes to a temporary file that is renamed. A process may be killed at any step and an entry may lose its end.
`Readable` and `Unreadable`, which lengths of an entry read back, are computed by `MCScriptCache` with the
reader of `ScriptCodec`, so the two compose.

### Regex

`RegexSyntax` is the parser of patterns with the scans before it, over strings; classes are sets of codes below 128.
`Regex` has the emitter as operators and the machine as actions: one step of `run` at a time, with its
recursion (atomic groups, lookarounds) as `frames`, the step budget `StepLimit`, and searches, scans, splits and
replacements as the loops around it. `RegexMethods` has the methods of Ruby, JavaScript, Python, Kotlin and the C floor: a behaviour is
one regular expression and some calls on one text. Left out: case folding and classes
beyond ASCII, the objects that a language wraps around a match, and what callbacks do besides answering.

### Recycle

A program is a sequence of functions of a few instructions over registers (scopes, arrays, closures, the arena, calls, throws, loops with phis).
A value IS its handle; `cleared` are the table's empty slots. The analysis (`recycle`'s sets of results that die in their loop, of callees that
keep arguments, pins) are operators over the program, the machine's frames, calls, panics and step budget actions. Registers are pooled as in the code.

### Lists and the libraries

A value is a number, a constant or a row of values. A list is a header - how many of its cells it has - over cells that
may go on behind its end; `Lists` has the operations of Go on it: appending within the capacity, cutting,
copying, a walk with a header of its own on the same cells, out-of-range panics. A dictionary is two lists side by side and an
index of its keys. Each method of `rubyArrayMethod`, `jsvArrayMethod`, `pyListMethod`, `ktSeqMethod` and their fellows for sets and
dictionaries is an operator that answers an `Outcome`: the value, the list afterwards, what the block was called with, and
whether it raised or panicked. A block answers by a rule (`f`) and may call one method on the list at its first or second call. A
*behaviour* makes two or three calls in a row on one value. `Meaning` states what the names mean - a list is a sequence, a
method keeps some of its places, inserts between them or orders them - and knows of no headers and no loops. Where the code
leaves its language (section 3, *Containers*) `Meaning` follows the code, with the language named beside it.

## 3. Runs

Nine runs pass: TLC finishes without an error. Three state what a comment of the code says and end with a counterexample. A run of two
parts has a behaviour of one or of the other: their variables do not meet.

| Run | Instance | What it shows |
|---|---|---|
| `gen_floor` | two generators, symmetric, one value besides undefined, main's pool of 1 barrier, a body's of 2 | sides alternate and somebody can move unless a chain of waits comes back to itself, globals match the running stack, a collection sees exactly the live stacks and barriers, flags serve one resume, finally clauses are never skipped, closes pass catch clauses, what is thrown is neither dropped nor exchanged, the floor implements `GenProtocol` |
| `gen_live` | the same without values, fair | an exception stays on its way, the same one, over barriers, hand-overs and ends of bodies, and reaches a clause, its close or the end of the process; a close ends a body without finally clauses |
| `gen_twin` | two generators, one value, two calls or try statements deep | one goroutine runs at a time, on its own `thisStack` and `curGen`; the twin implements `GenProtocol` |
| `grammars` | `Assemble`: eight hundred file systems of up to three files and one input directory, two parses. `Walk`: graphs with empty, single and longer lists and nested groups, three accesses or nested compiles anywhere | the grammar holds everything it includes once, also after parses that failed, links point to what was written, positions never move, the verifier finds by name what a parse finds by position, names that no parse looks at apart; scripts see what is below them once and in order, and have their own variables back after a nested compile; merging tokens changes no meaning |
| `parser` | 14 grammars and 7 left-recursive ones over all texts up to 3 characters, 56 compositions over all texts up to 2, each in every setting of `-lb` and `-lf` | position restored on failure, exact block list, a verdict in the end; every memo entry right when it is made and the verdict the right one, but for what stands on a refused application or, under `-lf`, on a whitespace rule with a script |
| `script_cache` | two processes, an old and a new build, three scripts (binary, text, one that does not read back), two loading goroutines, one restart, one kill at any point, one cut entry | everybody runs what its own build emits, entries are whole and read back, work ends |
| `memory` | `Collector`: two cells, two raw buffers, four modes, two stack words, one word per block. `Recycle`: every loop around three instructions, loops that call or try ten functions of every habit | nothing reachable is swept, nothing else survives, free lists are exact, `ManagedHeap` is implemented, collections end; no handle goes that is asked for later, nothing that could go piles up |
| `runtime` | `GoRun`: menus of 9 operations on panics, 6 on goroutines and channels, 6 mixed; two channels, two panic values. `Promises`: nine menus: executors, thenables, async functions, async generators, finally, statics, combinators | every goroutine runs once and in order, values are received once and in order, `recover` takes the panic it should until a deferred function has itself panicked; reactions run once, in order, in their tick; an async body is at one place; requests are served in order; combinators settle as their elements say |
| `library` | every method of the four languages on small lists, sets, dictionaries and enumerators, two and three calls in a row, blocks that append, remove or replace. `Regex`: a quantified group around every small tree, nested groups, groups in lookaheads, a list of patterns for every form, flag and dialect; every method with positions, limits, templates | methods mean their names, blocks see members, dictionaries are maps whatever is shared below; the first match and its groups, those inside lookaheads apart, are those the written tree has, for every method |
| `parser_lists` | the left-recursive grammars of `parser` | violated: the found list keeps answers that the rule does not give by itself |
| `regex_looks` | patterns with a group in a lookahead | violated: a lookahead's groups stay when its branch has failed |
| `grammar_names` | the file systems of `grammars`, one parse, no walk | violated: a production that an include names is reported unreachable |

Why the bounds are enough. *Generators*: two are the least number that can drive each
other, interleave, or be resumed within one another (main -> g1 -> g2 -> g1); a body's pool of two
leaves room for one try statement (slot 0 is the stack's own
barrier) and makes the limit of both pools reachable. Try statements nested in one body do not occur in the run: for them `ClausesAreTaken` is
a theorem. *Collector*: two cells and two buffers are the least
heap with a cycle, an owner and its buffer, a buffer found without its owner, and a
free list of more than one slot; three words of threshold and stack make collections
start from every mix. *Assemble*: three files have a cycle, a shared include and an include of an include; two parses are
the least in which the first leaves something to the second. *Parser*: a memo needs a production that is applied twice at one
place, under two whitespace rules or once as whitespace; every case has that, and three
characters allow a match, a skip and a failure after it. `MaxDepth` (30) is above the depth of
every parse that is not left-recursive, so that the overflow is one that only left
recursion reaches. *Walk*: a value is lost or doubled where one list meets a
second, or where a nested compile returns: two siblings and one nesting have both. *Cache*: one writer and one reader of either build, and one entry
that each sees in every state. *Goroutines*: a drain
nested in a drain needs two goroutines that receive, a panic through a deferred function that recovers nine
operations. *Promises*: each menu is the least program with two registrations on one
promise, an adoption and a competing settlement; combinators have up to `MaxElements` = 2 elements, the least that tell all from any. *Regex*: the loops' hazards (an empty round, a group set in an earlier round, a way given up)
show within three rounds of trees of depth two. *Library*: lists of at most three elements with and without room behind their end; what goes wrong in
sharing takes one list cut from another and one write, and in a walk one change at its first or second round. *Recycle*: a handle escapes by an
instruction, through a callee, through a closure or through the next round's phi; three instructions and two functions contain each.

Fairness. `GenFloor!FairSpec` has weak fairness of `Wake` (a thread whose turn it is gets
scheduled: the condition variable is broadcast after every change of the word and
tested in a loop) and of `Unwind` (the thread that has called `js_throw` goes on to the
barrier; there is no wait in between). It assumes nothing of the program, which may run
for ever. `FairCollectorSpec` has weak fairness of the collection's own steps: `gc_collect` is
one call. `ParserRef!HistSpec` has weak fairness of the parser's step: one goroutine, which nothing else
can hold up. `ScriptCache` has weak fairness of each process's own steps, as the scheduler of the operating
system and Go's give it; starts, kills and cuts are not fair. The other specifications state no
fairness, and their runs check safety and refinement.

`CHECK_DEADLOCK FALSE` stands in every configuration because the modelled systems stop: a
program exits, reports a deadlock or hangs on reentry, a parse has its verdict, a menu is used up, and an allocation from a
partition with no slot left (where the code would map another chunk) is not answered.

Where the code differs from what its documentation, its comments or its grammars' users say, the
modules have the code's behaviour, and the properties are stated around it. Those of them that a run shows are marked with its name:

* *Generators.* A body that resumes its own generator, directly or through another, waits for itself, in both
  engines, against `runtime.c:3645` "at any moment exactly one side runs". Inside the clauses of a `js_try`, `new.target`
  is that of another call.
* *Collector.* `MEC_GC=3` collects at the threshold, as `runtime.c:6657-6663` explains, where `runtime.c:384` says "2 + poison".
* *Parser.* With `-lb` and `-lf` together, what was found under a blocked application is kept and answered later (`parser.go:166`, against
  230-235; `parser_lists`). `isPure` looks at the production only, not at the whitespace rule in effect, which may run a `:script()`
  (`tests/parser-state-memo-test.abnf:2-4`). The open bound of a repetition's count panics in the parameter loop (`README.md:884`). A `:whitespace()`
  below an Or, an Optional or a Repeat reaches the caller's sequence (`parser.go:299-302`). A
  start rule that fails on an empty text answers `(nil, nil)`, which `parser.go:1194-1195` reserves for a grammar without
  `:startRule()`. `:number()` skips no whitespace (`README.md:872`).
* *Assemble.* An include is marked before its file is read, so a second parse after a failure lacks it without a word (`parser.go:78`); the
  grammar's own file is not marked, so a fragment that leads back to it fails with "defined multiple times" (439-442); a computed
  include resolved beside another input is a second file; a start rule in a fragment is not seen; a production that only an include names is reported
  unreachable (`verifier.go:11-13`; `grammar_names`).
* *Walk.* The shape of `up.*` depends on the number of siblings: a single rule's map passes unmerged (`README.md:1058-1062` says arrays). `c.localAsg`
  is not restored after a nested `c.compile`.
* *Scripts.* A module with a forward reference between globals is written but never read back; constants that are functions go to the text form.
* *Goroutines and panics.* A deferred function that panics leaves `js_rundefers` at `jsrt.go:12895` with its entry still on `goPanics`
  (comment 12674-12678); `PanicsAreGos` says nothing of what follows. A receive in a goroutine that a drain runs reports a deadlock though the receive below it could go on (`jsrt.go:1990`, 2050).
* *Promises.* A promise resolved with a pending one can be settled by a second resolve or reject (`jsrt.go:836-840`). An async
  generator whose finally clause throws under `return()` loses its requests (`jsrtjsprint.go:1911`); a rejected promise that is yielded ends it without
  its finally (1975-1979); the operand of `return` is not awaited.
* *Regular expressions.* Captures written in a lookahead are not undone (`jsrtregex.go:1426`, against 1340-1342; `regex_looks`); `rxCountGroups` takes a `]` that is
  first in a class for its end and counts parentheses in comments; a group that refers to itself may end before it begins; Python's `\g<10>` becomes
  `\1` and a 0, and its `split` drops an empty match at the end; JavaScript's `split` with limit 0 gives `[""]`, `sticky` is ignored by `replace` and a global
  `match`, `matchAll` resets `lastIndex`; Ruby's and Kotlin's `split` cut behind the character after an empty match.
* *Containers.* Ruby's slice outside a list answers `[]`, not nil; `all?`, `any?` and `none?` never stop early, and `all?` compares with the length the list has
  afterwards; `take_while` and `drop_while` cut the list as it is afterwards; `max_by` takes the last maximum; `[nil, nil].sort` raises; an `insert` far behind the end, and a
  hash whose block removes entries from it during `each`, panic; a `cycle` whose list the block empties never ends. Kotlin's `subList` reaches to the capacity, where stale
  cells are. JavaScript's counted walks panic when the block shortens the list. A list is the key of a Python dictionary by identity.
* *Recycle.* A handle that was released reads as undefined, where `releaseHandle`'s comment says that it "fails loudly".

## 4. Theorems

TLC looks at small instances. The theorems hold for every value of the constants, with
the assumptions the modules name: `NamesAssumption` of both generator modules, `CapAssumption` and `NoneAssumption`
(names are distinct, pools not empty), `FramesAssumption` (a stack holds a call), `SlotsAssumption`, `ThresholdAssumption` and
`ModesAssumption` (slots are numbers, finitely many, of one partition each), `BoundsAssumption`
(the parser's stack holds one application), `TextsAssumption` (a text is a sequence of characters), `SystemsAssumption` (a file is a sequence of
declarations or holds no grammar, and the grammar's own file is there), `CacheAssumption` (entries have a length, there is a processor), `GoMenusAssumption` and
`NilAssumption` of `GoRun` (operations are counted; nil is no panic value), `ProgramsAssumption` (the functions of a program are well formed: single
assignment, arguments and phis as their instructions need them), `MenusAssumption` and `ValuesAssumption` of `Promises` (operations are
counted, their values are the program's; promises are told from other values, and only thenables have a `then`). TLC evaluates them in the runs, with
`LoadsOrNothing` of `MCScriptCache`, by which every length of an entry that
the codec reads gives the module that was written.

**Generators of the C floor** (`FloorProof!Invariance`, `Spec => []IInv`). None of the properties is
inductive: that code runs with its own globals depends on what the resumers parked,
and that on who may wake. `IInv` is their closure: `ChainInv` (the parked resumers form a chain: main waits for
a generator, that one for the next, each once), `ParkedInv` (what a resumer has parked
is what it had when it ran), `SchedInv` (only the target of the innermost resume may run, be
about to run or about to answer; everybody else's turn word is against them), `CbInv` (a
control block describes its thread), `FrameInv` (the k-th try statement was entered at
depth k), with `TypeOK` and `OwnsGlobals`. The proof has a lemma for each group of
actions. From it follow `TypeCorrect`, `GlobalsOwned`, `Alternation` (`SidesAlternate`, from `NeverTwo` and
`NoLostControl`), `RootsFound` (`RootsAreSound`, from `RootsAreExact` and `BarriersAreScanned`) and
`FlagsConsumed`, and the action property `ClausesTaken` (`ClausesAreTaken`, from `FinallyRuns`, `ClosesPassCatch` and `ExceptionsKept`). That somebody can move (`NoLostControl`) is read off the chain: it ends
in a stack that runs, raises, ends a body or has an answer to take, unless its last call is into a stack that is itself on the chain (`WaitsForItself`).

`ProtocolImplemented` states that the floor implements `GenProtocol`: every step of it is a step of the iterator protocol or
none. It needs more than `IInv`, namely `ProtInv`: `FlagInv` (a flag belongs to the resume that is on its way), `CellInv` (a cell that is not made is unused, one that has ended does not
run, and only an ended one says that its body threw), `SentinelInv` (`GenExit` is only on its way on a stack that is being closed, or in
an answer to a `return`) and `ThrownInInv` (no program throws the sentinel in). The proof reduces the mapped state to a few views - while a stack runs
the chain is that of the parked resumers and the running stack, and while a hand-over is on its way it is what the answer will leave -, so that each
action has one lemma that names the protocol's action it is: `CreateMaps`, `BeginMaps`, `ResumeMaps`, `AtOnceMaps`, `YieldMaps`, `ReturnMaps`,
`ThrowMaps`, `EndMaps`, `BackMaps`, `TryMaps`.

**Generators of the Go twin** (`GenTwinProof!Invariance`, `OneRunning`, `ProtocolImplemented`). Where a goroutine is decides where its
stack of this is: `StacksInv` says for each position whether it is `thisStack`, in the locals of a `step()` or in the fields of a generator, `SchedInv` that one
goroutine is active and that each body that has the control, or has lent it, has one resumer, `FieldsInv` what `started` and `done` say of the goroutine,
`FrameInv` at which depth a try statement cuts `thisStack`. `OneRunsOnItsOwn` follows.

`GenTwinProof!ProtocolImplemented` states that the twin implements `GenProtocol`, too. It needs three facts besides: `FreshInv` (a body that waits for its first resume has
the resumer, and it asks `next`), `SentinelInv` (`GenExit` is raised, held back in a finally clause or on its way out only in the body of a generator that
is being closed, or was, and no operation takes it for a value) and `ChainInv` (finitely many goroutines wait, and the chain from Main ends in
the active one). There is only one such chain (`OneChain`, by the least index where two would differ), so that each action's lemma exhibits the next one: `DeliverRefines`
appends the body, `ChainShrinks` drops it, and a `Quiet` step keeps all. A `Step` into a running body is the protocol's `Hang`, any other is none of its business
until the meeting.

**Goroutines and panics** (`GoRunProof!Invariance`, `PanicsExact`, `DrainsExact`). `PanicsAreGos` is not inductive because a deferred
function that panics leaves entries on `goPanics`: `Slack` says that above the entry which a deferring frame names there is one for
each function above that frame, and perhaps more. `Shape` is the host stack's (what runs above a deferring frame is the function it deferred),
`Unwinding` what a panic on its way leaves open, `Counts` that a goroutine still to be made has its counter. `Place`, the number of frames up to one, needs an
induction over the places; it is done with the least counterexample of `WellFoundedInduction`, which takes a set and no operator.

**Promises** (`PromisesProof!Invariance`, `JobsInPlace`, `BodiesResumedOnce`), for every menu, any number of promises, functions, generators and requests,
and combinators of any number of elements. That adoptions take two ticks and that bodies are resumed once support each other: a
promise settles in the right tick because nothing but the job of its adoption settles it, and an async function is at one place because nobody has the functions of its promise. `PInv` is that
closure over heap and stack. `PromOK`: of what could settle a promise - a frame, a queued reaction, one that waits, the job of an adoption - there is one at most
(`OnePlace`), unless the program settled it although it was resolved (`again`); one that settled while it followed another has that one's state, and its tick. `FrameOK`, `ReactionOK` and `JobOK`: who
settles a promise without functions for the program owns it (`Owned`); an adoption under way is the one its promise was resolved with; a job says what its promise says. `CombOK` and
`RequestsOK`: nothing else settles the promises of combinators and requests. `GenOK` and `Served`: what a generator has told, and that it has a place exactly while it serves. `Follows`: a
promise that follows another has something under way. `Gens`: the queue holds jobs of this tick and then of the next. `InOrder` is the property itself, kept by each
operation. The proof is built like the code: an *effect* lemma says what an operation makes of the parts of a heap (`SettleEffect`,
`ThenEffect`, `AdoptEffect`, `MakeEffect`, `TakeEffect`), one more that it keeps the invariant, where the steps in between owe something - the promise whose job was taken, the
generator that has been answered (`All(h, st, P, G, X)`) -, and the operations the program calls are composed of these. That `agPump` answers any number of requests at once
is an induction over the requests (`Answering`), in set form as for `Place`.

`CombinatorsProof!CombinatorsExact` needs more: the counter of a combinator is the number of its elements that have not reported, but `PInv` does not say which these
are. Its invariant `CInv` reads that off the heap: an element whose reactions are still to run has not reported, and no element has two of them; the counter is the
number of results less those that are `Counted`; the combinator's promise waits as long as no element has decided (`Unanswered`), or has the state that the elements
call for (`Answered`); and the elements that the running loop has not registered yet are its own (`Owing`). Steps that report nothing
leave all of it as it is (the lemmas on `Aside`), so that only those on combinators remain (`Combining`).

**The script cache** (`ScriptCacheProof!Invariance`, `BuildsStayApart`). `CacheInv` (an entry is of its key, and whole unless something was cut), `MineInv` (what a process holds, reads and
writes is of its own build) and `PoolInv` (the goroutines of a pool have all ended before its process does anything else) give
`RunsWhatItsBuildEmits`. The hypothesis `ReadsBack` - a whole entry of every key but the `Unreadable` ones is readable - is the codec's
part, which the run computes with the codec's own reader.

**Reclaiming of handles** (`RecycleProof!Invariance`, `EscapesKept`, `LoopsLeaveNothing`). A handle is *at risk* when it may be released and is not pinned. `HeapInv`: nothing in the table or the arena
holds one. `InPlace`: a register does only if it is the slot of the call that made it, or the argument array of a callee that merely reads it, which a frame below
has *lent*. `Apart`: no two slots hold the same one, so that a release takes nobody else's. `LiveInv`: what the slots of frames that go on hold is not cleared; the
frame that fails may have released and not made anew, and ends before it reads (`Going`). `OwnInv`: what is at risk and still in the table is in a slot,
which is `NothingPiles`. The program is any: the proof goes through the analysis's definition of what escapes.

**Collector** (`FloorProof!CollectorInvariance`). `MarkInv` is the tricolour invariant - roots
marked, and what a marked block off the mark stack refers to is marked; `HeldInv` keeps handles
within held blocks and their tags within `MayHold`, without which `gc_trace` would not follow
them; `SweepInv` says that the unmarked is still to be swept; `FoundInv` that every mark is
owed to a path from the roots. From it `SlotsSound` (`SlotsAreSound`, from `HeapTypes`, `HandlesAreLive` and `FreeLists`),
`GarbageGoes` (`SweepsAllGarbage`), and `CollectorImplementsHeap`: the collector
implements `ManagedHeap`, every step being a step of it or a stutter, for any heap.

**Parser** (`ParserProof!Invariance`, `FailuresRestore`, `BlockedByTheRunning`, `ListsExact`). An application is called at the
position its caller recorded (`Chained`), begins there (`EntersHere`), and gives the
position back when it fails (`FailureGivesBack`), for every grammar, text and setting of
the flags, scripts that move the position included. What blocks an application still runs, with nothing assumed either. That the block list is exactly the
applications that run has a hypothesis, `SwapsOutside`: a script that replaces the text, which clears the list, does not run below a production that the list
knows. `isPure` is there to ensure it and does, except through a whitespace rule that runs a script (section 3).

`StaysInTheText`: every position - the parser's, its applications', the memos' and the found list's - is within the text that is there, also when a script
replaces it (`TypeOK` of `ParserProps`, strengthened by `TInv`). This is no matter of the code alone, so it has the hypothesis `GrammarObeys`: tokens have a length, the count of a
`:number()` is a number of bytes, and a script moves within the text and replaces it only by one that reaches to where the running applications began.
The first two are what the parser of a-grammars makes; the scripts of the repository do the third, and where one does not the code panics (section 5).

**How a grammar is put together** (`ParserProof!AssembleInvariance`, `LinksStay`, `NamesAgreeWithPositions`, `GrammarHoldsItsFiles`), for every file system. `AInv`:
the rules stay rules with links inside the grammar, and from the command loop on no name is defined twice and every link is at the position of its
name. `LinksStay`: an include extends the grammar (`Extends`), and what extends it and is corrected keeps the links that were found (`Keeps`), since the
position of a name that is defined once cannot move. `NamesAgreeWithPositions`: the verifier's closure by name (`Reached`) and the parser's by position (`Applicable`) are both
least sets. The second is within the first, and the first is the second but for what `Idle` names lead to, those of includes and of commands
that are not in effect; the theorem leaves open whether the verifier counts these (it forgets those of includes, `grammar_names`). `GrammarHoldsItsFiles`: `FInv` says in addition where the stamp of the grammar's own file is, and that the command loop
has left no whitespace command between the one in effect and its index.

**The walk's scripts** (`ScriptCacheProof!WalkInvariance`, `ScriptsRun`), for every graph, any scripts and any nesting. `WInv`: the scripts that run are
numbered by nesting; each has an upstream map of its own, knows the one that was bound when it began, and the innermost one's is bound. So a script that ends binds
what its caller had, and what it did to its own map is nothing to those that wait.

**Only model-checked.** Liveness (`ExceptionsArrive`, `ClosesEnd`, `Terminates`,
`CollectionsEnd`, `WorkEnds`): the prover has no fairness. `MeansTheGrammar`, `MemosAreSound`, `RegexesMatch`, `ImplementsUpstream`, `MethodsMeanTheirNames`, `BlocksSeeMembers`,
`DictionariesAreMaps`: meanings are recursive operators over data, for which the prover has no induction, and a module that declares one cannot be reasoned about at all.
`AssemblesTheClosure`: that the files included are the least set closed under includes. `HoldsItsFiles` and `LinksHold` are proved of it; what is left compares them with a set that takes, for a name that
stands for a file, every directory that a text of this grammar was parsed in. That is an upper bound of what the parses have read, and exact only where every file with such an include was read in the
first parse, as in the run's file systems.

## 5. Not modelled

| Part | Why |
|---|---|
| values, operators, strings, numbers, host and library functions of both engines besides the containers | sequential data operations and conversions |
| containers of the other languages | most share the slices and the dictionary of `Lists`; their methods are in the plan |
| C floor: scopes | in the plan |
| LLVM machine besides `Recycle`, linker | arithmetic and memory layout of an interpreter of IR on a third-party library; the linker is in the plan |
| growth of `CORO_N` (`runtime.c:3812`) | a finished generator's control block stays registered; a bound over unboundedly many generators is no property of a finite instance |
| a position behind the end of the text set by a script (`parserscript.go:78`) | the scripts of the repository do not; `Parser` has the panic for counts |
| call graph, imports, output, command line | pure reports, file access, messages |
| grammars, runtimes in MetaJS, bash and batch | programs that run on the parts above |
| viewer, editor support, tools, tests | not part of the compiler |

## 6. Plan

Done: the modules of section 2 and the theorems of section 4. Left, in this order:

1. `Scopes`: `scope_put` over a growing hash table of the C floor, with a collection at each allocation, against the scopes of the Go runtime.
2. The containers of PHP, C#, Swift, Java, Dart and Lua on `Lists`.
3. `LlvmLink`: the merge of modules.
4. `Handoff`: mutex and condition variable refining the turn word of `GenFloor`.
5. The collector's list of big blocks; `ltr` and the global stack in `Walk`; the verifier's other notes.

## 7. Running it

    tlc -config GenFloor.cfg GenFloorProps.tla
    tlc -config GenFloorLive.cfg GenFloorProps.tla
    tlc -config GenTwin.cfg GenTwin.tla
    tlc -config ParserLists.cfg MCParser.tla
    tlc -config RegexLooks.cfg MCRegex.tla
    tlc -config GrammarNames.cfg MCGrammars.tla
    tlapm FloorProof.tla

and likewise for the other configurations, each `X.cfg` with `MCX.tla`, and the proof modules. The longest runs (`gen_floor`, `gen_twin`,
`script_cache`) take two to four minutes on two workers. The proofs take from a minute (`ScriptCacheProof`, `ParserProof`) to six
(`GoRunProof`, `FloorProof`, `CombinatorsProof`), and a quarter of an hour for `PromisesProof`.

# Helix, specified and checked

Helix (`src/helix`) is a compiler for a small imperative integer language: it
parses source straight into a graph of value nodes, rewrites the graph while it
is built, evaluates or optimizes it, and emits x86-64 code that is run in place
or written to an object file. This directory holds TLA+ modules of its core
algorithms, the TLC runs that check them and the theorems TLAPS proves.

The program is single-threaded. What is hard in it is not interleaving but
order: which value is computed where, which register holds which value at which
instruction, what a rewrite does at the edge of the integer range, which of two
memory operations comes first. Its own test strategy is differential (the
interpreter against two code generators). The models do two things more: they
say what each pass must keep true, checked or proved pass by pass, and they run
the whole compiler, from tokens to executed instructions, against a meaning of
the source that knows nothing of graphs.

## Inventory

| Part | State | Operations | Correct when |
|---|---|---|---|
| **World** `ir.cpp`, `ir.hpp` | `nodes_`, `intern_`, the function, condition and loop tables | smart constructors (`konst`, `binop`, `cmp`, `neg`, `bit_not`, `select`, `load`, `store`, `pure_load`, `make_cond`, `make_loop`, `make_loop_multi`, `proj`, `call`), `begin_func`, `end_func`, `keep_funcs` | equal structure is one node; every rewrite keeps the value at every width; a node never changes; operands precede their users |
| **Scheduler** `schedule.cpp` | region tree, region of each node, pre/post buckets | `build_schedule` | a value is emitted where every reader finds it, inside the arm or loop it belongs to, the exit test before what must not run on the last round |
| **VCode lowering** `backend2.cpp` `Lowerer` | blocks, current block, node-to-vreg cache, parameter bindings | `lower`, `lower_cond`, `lower_loop`, `lower_loop_multi`, `lower_call` | the VFunc computes what the graph denotes; carried variables are updated simultaneously |
| **Register allocator** `backend2.cpp` `allocate` | live sets per block, intervals, the active list, registers and spill slots | `allocate` | no value is overwritten while it is wanted; as few spills as possible; callee-saved registers are marked |
| **Encoder** `backend2.cpp` `FnEncoder` | code bytes, labels, relocations, the frame | `encode`, prologue, epilogue | scratch registers never hold a value across an instruction; the frame's parts do not overlap; division never traps |
| **Assembler** `x64.hpp` | bytes, labels, fixups | one method per instruction form, `bind`, `finalize` | every jump lands on its label |
| **Simple backend** `backend.cpp` `FuncGen` | a stack slot per node, the set of computed nodes | `emit_value`, `emit_cond`, `emit_loop` | same as lowering, without registers |
| **JIT and object layout** `backend2.cpp`, `backend.cpp`, `coff.cpp` | function offsets, relocation lists, symbol table | `jit_compile_ra`, `compile_module_obj`, `write_coff_x64` | a call reaches the function it names |
| **Interpreter** `eval.cpp` | per call: bindings, memo, cached loop results; fuel | `eval`, `eval_loop`, `eval_call`, `run` | each load and store once per round; no value after fuel ran out |
| **Frontend** `front.cpp` | tokens, the environment, the mutable variables, the memory token | recursive-descent parsing into the World | assignments are carried through branches and loops; one chain of memory tokens |
| **Optimizer** `opt.cpp` | clone maps | `inline_call`, `inline_into`, `optimize_module`, `reachable_functions` | inlining keeps the value; no live function is dropped |
| **Verifier** `verify.cpp` | visited and on-stack sets | `verify_func` | reports every cycle, dangling operand, and forked memory token |
| Disassembler, printer, driver, fuzzers, tests | | | text and I/O, no logic the others rest on |

How they interact: the frontend calls the World's constructors for every
expression and the interpreter for compile-time calls; the optimizer clones
graphs through the same constructors; both backends call `build_schedule` once
per function and then lower the nodes of each region in bucket order; the
register allocator sees only the VFunc, the encoder only the VFunc and the
allocation; relocations tie the functions together at the end. All calls are
synchronous and nothing is persisted: there are no messages, crashes or
timeouts in this system. The only things that can run out are registers
(spilling), interpreter fuel and recursion depth.

The hard behaviours, each at its line, are in `PROJECT.json` under `hazards`.

## Plan

Done, in this order: the register allocator (`LinearScan`, `Allocate`); code
placement (`Schedule`); the graph and its rewrites (`Words`, `World`,
`Reductions`); the interpreter (`Interp`); the parser and the meaning of the
language (`Front`, `Source`); lowering, encoding and the processor (`Lower`,
`Layout`, `Encode`, `Machine`); the simple generator (`SimpleGen`); inlining
(`Inline`); the verifier (`WellFormed`, `Verify`); the composition of all these
(`Compiler`); object files (`Object`); the run of generated code by itself
(`Run`); encoding and linking by themselves (`Backend`).

    Words -- IR -- World -- Reductions
              |
              +-- WellFormed -- Verify
              |
              Semantics -- Interp -- Front -- Source ---+
                |            |                          |
                |            +------- Inline -----------+
                |            +------- Lower             |
                |                       |               |
                |                     SimpleGen --------+-- Compiler
                |                       |               |      |
              Machine ------------------+            Backend  Allocate
              |     |                                  |      |
           Layout   +-- Encode, Run -------------------+   LinearScan
              |
            Object

Abstract specifications: `LinearScan` is what `Allocate` implements; `Source` is
what every way through `Compiler` must agree with; `Run` asks of the code it is
given only its shape, `Backend` asks of the programs it encodes only that
they are allocated and end their blocks, and implements `Run` (a theorem), and
`Compiler` implements `Backend` (checked); `WellFormed` is what `Verify` is to
find out; the patches of the JIT are what a linker must make of `Object`.

Left, in order of worth: a check that the placement `Lower` computes is one that
`Schedule` allows; proofs of what `Compiler` preserves, for which its recursion
over programs would have to become functions; the byte encodings of the
assembler.

## Modules

### LinearScan

The second half of `allocate()`: given one closed interval `lo[v] .. hi[v]` per
virtual register, hand out registers and spill slots. A step is one iteration
of the loop over `order`: `TakeFree` when a register is free after the expiry of
old intervals, otherwise `SpillSelf` or `SpillOther`, by which interval ends
last. `free_reg` and `reg_used` are the sets of registers whose flag is set.
`std::sort` does not fix the order of equal keys, so ties are free choices.

### Allocate

The whole of `allocate()`. It extends `LinearScan`: `VisitBlock` is one block of
one backward sweep, `NextSweep` the test of `changed`, `BuildIntervals` the
`touch` loops, `ScanOne` a step of the scan. Instruction operands come from
`Def` and `Uses`, the code's `operands()`. The reference it is checked against
(`TrueLiveness`) knows nothing of blocks: which instruction may follow which,
and from where a vreg is read before it is written.

### Schedule

`build_schedule()`. A function graph is a record of nodes. `Visit` collects the
nodes reachable from the results; `PlaceCond`, `PlaceLoop` and `PlaceOther` are
one iteration of the placement loop, with every `demand` it makes (`Settle`);
`StartCone` and `Cone` mark what must precede a loop's exit test; `Bucket`
fills `pre` and `post`. The code places nodes in the reverse of one depth-first
post-order; the model allows any order that has all users of a node first, so
the results do not depend on the traversal. `parent` and `depth` become the set
of ancestors of each region, and `lca` the deepest common one (`Meet`), which
`MeetExists` proves well defined. `break_val` and `break_vals` are one set.

### Words, IR, World and Reductions

`Words` is `int64_t` with `Word` bits, one narrower integer type with `Narrow`
bits, `trunc()`, and what the operators of C++ do with two words. Pointers are
64-bit integers to the code that matters here and are not told apart from them.

`IR` is `ir.cpp`. A constructor is an operator from a world and its arguments to
`[w, id]`, the world after the call and the node returned, so constructors that
call others (`binop` asks `konst` for a shift count, `make_cond` asks `cmp`)
compose as in the code. The actions of `World` (`AskBinop`, `AskCond`, ...) are
the callers: each asks for one node of nodes there are. `interned` is the set of
ids in the intern table; the hash, which only finds candidates that `node_eq`
then compares, is left out, and so are names and the hit counter. The sentinel
node 0 is `NONE` and not in the arena. A conditional's and a loop's parts stand
in tables of their own, and `NodeEq` leaves the index into them out, as the code
does.

Two constants say which callers are considered. `Ops` are the constructors
asked. `Widths = "agree"` restricts `binop` to operands of one type, or a narrow
first operand and a literal second one; `"any"` allows every pair, as the parser
does, which converts nothing. The findings below need the second.

`Semantics` is the interpreter's own arithmetic (`arith`, `compare` and the
computing cases of `eval`), and `Reductions` the value a node has by it in an
environment that gives values to params, loads, calls and loop results.

### Interp

`eval_func()` and all it calls. The evaluation is recursive in the code and is a
recursive operator here, from a state (the frame's bindings, memo and cached
loop results; memory; fuel and depth) to the state after it. Reading or writing
an address the memory does not have ends it with `fault`.

### Front and Source

`Front` is the parser, from tokens to the graph, one operator per
`parse_...()` function, with the scans ahead that find what a block assigns
(`ScanModified`) and whether it stores, the merging of variables and of the
memory token behind branches and loops, and the compile-time calls it hands to
the interpreter. An error moves to the end of the tokens, where every loop of
the parser stops, as in the code. Characters, error texts and the nesting limit
are left out.

`Source` has no counterpart in the code: programs as syntax trees, the tokens of
one (`Tokens`), and what it means (`Meaning`), with ordinary scopes, a store
that statements change in order, and loops. It is what the compiler is held to.

### Lower, Layout, Encode and Machine

`Lower` computes the placement of `build_schedule()` with the traversal the code
uses, and emits the blocks of the `Lowerer` along it: every node kind,
conditionals as diamonds, loops with their copies at the end of a round, calls,
and the selection of immediates. `Layout` is the arithmetic of stack frames.
`Encode` is `FnEncoder`: an action of `Backend` encodes one VCode instruction,
with the scratch registers the code takes. `Machine` is the assembler, whose
`Finalize` resolves labels, and a processor that executes the instructions. An
instruction takes one place whatever its bytes; the stack is a memory of its
own, in bytes. `idiv` traps on zero and on the least number divided by -1, and
an access outside memory traps.

### SimpleGen

`FuncGen` of `backend.cpp`: a slot per node, code node by node along the same
placement.

### Inline

The Cloner with its map and its nesting limit `MaxClone`, `optimize_module()`
and `reachable_functions()`. A clone that grows too deep leaves its nodes in the
world and the function as it was.

### WellFormed and Verify

`Verify` is `verify_func()`: a step is one turn of the loop of `dfs()`
(`BeginRoot`, `NextSuccessor`, `LeaveNode`) or the checks after it (`Check`).
`WellFormed` says what it should find, over the graph alone: which nodes the
body consists of (`Body`), from which of them a way never ends (`Endless`), and
when a function is acceptable (`Accepts`).

### Run

`JitModule::call()`: the processor enters code at a function, executes one
instruction per `Step`, and is done when it is back at the C++ caller
(`Return`). Of the code only the shape is known (`Shaped`): it consists of
functions, each beginning with the prologue (`HasPrologue`: rbp pushed, a frame
of whole sixteens, the registers it saves stored below rbp in order) and leaving
by epilogues that mirror it (`HasEpilogue`); in between, an instruction writes
saved or scratch registers, its slots or its outgoing arguments
(`WritesRegisters`, `WritesFrame`), jumps to a place of the same function that
is not inside an epilogue (`Open`), or calls the start of a function. `Backend`
makes such code.

### Backend

From allocated VCode to a module. `BeginEncode` builds the `FnEncoder` of one
function and writes its prologue, `EncodeOne` encodes one VCode instruction,
`EndEncode` resolves the labels and adds the function to those compiled (`outs`);
`LinkTo` lays them out one behind the other, patches every call with the place
of its target and leaves the module to `Run`. `OtherPhase` is whatever precedes
the encoder, of which nothing is known but that it leaves the compiled functions
alone, and `HandOver` another generator. `BackendSpec` starts an encoder where
every operand has a home that is saved or lies in the frame, every block ends in
a terminator and jumps lead to blocks (`Allocated`), and takes from another
generator a function of the shape of `Run` whose calls are relocated
(`FunctionCode`). That lowering, `allocate()` and `FuncGen` give it no other is
the property `BackendSpec` of the run `compiler`.

### Compiler

`helixc` from the source to the answer. A step is a phase for one function
(`ReadSource`, `VerifyGraph`, `OptimizeGraph`, `GenerateSimple`, `LowerNext`),
one step of `allocate()` (`Allocate`, the actions of that module with the VCode
`LowerNext` made), one VCode instruction encoded (`EncodePending`,
`FinishEncode`) and the linking of the module (`Link`), the actions of
`Backend`, or one instruction executed (`RunCode`, the actions of `Run`).
`Interpret` takes the graph instead. `Suites` says which programs run on which engines, at which
inlining depth, on which arguments and memory, verified or not; what was never
written in registers and stack holds `Junk`.

### Object

`compile_module_obj()` and `write_coff_x64()`. The writer works out the places
of all tables, writes the headers, and then the tables one record after the
other (`PutHeaders`, `PutReloc`, `PutSymbol`, `PutStrings`); the file maps
positions to records. A linker that reads it through the headers is the property
`LinksLikeJit`. Both give a call whose target the module lacks to the function they
laid out first, so the property holds of such a call too; that the compiler leaves
no such call is the property `CallsNameFunctions` of the run `compiler`.

## Runs

| Run | Module | Bound | Shows |
|---|---|---|---|
| `linear_scan` | `MCLinearScan` | 5 vregs, 2 registers, positions 0..3: every combination of intervals, up to renaming of vregs | no clash, one home, registers marked, no needless or avoidable spill |
| `allocate` | `MCAllocate` | 1138 programs over 4 vregs, 2 registers: straight lines, diamonds, loops of up to 4 blocks | liveness is exact, `allocate()` returns, no live value is overwritten, and it implements `LinearScan` over the true intervals |
| `schedule` | `MCSchedule` | small functions with nested conditions and loops, values shared between arms, bodies and tests | dominance, no over-hoisting, gates, the pre-test cone |
| `schedule_stores` | `MCSchedule` | functions with a store under a predicate | finding 1, below |
| `schedule_loads` | `MCSchedule` | loops whose break value reads memory under a condition | finding 2, below |
| `world_arith` | `MCWorld` | 4-bit words, 3-bit narrow type, every constant of both and two params of each: one request | every rewrite of `binop`, `cmp`, `neg`, `bit_not` keeps the value, and its answer is a normal form |
| `world_graph` | `MCWorld` | 2-bit words, 1-bit narrow type, a world with params, truth constants, memory, a loop and a function: two requests, any constructors | equal structure is one node, a commutative operation asked for both ways round is one node where types agree and two that differ in type only where they do not, region nodes own their parts, constants fit their types, conditionals and selects keep the value |
| `world_rebuild` | `MCWorld` | an i8 and an i64 param and three literals, operands of any widths | finding 3, below |
| `world_mixed` | `MCWorld` | the same | finding 4, below |
| `compiler` | `MCCompiler` | 688 programs in four suites, 6-bit words, 3-bit narrow type, 2 registers | every engine returns and leaves in memory what the source says, ends when it does, keeps the caller's registers, aligns the stack at calls and writes its own frame only; what the verifier accepts is compiled; no call is left of a function that was dropped; the encoder and the linker are given what `Backend` asks for |
| `verify` | `MCVerify` | graphs of three nodes that refer to anything, a conditional and loops of every arity up to two, three accesses sharing states in every way | the verdict is exact, the walk is a path and ends, on cyclic graphs too |
| `object` | `MCObject` | modules of one to three functions, names shorter than, as long as and longer than 8, calls to themselves, each other and a function the module lacks | functions do not overlap, a linker finds each by its name and patches each call as the JIT does |

Bounds. With two registers, three overlapping intervals already force a spill,
a fourth forces one while a spilled interval is still open, and a fifth reuses
what the others left; four positions give every relative order of interval ends
that the comparisons of the scan tell apart. In `allocate` a loop with a value
carried around the back edge and not named in the body needs the second sweep,
and the third to see that nothing changes; a diamond needs the union over two
successors. In `schedule`, one condition inside another condition or loop gives
region trees of depth three, where a common ancestor is neither of its
arguments nor the root.
In `world_arith` words are wide enough for every case the rewrites tell apart:
the least number (which passes the power-of-two bit test, and overflows when
negated or divided by -1), powers of two that are and are not representable in
the narrow type, shift counts at and beyond the width, products that leave both
widths. A rewrite looks at its operands and not further, so one request is
enough for values; `world_graph` makes two, because it takes a second request to
make a node twice, to swap what was asked for before, or to project from a loop.

The suites of `compiler`. *statements* (564 programs, both generators): every
pair of a plain statement, a branch or a loop followed by a branch, a loop, a
nested loop or a branch in a loop, over two variables and an array of three
words. *interpreter* (494 of these, the interpreter). *pure* (60, all engines,
with and without inlining): calls of five and eight arguments in permuted
places, recursion, division at its boundaries, shifts by the width and beyond,
comparisons with constants on either side, loops that rotate variables, nested
loops and loop expressions, more values alive over a call than there are
registers, compile-time calls. *narrow* (64, all engines): every operator over a
value of the narrow type, narrow parameters and results, narrow variables
carried by loops. The arguments are the least number, -1, 0 and 2, or 1 and 2
with an array. `Source` gives a meaning to programs of 64-bit integers only, so
the programs of *narrow* are held to the interpreter instead.

With six bits a word holds the addresses 8, 16, 24 and products overflow it at
the ends of the range; immediates have 4 bits, so constants are emitted in both
forms. Two registers make `allocate()` spill. `MaxClone` = 10 lets shallow
clones through and stops deep ones. The limits of the interpreter and the
machine (`RunFuel` = 200, `StepBound` = 2000, `Rounds0` = 20) are above what any
program that ends takes: `EndsWell` would fail otherwise. `VReg` and `MaxPos`
are above what the largest program needs, or TLC would report an index outside a
domain. `CountBits` is the code's 16.

Each arm of a branch in *statements* holds one statement. A write followed by a
read in one arm, the source form of finding 1, is therefore not among the programs
`MeansSource` is checked on; the run `schedule_stores` finds it in the graph. The
memory of *statements* covers every address a program names, so `EndsWell` tells
of divisions, jumps and stack accesses gone wrong, not of a load the scheduler
moved in front of its guard. `AcceptedIsCompiled` speaks of functions and calls
of at most eight parameters: both generators refuse more, and no program has more.

In *statements* and *interpreter* graphs are not verified before they are
compiled, as in release builds of the generators; in the other suites they are,
as `helixc` does.

`MCLinearScan` uses symmetry of the vregs; the properties it checks under it are
invariants and one action property, no liveness. Deadlock is checked in every
run but `verify` and `object`, which stop when the function is verified and the
file is written; elsewhere the finished states stutter by `Terminated`
(`Returned`, `Finished`, `Over`).

Fairness. `Allocate` and `Verify` state weak fairness of their whole next-state
relations. `allocate()` and `verify_func()` are sequential calls with no
blocking operation, so they take their next step as long as they have one;
nothing is assumed of which step. `Compiler` states none: that a run ends is an
invariant there (`EndsWell`), which bounds the steps a run may take.

Each property has a mutant: a variant of one definition, beside it in the
module, with a plausible mistake (a comparison off by one, a missing mark, a
cone that follows operands only). The run finds the property violated when the
mutant takes the definition's place.

## Findings

1. *Stores pass their guards* (`schedule_stores`). `helix/README.md:13-15` says
   the scheduler places each store "once, in order, never speculated past a
   guard". `demand` (`schedule.cpp:112`) folds all places a node is wanted in
   into their lowest common ancestor. A store wanted in two arms of different
   conditions on the same predicate is therefore placed in front of both, and
   runs also when the predicate has the other value.
2. *Loads hoisted before the exit test* (`schedule_loads`). `schedule.hpp:27-28`
   says body loads "stay in post[] (after the guard), never hoisted across the
   exit test". The cone walk (`schedule.cpp:175`) follows condition arms, so a
   load the break value reads only under an inner condition is marked pre-test
   when its common ancestor is the body itself, and then runs on every round,
   the exiting one included.
3. *Rebuilding changes a node of mixed widths* (`world_rebuild`). `binop` takes
   the result type from its first operand and swaps the operands afterwards
   (`ir.cpp:168`, `:180`). `1 + x` with `x` an i8 is therefore an i64 node whose
   operands stand as `x, 1`, and the Cloner (`opt.cpp:39`), which asks for every
   node again with its operands in that order, makes an i8 addition of it: for
   `x = 127` it gives -128 instead of 128. `helix/tools/fuzz_opt.cpp:8` says
   "interp(unopt) == interp(opt) == jit_ra(opt) == jit_ra(unopt)". The same
   order of steps makes two nodes of `add(x, y)` and `add(y, x)` when `x` and `y`
   are unknowns of different widths, where `ir.cpp:177-178` says they "intern to
   the same node"; `CommutedOnce` states both cases.
4. *Strength reduction narrows* (`world_mixed`). `2 * x` with `x` an i8 has type
   i64, but the shift it is reduced to (`ir.cpp:203`) takes its type from `x`:
   for `x = 100` the result is -56, while `3 * x` is 300. The comment at
   `ir.cpp:199` says "x * 2^k -> x << k", and
   `wiki/14-reduction-engine.md:137` describes each rule as an "SMT query
   asserting **LHS ≡ RHS** over the operand bit-vectors / value semantics".

### Known disagreements

Modelling and comparing the engines met more places where the code differs from
what it or its documents say. No run is about them; the models do what the code
does, and the programs of `compiler` leave out what leads there.

- *Loads read again.* `eval.cpp:52-53` says loads and stores "memoize so each
  executes EXACTLY ONCE per iteration". Every round of a loop clears the whole
  memo of its frame (`eval.cpp:160`), so a load that stands before a loop and
  whose value is wanted behind it is made again after the loop's stores; the
  generated code keeps the first value. (*interpreter* wants no such load.)
- *Loop results kept.* `eval.cpp:137-138` says a loop invalidates the results of
  loops "NESTED in this loop's body (added after iteration began)". Which they
  are is told by what was cached when the loop began, and a loop expression is
  evaluated each time it is wanted: the second time, the result of a `while` in
  its body is there from the first and is kept through all rounds. (No loop
  expression of the runs has a `while` in it. For other loops `MeansSource`
  breaks if results of nested loops are kept; if those of loops before are
  dropped it does not, as these read no memory.)
- *Fuel and addresses.* `eval.hpp:4-5` says evaluation "terminates with a
  diagnostic" when fuel runs out. A load or store uses its address without
  asking whether the fuel ran out while the address was evaluated
  (`eval.cpp:111`), and address 0 is accessed. (`RunFuel` is enough.)
- *Loads in clones.* `opt.hpp:26-27` says "Only PURE functions are transformed".
  A function that only reads carries no state, so it is transformed, and its
  loads are not cloned (`opt.cpp:101`): they keep naming the parameters of the
  original. (Functions that load are not optimized in the runs.)
- *Narrow arguments.* A call narrows its arguments to the types of the
  parameters (`eval.cpp:221`), inlining does not (`opt.cpp:94`). (*narrow* is
  not optimized.)
- *Shadowing in branches.* `wiki/18-frontend.md:315-316` says shadowing leaves
  "distinct bindings". `parse_if` merges every name visible before the branch
  (`front.cpp:549`), so a `let` in an arm that reuses an outer name changes the
  outer variable. (No program declares a name twice.)
- *The token behind a loop expression.* `parse_loop` restores the names of the
  loop but not the memory token (`front.cpp:622`), so a read inside leaves a
  token that depends on the loop's parameters. (Loop expressions do not read.)
- *Stores in both arms.* Both arms of a branch start from one token, and the
  verifier refuses a program that stores in both; `wiki/18-frontend.md:144-145`
  says tokens are "used exactly once". (Such programs run unverified.)
- *Relocation count.* `NumberOfRelocations` is cut to 16 bits (`coff.cpp:129`);
  65536 calls in a module announce none. (Modules have a few.)
- *Calls and memory.* Calls take no memory token (`front.cpp:595`), which
  `wiki/25-path-to-production.md:122-131` admits. (Callees leave memory alone.)

## Theorems

All hold for every value of the constants, under the assumptions named in the
modules and nothing else.

`Recursion` makes recursive definitions usable in the proofs: a function defined
by steps from a base exists (`RecursionExists`) and satisfies its equation, and
a finite set is exhausted by removing members. Induction is stated with sets of
numbers, so nothing is taken as a parameter.

`AllocateProofs`, first part (about `LinearScan`, assuming finitely many vregs
and natural numbers of registers and positions): `TypeCorrect`, `RegistersNeverClash`,
`EveryVRegHasOneHome`, `CalleeSavedRegistersKept`, `SpillsNeedPressure`,
`ScanIsOptimal`. The safety properties are not inductive by themselves: nothing
in them says that an interval still overlapping the scan's position has not been
dropped from `active`. The invariant adds that intervals are scanned by `lo`,
that an active interval holds a register no other active one holds and that is
not free, that every register is free or held by an active interval, and that a
placed interval outside `active` ended before anything still to come.
`SpillsNeedPressure` then counts: with no register free the active intervals
hold all `NumAlloc` of them, and with the newcomer they all overlap at its
start. `ScanIsOptimal` compares the scan with any rival choice of vregs to spill
that leaves at most `NumAlloc` overlapping. That a rival spills no fewer is not
inductive; that it has, for every position, spilled no fewer of those that end
before it is (`SpillsEndLast`): whenever the scan spills, what it spills ends
last of intervals of which the rival must spill one more (`RivalSpillsOneMore`).

`AllocateProofs`, second part (assuming programs of blocks that are not empty, whose edges
lead to blocks and whose operands are vregs, `ProgramsAssumption`):
`AllocTypeCorrect`, `SweepsAreExact`, `LiveValuesAreKept`,
`AllocateScansTrueIntervals`. True liveness is a recursive function over the
flow between instructions; it is proved to be the least set closed under it
(`AheadIsClosed`, `AheadIsLeast`). The invariant says
that the sweeps' sets never hold a vreg that is not truly live (`NeverTooMuch`),
that they only grow within a sweep (`OnlyGrow`), and that the blocks visited
since the last change satisfy their equations (`Swept`), so that a sweep without
a change has a solution no larger than the least one. With exact sets the
intervals `BuildIntervals` makes are the true ones, so each further step of
`allocate()` is a step of `LinearScan` over these intervals, and each earlier
one a stutter: the refinement is a theorem. For `LiveValuesAreKept`, a vreg live
behind an instruction has an interval that overlaps that of what the instruction
defines, and by the invariant of the scan these have different homes.

`ScheduleProofs` (assuming only finitely many nodes, that operands are nodes
other than the user itself, and that parameters have no operands):
`TypeCorrect`, `DefinitionsDominateUses`, `PlacementIsDeepest`, `GatesHold`,
`TestsComeFirst`. The invariant says that regions form a tree whose ancestor
sets are chains (`TreeOf`), that visited nodes are closed under children and
each non-result was found from a visited one, that no user of a placed node is
still to be placed, and that a node stands somewhere exactly if it is a result
or some placed user reads it. `MeetExists` gives the common ancestor, `GrowTree`
keeps the tree when regions open, and `PlaceKeepsIInv` treats the three kinds of
node at once: whatever regions a step opens, settled nodes stay, and all others
move to what encloses their old place and the new demands. A second invariant
(`ConesAndGates`) adds that only what the results need is visited, that what is
needed through the arms of one condition or the body of one loop only lies under
that region, and that a cone being walked is closed but for the nodes still on
its list; the buckets inherit the closure.

`WorldProofs` (assuming only that the world the requests
start from is well made, in type and in normal form, which the empty one is, and
that literals lie in their type): `Invariance`, `StructureIsIdentity`,
`OrderIsCanonical`, `NodesNeverChange`, `WorldInvariance`,
`NodesKeepTheirShapes`, `RegionsOwnTheirTables`, `NodesAreFormed`,
`RebuildingChangesNothing`, `AnswersKeepValues`. That no two nodes compare equal is not inductive:
nothing in it says that the table knows every node there is. The invariant
`WellMade` says that every node of the value strand is in the table, that the
table holds nothing twice, that operands are older than their users (growth then
disturbs no node), and that the operands of a commutative node stand in
canonical order. Each constructor has a lemma that says it makes a well made
world, one that has grown, and returns one of its nodes; a constructor that
calls another cites its lemma. `Typed` and `Owns` extend the invariant: constants lie in the
range of their type, for which every operation that folds has a lemma about
words of any width, and every entry of the tables of functions, conditions and
loops belongs to the one node that names it.

`OrderIsCanonical` is about two requests, one after the other, at whatever widths
earlier requests were made: in one world `binop` of one type and `cmp` answer the
same whichever operand is given first (`BinopEitherWay`, `CmpEitherWay`: the same
pair is reached after the swap, and folding is commutative by `ArithCommutes`),
and asked again in the world they made, every rule they end in answers with the
node it answered with (`BinopAgain`, `CmpAgain`, from `InternAgain`: the table
holds each structure once). Of two unknowns no rule applies but the swap, so at
different types the two requests make nodes that differ in the type they took
from the operand given first (`UnknownsMake`).

`RebuildingChangesNothing` rests on a normal form: `Formed` says of a node that
its operands have the types its constructor asked for and that no rule of the
folder applies to it (`Irreducible`). Where callers keep to one type
(`Widths = "agree"`), every constructor leaves only formed nodes, so asking for
a node again finds no rule that applies, and then finds the node in the table.
Finding 3 is what becomes of this where widths are mixed: the type a node has is
no longer the one its operands, as they stand, would give it.

`AnswersKeepValues` states `ReductionSound` for words and narrow types of any
widths, where requests agree in type. The values of a graph are a function on
its nodes that satisfies one equation per node (`Valuation`); it exists because
operands are older than users (`ValueUnfold`), and it is never computed again:
nodes that were there keep their values, and each constructor's answer is read
off the equation of the node it returns. Under an environment all values lie in
their types (`ValuesFit`), since every operation cuts its result. What is left
is arithmetic at any width: folding is what the interpreter does, the two
written apart (`FoldIsArith`); operands may change places (`ArithCommutes`); the
identities (`ArithKeeps`, `ArithIsZero`); and multiplication by a power of two is
a shift by its exponent (`ArithShifts`), of which the wrapped product and the
wrapped shift agree. Two hypotheses are needed. Without agreement finding 4 is a
counterexample. And the count of such a shift becomes a constant of the narrower
type, so it must fit there (`CountsFit`), as the 62 that is the largest of them
fits i8: in words of 4 bits, `Narrow = 1` breaks the property and the widths the
runs use do not.

`VerifyProofs` (assuming that nodes are numbered from 1 and refer to lists of
numbers, `GraphsAssumption`; operands may be anything, and the graph cyclic):
`Invariance`, `AcceptedGraphsAreSound`, `StackNeverOutgrowsGraph`,
`VerdictsAreExact`. That a verifier without complaint saw no cycle is not
inductive: the invariant says that the stack is a path of distinct nodes none of
which has been left; and, as long as no error is reported, that every successor
of a node on it has been left, is the next node of the path or is still in its
list, that all successors of a node left are left, and that every set of left
nodes has a member no successor of which is in the set. The last part grows with
each node left because a node is left after all its successors
(`NoCycleGrows`); `StackNeverOutgrowsGraph` then counts the distinct nodes of
the path. `VerdictsAreExact` adds that what has been seen lies in the body, that
nothing is forgotten, and that each error was found at the stage that looks for
it and is true of the graph; the body is the least closed set, the endless nodes
the largest set with no way out, and both sides of the verdict follow.

`ObjectProofs` (assuming modules of at least one function, of natural sizes and
any finite sequence of calls, `ObjectAssumption`): `FunctionsDoNotOverlap`, `NamesAreFound`,
`LinkedAsCompiled`. The invariant follows the writer: which records stand in the
file after each stage, at places computed from their number, and nothing else
(`Holds`, `HoldsOnly`), and that every name longer than a field lies whole in
the table of strings at the place its symbol gives. `LinkedAsCompiled` holds
where functions have distinct names and the header counts the calls, which it
does below 65536 of them. Of stack frames, for any numbers of saved registers,
spill slots and arguments: `FramePartsAreDisjoint`, `SlotsAreDistinct`,
`FramesKeepAlignment`, `ArgumentsMeet`.

`RunProofs` (assuming nothing of the code but its shape): `RunInvariance`,
`CallingConventionKept`, `StackAlignedAtCalls`, `FramesAreKept`. The code may be
of any length, with any functions, frames and numbers of saved registers; it may
loop, recurse and trap. That the caller finds its registers again is not
inductive, since the state does not say who is to be returned to. The invariant
supplies a chain of frames, one per call in progress: where the frame begins,
what rbp was, where the call returns to and what the registers held on entry.
The processor is in the last of them (`Top`): as far as the prologue has come
the cells below the base hold what it saved, rsp and rbp stand at places that
depend on the instruction alone, and the registers an epilogue has reloaded are
restored. All others are suspended (`Suspended`): their cells lie above
everything the last may write, because frames do not overlap, and the return
address of the next leads to an open place of their code. Each instruction is
one lemma (`PrologueKeeps`, `RegisterKeeps`, `WriteKeeps`, `JumpKeeps`,
`CallKeeps`, `LeaveKeeps`, `ReturnKeeps`). The hardest is that an epilogue
cannot be entered in its middle: no jump leads there and what falls into it
comes from the load before (`BeforeInside`).

`BackendProofs` (assuming nothing more): `BackendRuns`, that `BackendSpec`
implements `RunSpec`, and with the theorems of `RunProofs` that whatever was
compiled keeps the registers of its callers, aligns the stack at calls and
writes its own frames only (`CompiledCodeKeepsItsCallers`), for modules of any
number of functions, of any length, allocated to any registers. What the
encoder has written so far is not yet code of the shape: labels are open and
blocks to come are missing. The invariant says what it is (`Sound`): the
prologue stands, every instruction of the body `Fits`, an epilogue stands in one
piece, and each label that is bound is at a place that may be jumped to, which
the inside of an epilogue is not; and the labels still open are those the
encoder holds for blocks it has not met (`EncoderInv`), so that none is left when
it has met them all. Each VCode instruction has a lemma that says it keeps this
and closes the labels it opens, built from one about a single emission; a
terminator leaves the code `Closed`, so that nothing falls into the next block's
place from inside an epilogue. What `Finalize` makes of such code is a function
by itself (`FinishedIsFunction`). Moving a function keeps its shape
(`FunctionMoves`), functions laid out one behind the other begin where their
offsets say and nowhere else, and a patched call leads to one of these places
(`LinkedIsShaped`). Every step of `Backend` is then a step of `Run`: entering code, executing an
instruction and returning are themselves, and all others are `Prepare`, of which
`LinkTo` alone makes something ready to run.

Only model-checked: of `Compiler`, that answers are those the source means
(`MeansSource`, `EndsWell`, `AgreesWithInterpreter`, `AcceptedIsCompiled`; the
compiler and the meaning of the source are recursive operators over programs)
and that the programs it encodes are allocated and the code of the simple
generator has the shape, from where the theorems of `BackendProofs` go on
(`BackendSpec`); that `allocate()` returns and the verifier ends (liveness under fairness), and the four findings.

## Not modelled, and why

- The disassembler and the printer: text about the graph and the code, which
  nothing else reads.
- Tests, fuzzers and benchmarks: they exercise the parts above.
- Of the lexer, characters; of the parser, error texts, the nesting limit of its
  recursion, and integer types other than the 64-bit one, a narrower one, bool
  and void (they differ in width only).
- Of the assembler, bytes and the range of 32-bit displacements: tables of
  encodings, which the tests compare with known bytes.
- The operating system's calls that make code executable, and the ownership of
  that memory (`JitModule`).
- `inline_call()`, which nothing in the repository calls.
- Arithmetic over truth values (`&&`, `||` included) and loops that write memory
  inside a branch are modelled, but no program of the runs has them.

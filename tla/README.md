# rwasm in TLA+

rwasm compiles WebAssembly to a flat list of 32-bit opcodes and runs it in an
interpreter with fuel metering, syscalls and resumable interruptions. This
directory holds TLA+ models of the parts of the program whose correctness is
hard to see from tests, the TLC configurations that check them on small
instances, and TLAPS proofs of the main invariants of the interpreter. The
models cover the way from a Wasm module to its result: translation, lowering,
assembly, the interpreter, the engine around it.

Source paths below are relative to the repository (`src/...` is the crate).

## 1. The system

| Part | State | Operations | Talks to |
|------|-------|------------|----------|
| Interpreter (`src/vm/executor.rs`, `executor/*.rs`) | instruction pointer, value stack, call stack | one handler per opcode, `run`, `invoke_syscall` | store, module code, host handler |
| Engine (`src/vm/engine.rs`, `instance.rs`) | a mutex; saved runs live in the store | `entrypoint`, `execute`, `resume` | interpreter, host |
| Store (`src/vm/store.rs`) | fuel consumed and limit, pending signature, globals, memory, tables, dropped-segment bits, saved run | `try_consume_fuel`, `reset_fuel`, `reset`, `memory_read/write` | interpreter, handlers, host |
| Value and call stacks (`value_stack.rs`, `call_stack.rs`) | slots that exist, slots in use; return addresses | `reserve`, unchecked push/pop | interpreter |
| Verifier (`src/module/verification.rs`) | none | `verify` | module |
| Memory and table instructions (`src/isa/memory.rs`, `table.rs`, `src/vm/executor/memory.rs`, `table.rs`) | memory, tables, dropped bits | init, fill, copy, grow, drop, each lowered to checks, a fuel charge and one opcode; loads and stores, of an i64 in two halves | translator, store |
| Segment builder (`src/compiler/segment_builder.rs`) | the joined data and element sections, the entrypoint | add segment, memory, table, global | translator, entrypoint |
| Integer unit (`executor/alu.rs`, `types/untyped_value.rs`, `types/value.rs`) | none | the `I32*` opcodes | interpreter |
| Translator (`src/compiler/translator.rs`, `func_builder.rs`, `control_flow.rs`, `labels.rs`, `drop_keep.rs`, `value_stack.rs`) | control frames, emulated types and heights, labels, the block whose fuel is being summed | one visitor per Wasm operator | segment builder, ISA lowering |
| ISA lowering and snippets (`src/isa/*.rs`, `src/compiler/snippets.rs`, `snippets/`) | none | an opcode sequence for every i64 operator, inline or as a function | translator, parser |
| Parser and assembly (`src/compiler/parser.rs`, `block_fuel.rs`) | what the sections declared, function offsets, snippet calls | trampolines for imports, functions, snippets, entrypoint, state router, relocation | translator, segment builder, import linker |
| Strategy and Wasmtime backend (`src/strategy*`, `src/wasmtime`) | a Wasmtime store; a shared cache of compiled modules | the same store and instance interface | host |
| Import linker, module encoding, tracer, FPU | see PROJECT.json | | |

Hard behaviours: the compiler makes one pass, so everything it learns late (branch targets, heights,
a block's fuel, where a function ends up) is patched into code that is already there, and it skips
unreachable code while it keeps counting its blocks; i64 values are two slots moved about in
sequences of up to four hundred opcodes that were extracted from compiled Rust; the interpreter
reads code and stack through raw pointers, so its safety rests on the verifier, on the compiler's
stack heights and on `reserve`; a run may be interrupted at any syscall, saved and resumed; the host
and its handlers change the store's fuel while a run is in progress; a trap may end a run at any
depth; bounds and charges are computed in wrapping 32-bit arithmetic; all segments share one section
and one bit vector. There is no persistence and no parallelism inside a store: two threads only meet
at the engine's mutex and at Wasmtime's module cache.

`PROJECT.json` lists every component with its status, and every hazard with the
line where it bites and the properties that would catch it.

## 2. Modules

- `I32Alu`: the integer unit as operators on words of `W` bits (32 in the code).
- `Executor`: one interpreter over one store. Variables are the executor's
  fields (`ip` as an offset, `stack` as the slots in use, `entries` as the slots
  that exist, `callStack`), the store's (`consumedFuel`, `fuelLimit`,
  `lastSignature`, `globals`), and who is in control (`phase`). Each `visit_*`
  handler is an action `Visit*`; `Start`, `TrapOut` and `Leave` are the parts of
  `RwasmExecutor::run`. A syscall is a phase of its own, so that whatever a
  handler does to fuel interleaves with the run. `VerifyModule` is
  `RwasmModule::verify`. Code that would read outside the stack or the code has
  no step: the run is stuck and TLC reports a deadlock.
- `FuelMeter`: what `StoreTr` promises of fuel, for any backend.
- `Engine`: adds `Interrupt` (a handler returns `InterruptionCalled`) and
  `Resume`, with the saved run in `resumable`. Its refinement mapping shows a
  suspended run to `Executor` as a run whose handler has not returned yet.
- `Programs`: seven programs in the shape the compiler emits (dispatch through a
  table with `br_table`, a counted loop, an endless loop, recursion, i64
  syscalls, indirect recursion, a frame that fills the stack).
- `Segments`: one region (memory or table), its segments, the entrypoint that
  allocates and initialises it, and the bulk instructions as they are lowered.
  `dropped` records what was dropped, for comparison with the code's `flags`. A
  layout (region, segments, limits, operands) is chosen by the initial state.
- `RegionAccess`: adds the single accesses: stores (and loads, which change
  nothing), a handler's `memory_write`, `table.set`. A load or store runs the
  opcodes `WasmOps` gives for it on a small stack, so that the two halves of an
  i64 check their addresses and write one after the other.
- `WasmBulk`: the Wasm definitions of the same instructions.
- `I64Sequences`: what `src/isa/*.rs` emits for every i64 operator, opcode by
  opcode, with the heights (`MSH_*`) it declares. Loops that were unrolled by the
  Rust compiler are built from their repeated part.
- `I64Snippets`: the Rust functions in `snippets/` that the long sequences were
  extracted from, as operators on limbs.
- `I64Lowering`: runs every sequence as a module of `Executor` on every pair of
  chosen operands.
- `WasmOps`: which emitter, operand types, results and price each Wasm operator
  has, and the checked sequences of the bulk operators.
- `Translator`: `InstructionTranslator` as a record `t` and one operator
  `Visit...` per visitor, `t` in and `t` out; a failed assertion or an `unwrap`
  of nothing gives `status = "panic"`. `VisitBlock`, `VisitEnd` and the like are
  the whole visitor, the patching of labels in `finish` included. It keeps
  RECURSIVE operators, so nothing is proved about it.
- `StackShape`: how many slots each opcode pops and pushes, and a flow analysis
  of emitted code from it: reachable heights, reserved slots, cycles that cost
  no fuel.
- `WasmValidator` (external): the type checking of `wasmparser`, which every
  operator passes before the translator sees it.
- `TranslatorRun`: a function body, one operator at a time, validated and then
  translated.
- `Assembly`: `ModuleParser::parse` and `finalize` from declared sections to a
  module: `ImportTranslated`, `Functions`, `EmitSnippets`, `EntrypointCode`,
  `RouterCode`, `Linked`.
- `WasmSemantics` (external): an interpreter of structured Wasm after the
  specification, which also adds up the price of every operator it executes.
- `CompiledRuns`: composes `Assembly` and `Executor` and compares with
  `WasmSemantics`. `Instantiate` is `RwasmInstance::new`, `Invoke` is `execute`.
- `CodeShape`: what code owes an interpreter that checks neither push nor pop. A
  `Shape` gives each reachable offset the slots of the running frame, those of
  them that exist, and what the function returns; `Shaped` says how each opcode
  must hand these on to the next. `FramesInv` is what follows for a run: its
  frames tile the value stack.
- `ShapeFinder`: finds the shape of given code by following every branch from its
  entries (recursive, for runs only); `MCExecutor` uses it for the seven programs.
- `CompiledShapes`: the shape of what `CompiledRuns` compiles, for a linker that
  does not price its imports, `CompiledShaped`.
- `EngineFrames`: the same frames in a saved run, `ContextFrames`, and the
  engine's inductive invariant.
- `ExecutorProofs`, `ShapeProofs`, `EngineProofs`, `SegmentsProofs`: the theorems
  about `Executor`, about shaped code in it, about `Engine` and about `Segments`.
- `SectionProofs`: the types of `Segments`, its joined section and dropped bits
  (lemmas); `AccessProofs`: the theorems about `RegionAccess`; `SnippetProofs`: the
  Rust functions of `I64Snippets` are Wasm's instructions. `Induction` is the
  induction principle they use, and what they need of quotients and remainders.
- `MCExecutor`, `MCEngine`, `MCVerify`, `MCSegments`, `MCI64`, `MCTranslator`,
  `MCCompiled`: instances for TLC.

The composition, from the top: `CompiledRuns` = `Assembly` (= `Translator` over
`WasmOps` over `I64Sequences`) + `Executor` (with `I32Alu`) + `WasmSemantics`;
`Engine` = `Executor` + interruption; `EngineFrames` = `Engine` + `CodeShape`;
`CompiledShapes` = `CompiledRuns` + `ShapeFinder` + `CodeShape`; `I64Lowering` = `I64Sequences` +
`Executor`; `RegionAccess` = `Segments` + the sequences of `WasmOps`.

What is abstracted: wording, tracing and debug output, host data. Tables are
constant in `Executor` (as the entrypoint leaves them); `Segments` models how
they change. Costs are constants (`FuelCosts` is another crate).

## 3. Runs

| Run | Checks | Shows |
|-----|--------|-------|
| `executor` | `TypeOK`, `PcInCode`, `StackInBounds`, `CallDepthBounded`, `FuelWithinLimit`, `NoStaleSignature`, `CleanExit`, `OperandsPresent`, `FramesInv`, no deadlock | seven programs, every fuel limit, every handler answer, resets between runs |
| `engine` | `SuspendedIntact`, `ContextFrames`, `MeteredLikeATank`, `MeteredCodeYields`, `InterruptionIsTransparent` | interruption and resume cannot be observed by the guest; fuel is spent as from a tank (refinement of `FuelMeter`); metered code always hands control back |
| `verify` | `PcInCode` | every module of up to three opcodes that `verify` accepts |
| `segments` | `TypeOK`, `InitMatchesWasm`, `RegionOpsMatchWasm`, `BulkWorkIsPaid`, `SizeWithinMaximum`, `LoadsMatchWasm`, `StoresMatchWasm` | bulk instructions, loads and stores against Wasm, for memories and a table |
| `segments_dropped` | `DroppedStayDropped` (violated) | finding 1 |
| `segments_neighbour` | `InitStaysInSegment` (violated) | finding 2 |
| `i64` | `LoweringCorrect`, `SequenceMatchesSnippet`, `SnippetMatchesWasm`, `HeightCovered` | every i64 sequence gives the right result or trap, agrees with its Rust source, and needs no more slots than declared; the Rust source agrees with Wasm |
| `translator` | `NoPanic`, `EmulatedStackExact`, `CodeSound`, `StackCheckCovers`, `LoopsMetered` | every valid body over four alphabets |
| `translator_tail_call` | `StackCheckCovers` (violated) | finding 3 |
| `translator_inline` | `NoPanic` (violated) | finding 4 |
| `compiled` | `CompiledVerifies`, `MatchesWasm`, `FuelIsWork`, `CompiledShaped`, no deadlock | 222 Wasm modules, compiled and run, do what Wasm says at the price of what they executed; their code has a shape |
| `compiled_priced` | `StackInBounds` (violated) | finding 5 |

The refinements are `MeteredLikeATank` (`Executor` implements `FuelMeter`) and
`InterruptionIsTransparent` (`Engine` implements `Executor`, except that a store
reset during a suspension refills the tank: `FuelRefilled`).

### Bounds

*Interpreter.* Words have four bits: every sign, carry and wrap-around happens,
and an opcode's operand sets are complete. The value stack starts with two
slots and has at most seven, so programs cross the growth of `reserve` and its
limit; the recursion limit is three and programs exceed it directly and through
a table. Fuel saturates at 12 (`MaxFuel`, for `u64::MAX`): limits below, at and
without it are set by the host, and the counter does saturate. `MCVerify` takes
every module of up to three opcodes from a set that has each kind of jump with
targets before, at and behind the code's ends; it allows deadlock because such
code may pop an empty stack, which the verifier does not promise to prevent.

*Segments.* Regions of at most eight cells or four elements in an address space
of sixteen cells: like `N_MAX_ALLOWED_MEMORY_PAGES`, half of it. The memory that
may fill exactly half has operands without the address 8 at its end: the bulk
opcodes extend the sign of an address, so there, and only there, a run of no or
all cells traps where Wasm's succeeds. The memory
with one passive segment grows to two pages and takes every word for every operand. Loads and stores
are checked from every address with static offsets at both ends and in the
middle of a word's range, in every content that two stored values, copies and
fills can leave in a memory of four or eight bytes (of one bit each).

*i64.* Words of four bits, the fewest that hold the shift counts the division
sequences use (up to 3W - 1), so values of eight. Limbs are 0, 1, 8
and 15: zero, one, the sign bit and the largest word, in every combination of
the four; a shift's amount is also 3 or 4, about a word's width. Divisions,
which take hundreds of steps, have 0, 3, 8, 15 as low and 0, 8, 15 as high limbs.

*Translator.* Bodies over an alphabet per scope: nested control with blocks,
loops and ifs of several types, branches, tables and unreachable code (up to
eight operators, ends included); calls, tail calls, intrinsics, locals and globals
of one and two slots (six); memory, table and segment instructions (five);
every numeric operator in every position (four). `MaxBlockFuel` 20 is for the
`u32::MAX` of a block's fuel; `MaxDropKeep` 9 for the `u16::MAX` of a drop or
keep. A translation ends, so these runs allow deadlock. Tail calls through a
table to a wider callee are left to finding 3.

*Compiled runs.* A family of 210 modules, a block of either type with every
kind of branch over every combination of values that have to be dropped and an
if over one such value, and twelve modules of their own: loops with parameters, tables of branches,
direct, indirect and host calls with every failure of an indirect call, priced
imports (one price too large), selects and tees, recursion past the limit of
five, tail recursion within it, a start function that runs and one that traps,
a state router that takes the state from the stack and one that asks the host.
Each with parameters 0, 1 and 3 and fuel 14 or none. Words have four bits; a
price counts words of two bytes. Snippets and fuel are on. The host's answer is
one word, so that `WasmSemantics` knows it. `CompiledShaped` compiles the same
modules with unpriced imports (`builtins_consume_fuel` off), a priced trampoline
having no shape; `compiled_priced` takes one function of nine slots, with a default
stack of as many (32 in the code), so that it is full at the call.

### Fairness

`FairEngineSpec` assumes weak fairness of the interpreter's step and of a
handler's return, nothing of the host: `run_the_loop` is a loop without
blocking, and a suspended run is owed nothing. A limit of `u64::MAX` is
excluded from `MeteredCodeYields`: the counter saturates there and `OutOfFuel`
is never raised.

### What the properties say together

`StackInBounds` takes the heights in `StackCheck` as the programs give them;
`StackCheckCovers` says the translator writes heights that suffice, given the
heights of the sequences, which `HeightCovered` checks. `StackInBounds`,
`OperandsPresent` and `CleanExit` are proved for code that has a shape: for the
seven programs that is an `ASSUME` TLC evaluates (`ProgramsShaped`), for compiled
modules it is `CompiledShaped`. `PcInCode` is proved for
code that verifies; `CompiledVerifies` says compiled code does. `NoStaleSignature`
is proved for tables that hold functions; `CompiledVerifies` says they do.
`LoopsMetered` says no cycle is free and `FuelIsWork` that the sum is right, from
which `MeteredCodeYields` follows for compiled code with a limit.

## 4. Findings

1. `data.drop` and `elem.drop` resize the bit vector of dropped segments to the
   index they set; a drop with a smaller index forgets later ones. Run
   `segments_dropped`.
2. The length check of `memory.init` and `table.init` is a wrapping signed
   comparison; an offset near `u32::MAX` passes it and, after the segment's
   position is added, reads the segment before. Run `segments_neighbour`. The
   check is also left out for an empty data segment.
3. `visit_return_call_indirect` takes the table index off the emulated stack and
   then keeps it; the copies of the drop/keep may need one slot more than
   `StackCheck` reserves (`translator.rs:1215`, with a TODO that doubts the
   lines). Run `translator_tail_call`.
4. Without code snippets an i64 comparison leaves the emulated type I64
   (`translator.rs:4018`), and the next operator's assertion fails. Run
   `translator_inline`.
5. A trampoline to a priced import pushes up to four words to compute the price
   and reserves none (`parser.rs:494`; `finish` writes a height of 0). A caller
   whose frame is full leaves no slot for them. Run `compiled_priced`.

Because of 1 and 2, `InitMatchesWasm` is checked and proved where they do not apply: one
segment with every operand, and two segments with operands that are not
negative and no drop by the guest. A zero-length init from a dropped segment
that does not start at offset 0 also traps where Wasm does not. The entrypoint
drops the result of its `memory.grow`, which the store's own limit or the
allocator may refuse: `BootGrow` then goes on without memory, as the code does.

## 5. Proofs

`ExecutorProofs` proves, for every set of modules, words, limits and handlers
that satisfies the assumptions of `Executor`:

- `TypeCorrect`: `Spec => []TypeOK`. `TypeOK` is inductive; one lemma per group
  of opcodes (`StackOpTypes`, `SystemOpTypes`, `ControlOpTypes`, `HostTypes`).
- `RecursionBounded`: `Spec => []CallDepthBounded`; inductive given the types.
- `FuelBounded`: `Spec => []FuelWithinLimit`. `FuelSteps` reduces all steps to
  three: fuel untouched, a charge that suffices, a new limit with nothing
  consumed.
- `ImplementsMeter`: `Spec => MeteredLikeATank`, from `FuelBounded`, without
  which the difference between limit and consumption could be negative.
- `VerifiedCodeStaysInCode`: if every module passes `VerifyModule` and
  `EndsFinal`, then `Spec => []PcInCode`. `PcStep` goes through every jump; an
  opcode that falls through is not the last one (`FallsThrough`).
- `SignatureIsTaken`: if tables hold entries that open with `SignatureCheck`,
  then `Spec => []NoStaleSignature`.

`ShapeProofs` proves, for all code that is `Shaped`, what the value stack relies
on. `StackInBounds` is not inductive: whether a push fits depends on what
`StackCheck` reserved at the function's start, perhaps several calls ago, and
whether a return leaves room depends on the caller. The invariant that carries
both is `FramesInv`: there are bases, one per pending call and one for the
running function, such that each frame has the height and the existing slots
its offset's shape says, and each callee's results complete its caller's frame.

- `FramesKept`: `Spec => []FramesInv`. Three lemmas move the bases (`FramedMove`
  within a function, `FramedCall`, `FramedReturn`); the opcodes follow group by
  group. Between a call through a table and the callee's `SignatureCheck` only
  the signature describes the frame (`IndirectFrames`, `FramesChecked`).
- `StackSafe`: `Spec => []StackInBounds`; `OperandsFound`:
  `Spec => []OperandsPresent`; `ExitsClean`: `Spec => []CleanExit`.

`EngineProofs` carries this across interruptions, and proves the refinement.
`EngineInv` is the interpreter's invariant, and for a saved run the same frames
short of the results the host owes (`ContextFrames`). `ResumeFits` needs the
shape: `resume` pushes one slot per word of a result, while what was reserved
when the syscall began counts values, of which an i64 takes two slots.

- `ContextKept`: `EngineSpec => []ContextFrames`.
- `SuspensionIsWhole`: `EngineSpec => []SuspendedIntact`.
- `EngineRunsSafe`: `PcInCode`, `StackInBounds`, `OperandsPresent`, `CleanExit` and
  `NoStaleSignature` hold of `EngineSpec`.
- `EngineImplementsMeter`: `EngineSpec => MeteredLikeATank`.
- `InterruptionTransparent`: `EngineSpec => InterruptionIsTransparent`. Under the
  refinement mapping saving a run is a stutter (`InterruptStutters`), resuming
  it is the handler's return (`ResumeReturns`), every other step is itself
  (`LiveNext`), and what the host does to the store meanwhile is something the
  handler may do, or `FuelRefilled` (`SuspendedHost`).

`SegmentsProofs` proves about `Segments`, for every layout, operand and width of
a word:

- `SizeBounded`: `Spec => []SizeWithinMaximum`. Neither check of a grow is enough: the compiled
  comparison wraps and the store's own check knows no declared maximum.
  `ChecksBoundGrow` shows that what passes the store's check is too small to
  wrap in the other one. The invariant `SizeInv` says that the region is a
  whole number of units, within both maxima, and empty until the entrypoint has
  allocated it, since that allocation compares nothing with the declared maximum.
- `WorkPaid`: `Spec => []BulkWorkIsPaid`. The price is computed from an operand
  nothing has checked yet; an instruction that succeeds had one within half the
  address space (`RangeIsShort`), where rounding up does not wrap
  (`ChargeCovers`).
- `RegionOpsMatch`: `Spec => []RegionOpsMatchWasm`. A word is an address in the
  region for the code exactly when it is for Wasm (`RangesAgree`), and what both
  checks of a grow let pass is within Wasm's limit (`GrowWithinLimit`). The
  hypothesis `ShortOf` leaves out what is false: a memory that may fill exactly half the
  address space (2 GiB, `N_MAX_ALLOWED_MEMORY_PAGES`) is not addressed at its
  very end, whose address is negative as an `i32`. Every layout of run
  `segments` satisfies it.

`AccessProofs` proves the same and more of `RegionAccess`, whose steps are those of
`Segments` and the single accesses. Its invariant is `RegionInv`, the types with
`SizeInv`; `AccessKeeps` says an access leaves all but the cells alone and their number
as it is.

- `RegionTyped`: `AccessSpec => []TypeOK`. The section is a recursive function of the
  layout; that it is a sequence of cells, and that each segment is the part of it from
  its offset on (`SectionHolds`, `PartOfSection`), is proved by induction. The library's
  induction rules take an operator, which the provers cannot instantiate; `SetInduction`
  says the same of a set and follows from a least element.
- `RegionBounded`, `RegionWorkPaid`, `RegionOpsMatchAccessed`: the theorems about
  `Segments` hold of `AccessSpec`.
- `StoresMatch`: `AccessSpec => []StoresMatchWasm`. A run of a sequence is unfolded into
  its opcodes (`ShortRuns`), each with what it leaves on the stack (`GetOp`, `StoreOp`).
  An i64 is written in two halves, the second at a saturated offset: `HighHalf` shows
  that half to exist exactly when all eight bytes do, so the first write never happens
  before a trap, and `TwoHalves` that the halves are the whole.
- `LoadsMatch`: `AccessSpec => []LoadsMatchWasm`. `SameNumber` shows by induction that
  Horner's scheme from the last byte and the sum from the first agree; `Extends` that
  the arithmetic shift of the low word is the high word of the extended value.
- `DropsStay`, `DropsLose`: in every layout, with any number of segments dropped, active
  ones and resets included. `DropsStay` has `DroppedStayDropped` where the guest drops in
  ascending order (`DropsAscend`, a hypothesis about its steps), and also that no segment
  has its bit set without being dropped (`OthersStayArmed`). `DropsLose` says for guests
  that do not what a step does: a dropped segment's bit is lost exactly by a drop of a
  segment before it (finding 1), never by an access, a reset or an active segment of the
  entrypoint. The invariant is `BitsInv`; it needs `BootAscends`, since the entrypoint
  drops active segments itself, and `BitSteps` sorts the steps by what they do to the bits.
- `InitsMatch`, `InitsStay`: `InitMatchesWasm` and
  `InitStaysInSegment`, for a layout that is `ExactLayout`: only the first segment is
  ever dropped, an active segment lies at offset 0, the section is less than half the
  address space, and where there is a second segment no operand is negative and no data
  segment is empty. The invariant adds `FlagsExact`: the bits say what was dropped. Each
  condition leaves out something the code does differently from Wasm: a drop of an
  earlier segment (finding 1), a source that wraps and an empty data segment (finding
  2), an active segment that a reset of the store arms again, whose kept offset is its
  place in the region and not in the section. Every layout of run `segments` but the
  one whose entrypoint always traps is exact; the violating runs show what happens
  elsewhere.

`SnippetProofs` proves `SnippetsCorrect`: `LowSpec => []SnippetMatchesWasm`. Whatever two
i64 a run is called with, each of the thirteen functions in `snippets/` returns what Wasm's
instruction does, for words of any width that is a power of two; the run tries words of four
bits. The state has little part in it (`OperandsInv`: a run's operands are among those of its
module); the proof is about the functions, one lemma for each:

- Numbers of two words determine their words (`SplitIs`, `PairOrder`), and what is lost
  above is a multiple of 2^2W (`LongWrapIs`). `AddCorrect`, `SubCorrect` and `NeCorrect`
  need no more than the carry a comparison finds (`Carry`, `Borrow`).
- `MulCorrect`: `mul32` is the whole product of two words (`Mul32`), and Karatsuba's middle
  term is right in its low word, which is all that is used of it.
- The shifts join two pieces with `|`. The operator is defined by its bits, so that a
  disjunction of pieces that share no bit is their sum (`OrSum`) is an induction over the
  bits of a word (`BitsDetermine`). `ShlCorrect`, `ShrUCorrect`, `ShrSCorrect`,
  `RotlCorrect`, `RotrCorrect` take their four cases from `LeftShift` and `RightShift`.
- The divisions are loops. `DivModExists` and `Div64Exists` show that the recursive functions
  of their rounds exist; `DivModHigh`, `DivModLow` and `Div64At` are the loop invariants: the
  bits read so far are the divisor times the quotient so far plus a remainder below the
  divisor. The fast path's condition, a divisor below 2^(W-1), is what keeps the remainder's
  top bit from being lost (`NextRemainder`). `DivModCorrect` and `Div64Correct` sum up 2W
  rounds; `DivUCorrect`, `RemUCorrect`, `DivSCorrect`, `RemSCorrect` follow, the signed ones
  over `AbsoluteIs` and `TruncIs`.

That the sequences compute what these functions do (`SequenceMatchesSnippet`) is model-checked,
at four bits.

The assumptions are the named `ASSUME`s: operands have the
types of their Rust variants, limits are natural numbers, and the integer unit maps words to words
where it does not trap; no context differs from every context (`ContextAssumption`); a layout is one
that Wasm validation and `SegmentBuilder` accept, in a store whose limit is a positive `i32` and, for
a memory, at most half the address space; static offsets and stored values are words
(`AccessAssumption`) and a word is four bytes (`FourBytes`). The provers know nothing of exponents, so
what is true of the powers of 2 for every `W` is stated as well: `2^W` is a positive number
(`WordValues`), a `usize` has at least one bit more than a word (`UsizeValues`), and `ByteValues`,
`Powers` and `WordBits`, which say that powers are positive and multiply as their exponents add, and
the last that a word has a power of two of bits, which the shifts need: their amount is taken from
the low word alone. TLC evaluates the
assumptions on every run. `Shaped` is a hypothesis of its theorems, not an assumption: it is about code alone, TLC
evaluates it for the programs of runs `executor` and `engine` and checks it of compiled modules.

Only model-checked:

- `MeteredCodeYields`, which is liveness under fairness.
- Everything about sequences, the translator and compiled code, `CompiledShaped`
  included: these are recursive over code.

## 6. Not modelled

- Visitors of proposals that are not supported (they return
  `NotSupportedExtension`), debug positions, more than one memory.
- Floating-point arithmetic: its opcodes move slots (`StackShape`) and that is all.
- Copies between two tables; `memory_read`, which changes nothing.
- Reading and validating sections, constant expressions, exports, limits, and the
  check of imported functions' types.
- Module encoding, tracer, strategy layer, Wasmtime backend, tests and examples.

Where the models stop short of the code:

- Memory, bulk and floating-point operators are translated in run `translator`
  but do not occur in run `compiled`, whose modules have a table and no memory.
- `StackCheckCovers` is about translated functions; the state router has no
  `StackCheck` at all and runs on the default stack. The passing runs keep
  priced calls away from a full stack (finding 5).
- Tail calls to imports that an intrinsic replaces are left out. A removed function with
  results makes the compiler panic by design ("remove intrinsic with result not
  supported"); the one in run `translator` has none.
- `InitMatchesWasm` is checked and proved where at most the first segment is dropped: an
  init from a dropped segment elsewhere, of length zero or after a drop of an earlier
  segment, does differ from Wasm's.
- A host that executes while a run is suspended (the engine only
  debug-asserts), and a handler that re-enters the engine and waits for its
  mutex, are outside the host's protocol in `Engine`.

See the notes in PROJECT.json for each component.

## 7. Plan

1. Done: interpreter, engine, verifier, fuel, memory and tables; lowering,
   translator, assembly, compiled runs.
2. Modules with a memory in `CompiledRuns`: `RegionAccess` under `Executor`.
3. `WasmtimeStore`: the second implementation of `FuelMeter`; the module cache.
4. `ConstantExpressions`: `compiled_expr.rs` against Wasm's constant expressions.
5. Done: `EngineSpec` implements `Executor`'s `Spec`; `SuspendedIntact`; the
   stack properties from the shape of the code.
6. Done: the theorems of `AccessProofs` and `SnippetProofs`.

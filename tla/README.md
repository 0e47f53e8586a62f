# Verification of QuarkLang

TLA+ specifications of the QuarkLang implementation in `src/`, TLC
configurations that check them on small instances, and TLAPS proofs for every
instance of the parts that matter most.

QuarkLang has two implementations that must agree: an interpreter in Go
(`internal/lang`, a tree walker with a bytecode VM for hot functions) and a
compiler (`compiler/`, Go that emits LLVM IR against a C runtime kept in
`compiler/qthreads.c.txt`). Both run *threads* (`taskm`), both manage memory in
*blocks*, and both do it with hand-written concurrent code. Those runtimes are
one half of what these modules specify. The other half is the language itself:
what the type checker accepts, what the tree walker, the bytecode VM and the
compiled code do with it, and where they agree.

Contents: [inventory](#1-inventory) · [modules](#2-modules-and-their-code) ·
[runs](#3-runs) · [bounds](#4-bounds) · [fairness](#5-fairness) ·
[proofs](#6-proofs) · [findings](#7-findings) · [what is left](#8-what-is-left) ·
[not modelled](#9-not-modelled)

## 1. Inventory

| Component | Code | State it keeps | Operations | What makes it correct |
|---|---|---|---|---|
| Compiled thread pool | `compiler/qthreads.c.txt` 1–260 | task table, ring `qq/qh/qt/qn`, spinlock, condition variable, `done` of each task | `ql_spawn`, `ql_merge`, `ql_block`, `ql_done`, `qworker` | every merge runs once with its own arguments; the ring is a queue; a thread seen done is reclaimed; `ql_block` returns |
| Compiled channels | same file 167–205 | circular buffer, `head`, `cnt`, mutex, one condition variable | `ql_channel_new`, `ql_send`, `ql_recv` | a bounded FIFO; no wakeup lost |
| Compiled allocator | same file 300–920 | slabs and large blocks, partial lists and a cached slab per class, counters | `ql_alloc`, `ql_realloc`, `ql_free`, `ql_mem_*` | objects are disjoint and kept; a task's end frees its own and nothing else; counters are exact |
| Interpreter threads | `internal/lang/eval.go` 2060–2130, 3350–3405 | task table under `taskMu`, a `doneCh` per run | `taskm.spawn`, `merge`, `block`, `done` | one run per thread; a block returns after the run it waits for was reclaimed |
| Context pool | `internal/lang/value.go` 660–730 | lock-free chain of free call contexts | `newCtx`, `putCtx` | a context serves one call |
| Memory manager | `internal/lang/eval.go` 200–360 | blocks with an occupancy, a heap of pointers to them | `Alloc`, `ReclaimTask`, `Delete`, `Compact`, `Clear`, `setBlock` | blocks in use are kept; room is reused, least occupied first |
| Evaluator | `internal/lang/eval.go`, `slots.go`, `limits.go` | scopes, call depth, caches | statements, calls, references, copies, `sum` | slots name the variables names do; copies share nothing; a variable keeps its width; `sum` is a loop |
| Bytecode VM | `internal/lang/vm.go`, `compile.go` | registers, compiled functions, deoptimisation marks | compile, run, fall back | the same results and effects as the tree walker |
| Type checker | `typecheck.go`, `refperm.go` | scopes of types, stamps on the tree | infer, check, resolve overloads | what it accepts meets no type error at run time |
| Linter and fixer | `lint.go`, `lintfix.go`, `cmd/qkcheck` | unread writes, read counts, corrections | lint, fix, repeat | a corrected program does what the original did |
| Lexer and parser | `syntax.go`, the `qkparser` library | the tree | parse | precedence |
| Libraries and FFI | `ffi.go`, `ffi_call.go` | handles of native libraries | load, call | marshalling |
| REPL | `repl.go`, `cmd/qkrepl` | the session | evaluate an input | the latest definition is the one called |
| Code generator | `compiler/internal/cgen` | the module being emitted, a slot or a cell per variable | lower each construct, emit it | a compiled program prints, ends and leaves its variables as the interpreted one |
| Compiler driver | `compiler/main.go` | files | parse, merge, emit, link, run | – |
| Language server | `cmd/qklsp` | open documents | open, change, close, requests | diagnostics are of the last text |
| Stress runner | `cmd/qkstress`, `internal/lang/stressgen` | a supervised child | start, poll, kill | every child ends with one verdict |
| Quality tools, documentation tool | `internal/ratchet`, `*gen`, `qkcheck`, `doc.go` | none but files | one pass over their input | – |

How they interact. The compiled program calls the pool and channel functions
from generated code; the pool's worker brackets each task with the allocator's
`ql_mem_task_begin` / `ql_mem_task_end`, so a task's end frees what it
allocated, including the `ql_task` objects it spawned. The interpreter's
`merge` takes a context from the context pool and a block from the memory
manager, starts a goroutine, and that goroutine gives the block back
(`ReclaimTask`) before it clears `Busy` and closes the channel `block` waits
on. Evaluator and VM share the functions' compiled state, and either may run a
given call; the checker stamps types, widths, slots and call targets on the tree
both read; and the compiler lowers the same checked tree.

The hard behaviours, each at its line, are the `hazards` of `PROJECT.json`:
signals between a test and a wait, a ring at its limits, an object freed while
another thread refers to it, a channel field replaced between an unlock and a
close, a list head that is taken and put back (ABA), incremental counters kept
by a dozen paths, stale heap entries, slots stamped for a scope that looks
otherwise at run time, bytecode given up in the middle of a function, an order
of evaluation that only one of two implementations has, and a correction that
removes a write some path still reads.

## 2. Modules and their code

| Module | Role |
|---|---|
| `TaskPool`, `MCTaskPool` | the compiled runtime's pool, one step per piece of code between two accesses to shared memory; refined to `ThreadService` |
| `TaskPoolProofs` | proofs about `TaskPool`: the ring and its lock, then what happens to the handles: calls, owners, storage |
| `DataLemmas` | for the proofs: induction, a circular buffer, sums over finite sets |
| `Sums` | the sum of a function over a finite set |
| `ThreadService` | abstract: what `taskm` promises of a thread: idle, merged, running, over |
| `BoundedFifo` | abstract: a bounded queue of values |
| `Channel` | `ql_send` / `ql_recv`, refined to `BoundedFifo` |
| `ChannelProofs` | proofs about `Channel` |
| `BlockStore` | abstract: named objects with owners and sizes |
| `SlabAlloc`, `MCSlabAlloc` | the counted-slab allocator, refined to `BlockStore` |
| `SlabAllocProofs` | proofs about `SlabAlloc` |
| `TaskThreads` | the interpreter's threads, refined to `ThreadService` |
| `TaskThreadsProofs` | proofs about `TaskThreads` |
| `CtxPool` | the interpreter's compare-and-swap pool of contexts |
| `CtxPoolProofs` | proofs about `CtxPool` with two goroutines |
| `MemoryManager` | the interpreter's block allocator with its `container/heap` |
| `Values`, `Storage` | values and arithmetic at a chosen width; scopes, lists, tables, structs, references, copies |
| `Syntax` | the syntax tree, as the parser library delivers it |
| `Resolve` | the slots and call targets stamped on the tree (`slots.go`, `compile.go`) |
| `Types`, `Checker` | the type checker (`typecheck.go`, `refperm.go`) |
| `VmCompile`, `Interp` | the bytecode compiler; the tree walker and the VM's loop |
| `Lower`, `Compiled` | the compiler's lowering (`lower.go`, `lower_iface.go`) and what the emitted code does (`cgen.go`) |
| `Language`, `MCLanguage` | the life of one program through those; the pool of statements programs are made of |
| `SumBuiltin` | `sum` and its closed forms |
| `StressRunner` | a case of the stress runner and the supervisor of its children |
| `LintFixer`, `MCLintFixer` | the linter's walk, the corrections and `qkcheck -fix` |
| `LintFixerProofs` | proofs about `LintFixer`: a corrected program runs like the original |
| `MCParts` | the five self-contained parts in one run: a behaviour chooses a part |
| `PartsProofs` | proofs about `MCParts`: memory manager, `sum`, stress runner, and the bridges to `CtxPoolProofs` and `LintFixerProofs` |

`PROJECT.json` maps every definition to its lines. The main correspondences:

**TaskPool.** `pc` is the place of a thread in the C functions. `SpawnAlloc`,
`SpawnLoad`, `SpawnStore` are `ql_spawn`, whose `++qtasks_n` is a load and a
store under no lock. `MergeEnter`, `MergeFn`, `MergeArgs` are `ql_merge`, which
writes the job into the handle field by field; then `PushLock`, `PushTest`,
`PushStore`, `Wake` are `qpush` and `qwake`, `PopLock`, `PopTest`, `PopTake` are
`qpop`, and `Sleep` is `pthread_cond_wait` as both use it: they test the ring
under the spinlock, release it, and only then take `qsmu` and wait. `qsmu`
protects no data and is held around one call, so "lock, wait" is one step.
`BeginTask`, `EndTask`, `PublishDone` are the worker around the task's
function. The sequence `calls` and the counter `merges` are history variables:
a merge is known by its number, and `fn` and `arg` carry it through the handle,
so that a torn or overwritten job shows. `EndTask` frees the `ql_task` objects
the ending task spawned (`Children`), which lie in its storage, as `ql_mem_task_end` does.
Tasks spawn, merge and block like main. Three constants say what programs do:
`ReMerge`, a handle may be merged again while it waits or runs; `RaceSpawns`, two
threads may be inside `ql_spawn` at once; `Orphans`, a task may return while a thread
it spawned is in use, after which a call or a worker follows a pointer to freed
storage (`docs/compiled-memory.md` D11 leaves that undefined).

**ThreadService** is what both runtimes promise: a spawned thread is idle, an idle
thread is merged with a job, a merged one begins it, a running one may take storage
and ends by giving it back, and only then is the thread idle again; a job begins
once. `TaskPool` maps it from `done` and the place of the worker that holds the
handle, with the merge's number as the job; `TaskThreads` from `Busy` and the step of
the run, with the run as the job. The pool's ring and locks, and the interpreter's
channels and calls of `block`, do not show in it.

**Channel.** `mutex` and `waiting` are the pthread objects; a thread between
`CallSend` and its return is in the `while` loop of `ql_send`. A broadcast
empties the waiting set; `SpuriousWakeup` is what POSIX allows.

**SlabAlloc.** Every `ql_mem_` operation holds the allocator's lock and is one
action on one record, `heap`. Free lists and partial lists are sets. The
allocator chooses the least occupied slab of its owner and class by a walk that
keeps a cached slab; the model keeps the cache because other operations must
keep it valid. Whenever a request needs a host block, `malloc` may also refuse it,
and `ql_alloc` and `ql_realloc` then return 0 (`MayFail`). Payload bytes are left out.

**TaskThreads.** Runs are numbered as they are merged and run *r* makes channel
*r*. What a call does under `taskMu` is one step; what runs outside it is a
step of its own, the `close(t.doneCh)` after the unlock above all. `Hasty` says
whether the program may merge a thread again after `done` reported it idle and
before its channel is closed: nothing in the interpreter prevents it.

**CtxPool.** One step per atomic load, link read, and compare-and-swap. A
goroutine's stack of contexts is its nested calls.

**MemoryManager.** The heap is the array `container/heap` keeps, sifted by the
package's algorithm, because `Delete` and `ReclaimTask` change the key of an
entry where it lies and push it a second time: order and multiplicity matter.
The loops of the package and of `Alloc` are `Loop(f, s, n)`, *n* rounds of a function
from state to state.
`setBlock` stores the size that later allocations use.

**Language.** A program is written statement by statement, then accepted or
refused, walked, run again with bytecode, and compiled and run. The definitions
are functional, as the code is: `Typecheck`, `Resolved`, `Execute`, `Lowered`
and `RunCompiled` take a program or a store and return one. A store holds what
an interpreter holds: scopes with an outer link, a heap of lists, tables and
structs, references as (scope, slot), (list, index) or (struct, field), the
output, the blacklisted functions. Every expression and statement threads it, so
order of evaluation, errors in the middle and effects through references are the
code's. Integers wrap at `IntBits`, `UcharBits` and `LongBits`. `VmCompile`
keeps the compiler's own static view (`typeOf`), which decides what is in the
subset; `Interp!RunVm` runs its instructions one by one over the parameters'
scope, and gives up where `errVMDeopt` is returned, leaving what it did.
`Compiled` has cells instead of names: `ByRefArgs` and `Assigned` are the scans
that decide which variables get one. The three tools are constants of
`Language` (`FrontEnd`, `Interpreter`, `Compiler`) and every configuration
gives them the operators of this repository.

**SumBuiltin.** One step per stage: the probes, each candidate of
`detectPeriod`, the multiplication or the loop. A probe whose error the code
ignores leaves 0.

**StressRunner.** `Tick` and `Waited` are the two cases of the `select`; the
child is free to end, grow, survive a kill or hold its pipes.

**LintFixer.** A file is a sequence of lines with blocks opened and closed by
lines of their own; `BlockEnd` says where the block of a line ends. `DeadStores` is
the linter's walk with its `pending` map (`Tracked` is its two exemptions: loops and
references), `FixPass` one `fixOnce`. `Exec` is `execBlock`: what the lines from one
to the end of its block do to a state, and `Run` what the program prints.

## 3. Runs

| Run | Configuration | Shows |
|---|---|---|
| `pool` | `PoolDisciplined` | main and the tasks of two workers spawn (one at a time), merge idle threads, and block: types, each merge called once with its own arguments, no owner shared, no dangling handle, done means reclaimed, the ring (of two slots) a queue and never full; implements `ThreadService` |
| `pool_ring` | `PoolRing` | a ring of one slot and a program that merges a thread again while it waits: full and empty ends; while a worker is awake the ring drains |
| `pool_lost_wakeup` | `PoolLostWakeup` | **violated**: `ql_block` may never return |
| `channel` | `Channel` | three threads, two values, a buffer of two: refines the FIFO, no lost wakeup, somebody inside always gets on |
| `slab` | `SlabAlloc` | three host blocks, two classes, large objects, two threads: accounting, lists, fit, least occupied first, a reallocation that is refused changes nothing, refines `BlockStore` |
| `threads` | `TaskThreads` | two threads, three runs, careful programs: one run per thread, reclaim before idle, right error reported, no panic, block returns; implements `ThreadService` |
| `threads_remerge` | `ThreadsRemerge` | **violated** with `Hasty`: block returns before the run is reclaimed |
| `ctx_two_threads` | `CtxTwoThreads` | **violated** with a third goroutine (ABA) |
| `parts` | `Parts` | contexts (main and one run), memory manager, `sum`, stress runner, fixer: a context serves one call; empty blocks are queued; the sum is the loop's; no quiet verdict for a killed child and a verdict for every case; fixes keep what is printed |
| `fixer_catch` | `FixerCatch` | **violated**: a correction deletes a write that a catch block reads |
| `language` | `Language` | programs of up to three statements from a pool of 58: the six properties below |
| `vm_deopt` | `VmDeopt` | **violated**: bytecode given up after an effect repeats it |

The properties of `language`:

* `SlotsAgree`: a run with stamped slots and call targets ends as one that looks
  every name up: same error, output, variables, heap.
* `VmAgrees`: bytecode that is not given up does what the tree walker does.
* `CheckedRunsClean`: what the checker accepts meets no wrong type, unknown
  name, wrong arity or overload, no stray break. Two statements are excluded by
  name (`Holes`): a call of an overload that is not the first of its name (its
  body is never checked, `typecheck.go:812`), and a variable declared in a branch
  that is not taken.
* `WidthKept`: a variable keeps a value of its declared type and width. Excluded:
  an `int` parameter bound by reference to a `uchar` variable
  (`typecheck.go:3001`).
* `CopydApart`: a `copyd` parameter shares nothing with the argument, lists and
  structs inside it included, nor a `copyd` list with the list it was made from. Each
  list has the items appended to it or to a plain alias of it, and no more. Not
  counted is a `copyd` list that is passed to a `copyd` parameter (section 7).
* `CompiledAgrees`: "the same source must produce byte-identical output"
  (`lower.go:6`), and the same error, variables, lists and structs. Excluded by
  name (`CompiledHoles`): a callee's error inside `try` (documented,
  `docs/ARCHITECTURE.md:191`), the by-reference `uchar` again, the order of two
  errors in `l[i] = v`, and `bool(x)` of an even int. A variable without an
  initial value and a function that falls off its end give nil in one and zero
  in the other, and are compared as zero.

The five parts of `parts` share no state; running them together costs one run
instead of five, and the product is never built because a behaviour chooses its
part first and only that part moves.

Every property of a passing run has a mutant in `PROJECT.json`: a plausible bug
in the code, written beside the definition it changes, that violates it.

Some properties of the passing runs depend on what the program does, and TLC
confirms it. The same conditions are hypotheses of the theorems: with `ReMerge = TRUE` the pool violates `DoneMeansReclaimed` (the
handle still runs the first job when `done` is that of the second), and with
`Orphans = TRUE` it violates `NoDanglingHandle` (a thread spawned inside a
task lies in that task's storage, and goes with it while it runs or waits in the
ring). With `RaceSpawns = TRUE` two spawns may take one identifier. `EmptyQueued` speaks
of blocks as large as any request: after `setBlock` grows the size, an allocation
pops an empty block of the old size as too small and nothing puts it back.
`SumIsLoop` speaks of generators that follow a line or a
period wherever the probes say so: three probes and the last term, or two terms
a period apart, are all the code looks at. `FixKeepsRun` speaks of programs
without a second name for a variable and without errors: QK113 does not see a
read through `int& p = &x`, and takes `1/y` for an expression that can be
dropped.

## 4. Bounds

The counters that only grow are bounded in guards: `MaxHandles`, `MaxMerges`,
`MaxStorage` (pool), `MaxAllocs` (allocators; `MaxHeap` for the entries of the
interpreter's heap), `MaxPids`, `MaxRuns` (threads), `MaxCtxs`, `MaxDepth`
(contexts). They leave room for the cases the properties are about:

* pool: two workers and two handles with three merges make a handle run twice
  and both workers run at once; a ring of two slots with two ids is full when
  both wait. In `pool_ring` two merges of two handles fill the ring of one slot,
  which wraps at each push. `FifoStep` is checked in `pool`, because order needs two
  slots, and three merges to fill them again after a wrap; for a ring that gets full it
  is proved.
* channel: a buffer of two and three threads give two sleepers of different
  kinds and a wrap; capacity and threads are arbitrary in the proofs.
* slab: sizes are scaled (classes of 2 and 4 with headers of 2, block sizes 8
  and 10): slabs of one and of two slots, a request for each class and one
  beyond them, both block sizes, three host blocks so that two slabs of one
  class coexist with another and exhaustion happens. `BlockSymmetry` permutes
  the blocks, which no operation tells apart.
* threads: three runs on two threads make a thread run twice while another
  waits for it; arbitrary in the proofs.
* contexts: five contexts and three nested calls; the race needs three
  goroutines, two contexts in the chain and one put back.
* memory: three allocations of sizes 1 and 2, and of whole blocks for runs, in
  blocks of 2 and 4 with `setBlock` in between; `Delete` stops at four entries of the heap.
* sum: points 0 to 6, stops up to 8 (so that a term can fail), steps -1, 1, 2, a
  period of at most 4 where the code allows 256; every 0-1 sequence, lines, a
  square and an irregular sequence.
* stress: a timeout and a grace of one poll, so that each of the four phases can
  end before, at and after both.
* fixer: five lines after two declarations (three passes are enough for any of
  them); six for the counterexample with a try.
* language: two statements in main and three in all; the statements are whole
  loops, calls and declarations, so a program of two already has a
  call that appends to a list and a loop that reads it. No statement keeps a reference
  to an element while its list grows (section 7). 8, 4 and 12 bits for `int`, `uchar`
  and `long` make overflow one addition away. `Fuel` of 12 bounds the rounds of
  loops; `MaxCallDepth` is 4 where the code has 8192, and no program of the pool
  recurses to it.

## 5. Fairness

* `TaskPool!FairSpec`: the operating system runs every runnable thread (weak
  fairness of the runtime's own steps), a contended spinlock is eventually
  taken by each that spins (strong fairness of `PushLock` and `PopLock`: the
  lock is free again and again and `qlock` retries for ever), and a task's
  function returns (strong, because the function also makes calls in
  between). Program calls and spurious wakeups are owed nothing.
* `Channel!FairSpec`: a thread inside `ql_send` or `ql_recv` that can step does,
  and the mutex admits a thread that keeps asking.
* `TaskThreads!FairSpec`: a goroutine that can run does, and a merged function
  returns. A function does not block on an earlier thread or its own: functions
  that wait for each other wait for ever, in the program's text.

* `MCParts!FairSpec`, for the stress runner: the ticker goes on and the loop over
  the cases starts the next phase. Nothing is owed by the child or by `Wait`: that
  the runner returns all the same is the property.

The other specifications state no fairness and no liveness: they are sequential
programs of which each step is a function's run to its end.

## 6. Proofs

All proofs are checked by TLAPS, for every value of the constants under the
modules' assumptions: those of `TaskPool`, `Channel`, `SlabAlloc` and `TaskThreads`
(naturals, booleans, `NULL` not a handle), and `PartsAssumption` of `MCParts`, which
collects those of the parts (of the fixer: its lines are among the `Statements` of the
model, and the number of passes is a natural). TLC evaluates each on the runs' values. What a theorem
needs besides is a hypothesis in its statement.

`TaskPoolProofs`, for any set of spawners of which one at a time is in `ql_spawn`
(`~RaceSpawns`; two that race may take the last id twice and write past the table, see
the hazard at `qthreads.c.txt:210`):
* `TypeCorrect`, with the invariant `TypeOK /\ Control /\ Ring`. `Control` says
  of each place of the code what was tested under the spinlock (which excludes)
  and what the registers hold; `Ring` that the tail is `qn` cells after the head
  and the cells between hold handles. Neither is true without the other: the
  count is in bounds because of the tests, a popped cell is a handle because of
  the window.
* `RingIsFifo`: `Spec => FifoStep`. `PushWindow` and `PopWindow` say what an
  operation does to the window of cells, `QueueStep` lifts it to the queue.

`ChannelProofs`:
* `TypeCorrect`, `NoLostWakeup`. The invariant is `TypeOK /\ SleepersHaveCause`:
  inductive because every `Send` and `Recv` broadcasts, so whoever sleeps went to
  sleep after the last change of the buffer.
* `ChannelIsFifo`: `Spec => Fifo!Spec` under the mapping `Contents`, the window
  of `cnt` cells from `head`. `DataLemmas` has the arithmetic of the circular
  index; `SendStep` and `RecvStep` say what an
  operation does to the window; `Sent` (cells of the window hold sent values) is
  the further invariant the abstract `Put` needs.

`TaskThreadsProofs`:
* `TypeCorrect`, `MergeExcludes`, `IdleIsReclaimed` for programs of any haste.
  `OneRunPerThread` is not inductive alone: `Stages` adds that run numbers above
  `nextRun` are absent, that a merging goroutine is the only one about to start
  its run, and that a block is held only up to `ReclaimTask`.
* `CarefulNeverPanics`, `CarefulBlocks`, `CarefulReports` under `~Hasty`. The
  invariant `Channels` says that the channel of a thread is that of its one live
  run and that a channel is closed by its run's last step; `Reports` that the
  error shown is that of the latest finished run. `~Hasty` is used in exactly
  one step, `MergeAccepted`, which is where run `threads_remerge` goes wrong.
* `ServiceImplemented`: `Spec => ImplementsService`, for programs of any haste: what
  haste breaks is `block`, not the stages of a thread. The invariant adds `Current`: a
  busy thread's channel is that of the run that occupies it. `SpawnServes`,
  `MergeServes`, `StartServes`, `EpilogueServes` and `ReturnStutters` are the steps; the
  others leave all that the mapping reads alone (`AlikeStutters`).

The same module, for programs that are `Disciplined`: threads spawn one at a time,
and none merges a handle again before it is done (`~RaceSpawns /\ ~ReMerge`). The invariant `JInv` follows a job through
the code. `OnePlace` says that it is carried by one thread, in one cell of the ring, or
run by one worker; `Busy` that its handle is not done meanwhile, and that a handle which
`ql_merge` is writing is done and written by one thread; `Table` and `Known` that such a
handle is in the table under its own identifier; `Numbers` that its function and
argument are those of one merge, not called before the worker begins it; `Stored` that
storage in use is that of a task being run.
* `DoneIsReclaimed`, `OwnersApart`, `CalledOnce`: consequences of that.
  Without discipline they are false (section 3): a job would be overwritten in its handle, or carried twice.
* `RingHasRoom`: the handles in the ring and being pushed are different and have ids,
  and there are at most `QMAXTASK - 1` ids, hence never more than `QCAP` of them.
* `HandlesLive`, with tasks that spawn, if a task returns only when the threads it
  spawned are idle (`~Orphans`). The invariant adds `Released`: no handle in the ring,
  run by a worker or held by a call has been reclaimed, and those that have been have
  an owner other than main. A task's end takes idle handles, and `Busy` says that an idle
  one is neither in the ring nor with a worker.
* `ServiceImplemented`: `Spec => ImplementsService`. The steps of the service are
  `SpawnStore`, `MergeArgs`, `BeginTask`, an allocation, `EndTask` and `PublishDone`, a
  lemma each; every other step stutters (`HiddenSteps`), those of a merge not yet
  published included (`PublishingStays`). The invariant adds to `JInv` that a handle
  without an identifier is done and has no argument (`NotYet`).

`SlabAllocProofs`, without a hypothesis. The invariant is `Good(heap)` and the type of
`running`; `Good` is `Sound` (each block is well formed and each counter is the sum it
stands for), `Lists` (a partial list holds the slabs of its class with a free slot) and
`Balanced` (allocations are reuses and new blocks). Each operation is a lemma on the heap
before and after it, and the passes over several blocks are lemmas on the set of
blocks they leave.
* `TypeCorrect`, `Accounting`: the counters are sums over blocks and objects, and an
  operation changes a sum by the terms it changes (`DataLemmas`), so the subtractions
  stay above zero.
* `ListsRight`, `Fitting`; `LeastFirst`, from what the choice of a slab
  compares in `ql_alloc`, a move by `ql_realloc` included.
* `Refinement`: `Spec => Store!Spec`. An operation of the allocator is one of
  `BlockStore` on the objects it has, or none.
* `ReallocSafe`: a call of `ql_realloc` resizes its object, moves it for the same owner,
  or, refused by the host, leaves the heap as it was.

`CtxPoolProofs`, for `TwoGoroutines` (main and at most one run). With three the
property fails (`ctx_two_threads`), so the invariant must say what *one* other
goroutine cannot do between a goroutine's read of a link and its swap: take the head and
what is below it, and put the head back without what was below. A goroutine puts back
what it took in reverse order. So `Fresh` says of a link that was read that it is still
the successor of the head loaded: in the chain if that head is free, and otherwise as
the context its holder took next (`Above`), or else that nobody can reach it (`Lost`: a swap
in `putCtx` drops it). `Undisturbed` is the same before the link is read. `Chain`,
`Apart`, `Links` and `Places` say that links lead to free contexts and no two to one,
that no two places hold one context, and what each place of the code implies. That
there are two goroutines enters by `TheOther`, and in that a merge is under way only
while its run does not exist.
* `OneUserOfTwo`, `ChainIsFree`.

`LintFixerProofs`, for programs of any length, nested to any depth, and any number of
passes. The property is about what two programs print, so the proof is a simulation
between a run of a program and one of what a pass makes of it.
* The functions the model defines exist and have their equations (`BlockEndIs`,
  `ExecIs`, `WalkIs`, `FixedIs`). A block is defined by the lines after it, so these are
  inductions from the last line to the first (`Upwards`).
* The walk: what is pending is a write outside the loops that has been pending ever
  since (`Origin`), and a dead store is one that a later write found pending
  (`DeadFrom`). So from a dead store to the write that overwrites it there is no branch,
  loop or catch, and no line reads the variable (`StaleKept`); in a loop nothing is
  pending (`LoopEmpty`). A variable whose pending write is dead is `Stale`.
* The lines: a pass deletes assignments only (`DeletedIs`), so the lines that open and end
  blocks stay, in their order (`Moved`), blocks move with their lines (`BlocksMove`,
  `CloseMoves`), and a pass makes a program of a program (`FixedProgram`).
* The runs: from a line and the place it went to, states that are `Alike`, equal except
  for stale variables, lead to states alike at the end of the block (`Simulates`). Where
  a run may branch, repeat or be caught nothing is stale, so the states are equal; this is
  where the proof would fail for a linter that kept `pending` over a branch, and, in
  `SimOpens` for a `try`, where it needs that no error is raised: run `fixer_catch` is the
  failure.
* `CorrectionsKeepRun`: `Spec => []FixKeepsRun`. The invariant `RunsAlike` says that what
  is with the fixer is a program, and runs like the original and without an error; the
  latter is not in `FixKeepsRun` and is what the next pass needs.

`PartsProofs`, for the specification `parts` explores. Each part has lemmas for its own
specification; `PartsMove`, `ContextsMove` and `FixerMoves` carry them over.
* `ContextsServeOne` is `OneUserOfTwo`, `FixesKeepRun` is `CorrectionsKeepRun`.
* `SumsAreLoops`: by induction on the number of terms, the sum along a line and along
  whole periods is that of the loop (`LineSum`, `PeriodSum`); `Scanned` says what the
  candidates for a period tried so far have shown. The generator must not mislead the
  probes (`~Misled`, a part of `SumIsLoop`).
* `KilledAreLoud`: `Recorded` ties the outcomes on record to the two flags, `Supervised`
  what is known of the child in hand.
* `EntriesStayManaged`, `EmptyStayQueued`: sifting permutes the entries, a push adds
  one, and `Alloc` drops only entries of blocks without room, whatever the order the
  array has got into. `UseStaysBounded`, that no block is filled beyond its size, needs
  `RequestsFit`: a request above the block size gets a block it overfills.
* `PartsTypesCorrect`, of all parts but the contexts, whose types are in `ChainIsFree`.

Three of these (`EntriesStayManaged`, `UseStaysBounded`, `PartsTypesCorrect`) are proved
for every instance, and no run checks them again.

The library's induction theorems take an operator, which no prover here can
instantiate. `DataLemmas!Induction` is induction about a set of naturals (one with 0 and
every successor is all of them), proved from a well-founded order, and a recursive
function is shown to exist by it (`LoopExists`, `PrefixSumExists`, `KeptExists`,
`WalkExists`, and `BlockEndExists` and `ExecExists` by `Upwards`) before its equations are used. So modules with theorems declare no
`RECURSIVE` operator, and neither do those they use.

Model-checked only:
* every liveness property (`InsideProgress`, `AwakeWorkerDrains`, `BlockReturns`,
  `SupervisorReturns`): they rest on fairness and ENABLED, which the prover does not
  handle;
* the modules of the language, whose definitions recurse over syntax trees. The
  prover does not take recursive operators.

## 7. Findings

1. `pool_lost_wakeup`: `qpop` finds the ring empty, unlocks, and waits without
   testing again; a push and its signal in between wake nobody. The task stays
   queued and `ql_block` spins for ever, though `lower_taskm.go:8` says block
   waits "for the thread to become idle".
2. `threads_remerge`: a thread is idle before its channel is closed. A merge in
   between replaces `doneCh`, the old goroutine closes the new channel, `block`
   returns early and the new run closes a closed channel, which panics.
   `docs/ARCHITECTURE.md:797` says block returns only after `ReclaimTask`.
3. `ctx_two_threads`: `newCtx` reads the link of the head before it swaps the
   head; if the head was taken and put back meanwhile, a context in use becomes
   the head. The comment at `value.go:689` says it is safe for threads.
4. `fixer_catch`: the linter's record of unread writes survives into a `try`
   body and is cleared only before the catch block. In
   `x = 1; try { x = 1 / y; } catch (e) { }` the first write counts as a dead store
   and `-fix` deletes it; when the division fails, `x` is not 1 any more.
   `cmd/qkcheck/README.md:13` says the rewrite "cannot change what the program
   does".
5. `vm_deopt`: `==` on two bools is compiled to the int comparison, which gives up
   at run time wherever it stands; the function then starts again in the tree
   walker and repeats its writes to by-reference variables and its output.
   `eval.go:669` says the guard fires before any side effect.

Divergences met while modelling, which no run states:

* An argument that is already a `Copyd` value is bound to a `copyd` parameter as it is
  (`eval.go:1604`), so what the callee appends to its parameter is in the caller's
  `copyd` list; the comment at `eval.go:1592` says a `copyd` parameter is deep-copied
  and "never written back to the caller". Statements 46 and 48 of the pool are the case.
* `MemoryManager.Alloc` takes a block that is too full for one request out of the
  heap for good (`eval.go:261`), and `Compact` empties the heap, so later requests
  make new blocks while old ones have room; `spec/STANDARD.md:302` prefers the
  least occupied block that has room.
* On the int fast path of a binary operator an error of the right operand makes
  the walker evaluate it a second time (`eval.go:1240`).
* `break` inside `try` is caught as an error by the walker (`eval.go:741`).
* `sum`: "anything non-linear degrades to a loop" (`eval.go:2795`) is not so, and
  with a negative step the closed form counts terms the loop would not visit.
* `copyd P k = p` on a struct declares a plain `P` that shares `p`'s struct (`k.f = x`
  writes `p.f`), and `copyd int k` a list type (`typecheck.go:903`); the checker ignores
  the modifier or reads it as a suffix of the type's name.
* The `copyd int a` form, `%` on floats, `===` on containers, `new P[n]` (one zero
  shared by all elements) and long comparisons behave otherwise than their
  declarations suggest; `Values`, `Storage` and `Interp` have them as they are.
* Stress runner: outputs are cut at 64 KiB and compared as cut, though the comment
  at `run.go:253` says the whole content is compared; two front ends that could
  not be started give a quiet verdict.
* Compiled code against the walker, beyond the named holes: `break` in `try`,
  `INT_MIN / -1`, constant folding at 64 bits, an element passed by reference out
  of a list that grows, a missing key of a table, a table or object used after
  its deletion. Programs with these are refused, undefined in the target or
  outside the pool, and are not compared. No property covers the stale element address
  (`cgen.go:829`): where the interpreter's reference is a list and an index, the compiled
  one points into a buffer that the growth has moved.

## 8. What is left

The order of the work was: the concurrent core and the allocators of both
implementations with the first proofs; then the language, and the parts a
single run could hold. Left, most useful first:

1. `TaskPool` composed with `SlabAlloc` in place of its `storage` counters.
2. Generic functions and type aliases in `Checker`, `Lower` and `Interp`; `taskm`
   calls inside language programs.
3. The language server's published diagnostics across files.

## 9. Not modelled

* The Windows branch of the pool (a thread per merge); POSIX objects beyond what
  their calls promise; `talk`; the bytes of objects.
* Of the language: the built-in objects that are a platform's (files, sockets,
  JSON, windows, time), generics, library declarations and FFI, the debugger. They
  are calls out of the evaluator, with no control of their own.
* The lexer and the parser, which are a grammar library outside the repository:
  `Syntax` is the tree it delivers.
* Of the linter: the checks that only report, and unused imports.
* The text of the LLVM output; the models have what it does.
* The REPL (it registers and executes by the paths `Language` has, with names
  looked up), the compiler driver, the language server (a sequential loop; its
  one hazard is listed), the documentation tool and the generators of repository
  files, which transform text in one pass and keep no state.

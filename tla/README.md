# obv-OS: specifications and proofs

`src/learning-basics` holds eight small RISC-V (rv32) kernels, each a step of a
course: a kernel that boots, one that prints, one that panics, one that handles
exceptions, one that allocates pages, one that switches between two processes,
one with a round-robin scheduler, and one with Sv32 page tables. Each directory
is a program of its own; code is carried over from one to the next. There is no
user mode, no interrupt is ever enabled, and one hart runs everything, so
concurrency here is *multiplexing*: control moves between stacks by
`switch_context`, and an exception may cut in at any instruction (the models
let it in before any of their steps; see *What is one step* below).

Below, S is `process-scheduler-and-exception-handler`, C is
`process-control-and-context-switching`, M is `memory-allocation`, P is
`page-tables`, X is `exception-handling`.

## Inventory

| Component | State | Operations | What makes it correct |
|---|---|---|---|
| Process scheduler (S `kernel.c`) | `procs[8]`, `curr_proc`, `idle_proc` | `kernel_main`, `create_process`, `yeild` | every process runs in its turn, on its own stack; idle is not resumed while others exist; a full table panics |
| Context switch (S, C, P) | the stacks, `proc->sp`, callee-saved registers | `switch_context`, the frame laid by `create_process` | a resumed process finds its registers and frames as it left them; a new one starts at its entry point |
| Trap entry (S; an older form in X, C) | `stvec`, `sscratch`, `scause`, the frame | `kernel_entry`, `handle_trap` | the frame holds the registers of the interrupted code; the cause reported is the cause raised; the code that did not trap is left alone |
| Page allocator (M, P) | `next_paddr`, free RAM | `alloc_pages` | no address given twice or outside free RAM; new pages clear; "out of memory" only when it is so |
| Page tables (P) | two-level tables in free RAM | `map_page`, `create_process` | a process in use has a complete mapping; one table per 4 MB; no entry of another table is touched |
| Address-space switch (P) | `satp` | `yeild` | the kernel keeps running under every table it switches to |
| Two-process kernel (C) | `proc_a`, `proc_b` | the two entry functions | each resumes the other where it stopped |
| `printf` (all `common.c`) | none | `printf` | prints the number it is given |
| Memory and string functions | memory | `memset`, `memcpy`, `strcpy`, `strcmp` | those of the C library |
| SBI console | the firmware's | `call_sbi`, `putchar` | each character reaches the console, in order |
| Page-tables kernel as a whole (P) | all of the above in one machine | `kernel_main`, `create_process`, `yeild`, `kernel_entry` | every table installed maps the kernel; each process is served or the right PANIC is reached, whatever exception cuts in |
| Simple, output, panic, exception and memory kernels | `.bss`, the console | `boot`, `kernel_main`, `PANIC` | `.bss` and nothing else is cleared; the message appears; `kernel_main` never returns |
| Linker and run scripts, OpenSBI image | - | - | build inputs and vendored firmware |

**Interactions.** `kernel_main` and the processes call `yeild`; `yeild` picks a
slot, points `sscratch` (and in P `satp`) at the process it picked, changes
`curr_proc` and calls `switch_context`, which returns on the other stack.
`kernel_entry` reads `sscratch`, which only `yeild` and `kernel_entry` write.
P's `create_process` calls `map_page`, which calls `alloc_pages`, which may PANIC;
`PANIC` calls `printf`, which calls `putchar`, which calls the firmware.

**Hard behaviours.** (1) the registers `sp`, `sscratch` and the variable
`curr_proc` change in different statements, and between them they name two
processes; (2) a saved context is plain words on a stack, read back as a program
counter; (3) the table is scanned by pid, one more than the slot; (4) exceptions
between any two instructions, the kernel's own included; (5) allocation sums at the top of
memory; (6) failure, or an exception, half-way through building an address
space; (7) `satp`, the TLB and `sscratch` changing in different instructions.
`PROJECT.json` lists each hazard at its line.

## Modules and how they correspond to the code

| Module | Code | State, actions |
|---|---|---|
| `Context` | S `kernel.c` 125-165, 226-241 | the words `switch_context` pushes and pops and `create_process` lays out, by offset from `sp` |
| `RoundRobin` (abstract) | - | processes that take turns with private data; no stacks, no table |
| `Scheduler` | S `kernel.c` 181-307 | `procs`, `curr_proc`, `idle_proc`, the stacks, the hart's `pc ra sp sregs stvec sscratch`; one action per statement of `kernel_main` and of the entry functions; `create_process` cut into the search with the new context (`CreateIdle`, `Create`, or `NoFreeSlot`), one store per field of the control block (`SetPid`, `SetState`, `SetSp`) and the return; `yeild` into `Pick`, `SetSscratch`, `SetCurrProc`, `SaveContext`, `RestoreContext` |
| `SchedulerRefinement` | - | the refinement mapping: position and data of a suspended process are read from its stack |
| `TrapEntry` | S `kernel.c` 35-84, 168-175 | extends `Scheduler` with an exception before any step: `Raise`, `SwitchStack`, `SaveRegisters`, `SaveFaults`, `SaveSp`, `handle_trap` |
| `PageSupply` (abstract) | - | zeroed, disjoint ranges; refusal only when nothing fits |
| `BumpAllocator` | M `kernel.c` 34-46 | `next_paddr`, memory; `AllocPages`, `OutOfMemory`, and the callers' stores `Fill` |
| `AddressSpaces` (abstract) | - | one map from pages to frames per address space |
| `PageTables` | P `kernel.c` 261-283 | extends `BumpAllocator`: first- and second-level tables are words of its memory; `NewTable`, `map_page` |
| `ProcessSpaces` | P `kernel.c` 291-334, 403-420 | extends `PageTables`: `kernel_main` and `create_process` up to `yeild`, one turn of the mapping loop at a time; the stores of `state` and of `page_table` are two steps, in the code's order |
| `AddressSwitch` | P `kernel.c` 340-368 | extends `Scheduler` with `satp`, the TLB and the four instructions of `yeild`'s `asm` block |
| `PagedKernel` | P `kernel.c` 112-158, 291-422 | composes `TrapEntry` (and so `Scheduler`), `AddressSwitch` and `ProcessSpaces` into P's kernel: one process table, one PANIC, one hart. `create_process` is `FindSlot` or `NoSlot`, `BuildSpace` (one call of `alloc_pages` or `map_page` at a time), `FillControlBlock` (one field at a time) and `ReturnProcess`, `Run` every other statement, `Exception` and `HandleTrap` the traps, `CacheTranslation` the TLB |
| `ProcessControl` | C `kernel.c` 125-269 | the kernel without a scheduler; refines `RoundRobin` too |
| `TrapOnStack` | C `kernel.c` 46-86, X `kernel.c` 34-117 | extends `ProcessControl` with the older `kernel_entry`, which stays on the interrupted stack |
| `Printf` | P `common.c` 35-95 | the scan and both digit loops, one action per turn |
| `MemString` | P `common.c` 100-145 | the four byte loops, one action per turn |
| `SmallKernels` | the `kernel.c` of the simple, output, panic, X and M kernels | each `kernel_main` as the list of its statements, run on `Printf`, `MemString` and `BumpAllocator`; `PANIC`, the trap of `unimp`, `call_sbi` |
| `ArithmeticLemmas` | - | lemmas on numbers: whole pages, div and mod, the modular scan; induction and recursion on them |
| `Scheduler_proof`, `SchedulerRefinement_proof`, `TrapEntry_proof`, `TrapOnStack_proof`, `ProcessSpaces_proof`, `PagedKernel_proof`, `SmallKernels_proof` | - | theorems about the module named; `SchedulerRefinement_proof` also about `AddressSwitch`, `ProcessSpaces_proof` about `BumpAllocator` and `PageTables`, `SmallKernels_proof` about `MemString` and `Printf` |
| `MC...` | - | instances for TLC |

Conventions. A stack is a function from word numbers to words, word 1 being the
highest; a stack pointer is the pair of the stack and the number of words
pushed. A place in the code is a word like any other, because `ra` is saved on
the stack and `ret` jumps to what is read back; reading back anything else stops
the model (there is no action for it), and TLC reports a deadlock. Operators
whose name has a suffix (`Candidate_FromZero`, `TrapStack_Caller`) are
deliberately wrong variants, next to the operator they vary: each property has
one that breaks it, recorded in `PROJECT.json`; no specification uses them.

**What is one step.** Statements that touch one piece of state are a step each;
where several are merged, an exception is possible before and after them, not in
between. Merged are: in `create_process` the search for a slot with the thirteen
stores that lay out the context (they go to the slot's `stack`, not to the fields
that say it is taken), and in P one call of `alloc_pages` or `map_page`;
`switch_context` is two steps, up to the store of `sp` and from its load (three in
C: the load of `sp` is one of its own); the register stores of `kernel_entry` are
one step (all of `kernel_entry` in C, where its stores cannot trap: its stack is the one
in use). The four stores to the control block are
four steps: between `state` and `page_table` a slot is `PROC_RUNNABLE` and
has no table, and an exception may find it so.

What the models add to the code: garbage in `.bss`, in free RAM and in the
registers at boot; `console`, the last thing printed; `blocks` and `tables`, what
the allocator has returned; `interrupted` and `called`, copies of the state at
an exception or a call. What they abstract: registers other than `ra`, `sp` and
the callee-saved ones, which compiled C does not keep across a call; the
contents of C frames, `LOCALS` arbitrary words that a process rewrites at will
in each turn and must find unchanged after a yield; the letters printed.

## Runs

| Run | Question | What it shows |
|---|---|---|
| `scheduler` | three processes in a full table, address spaces switched with them, the TLB filled at any moment | fair round robin with private registers and frames; contexts are never damaged; the inductive invariant `SchedulerInv`; no process runs with a cached translation of another, for which the second `sfence.vma` is needed |
| `scheduler_sizes` | every number of slots (1 to 3) and processes (0 to 3) | with slots to spare, none to spare, too few, and with nothing to run, the kernel panics as its messages say or serves every process for ever |
| `paged_kernel` | the page-tables kernel as a whole, an exception before any step once `stvec` is set, a TLB filled at any moment; enough of everything, a slot too few, too little RAM | every table the hardware may use maps all of the kernel to itself, so neither `yeild` nor `kernel_entry` can lose its stack; processes in use keep space and context while the next is half made, and none but the one being filled in is RUNNABLE without a table; the trap frame is complete, other contexts intact when the exception is in a process, every exception is reported, also one in `kernel_entry`; without one, every process is served for ever or the PANIC that applies is reached |
| `trap_live_stack` | finding | the frame overwrites the interrupted process's frames |
| `bump_allocator` | every sequence of requests until RAM is used up | refines `PageSupply` |
| `page_tables` | `map_page` with any arguments, aligned or not, on several tables, in memory full of ones | tables are never shared or lost; refines `AddressSpaces`, each call mapping in the table of its argument the page of its `vaddr` to the frame of its `paddr` with its flags |
| `spaces` | idle and two or three processes, free RAM holding anything; a slot too few; RAM that runs out in the middle of a mapping | each process in use has the identity map of exactly kernel and free RAM, in tables of its own, at the expected cost; a failed creation leaves the others untouched and nothing half-made in use; the PANIC is the right one |
| `two_processes` | processes switching by name, an exception before any step, within `switch_context` (three steps) too | round robin although B's control block starts with the wrong stack; the trap frame is complete and nothing below it, no saved context, is touched |
| `two_processes_stack` | finding | B runs on the boot stack |
| `common` | the five small kernels from `boot`, over any memory; `printf` of messages of up to three tokens; every legal call of the memory functions on four bytes | each kernel shows its message in the end, at no time anything else, clears `.bss` and nothing else, and does not return; output equals the concatenation of what each token should print; results and memory of the C functions; which overlaps are safe |
| `printf_int_min` | finding | `%d` of the least int |
| `output_bss` | finding | the output kernel prints with `.bss` as it found it |

`scheduler` runs `AddressSwitch`, the scheduler of P: every action of `Scheduler`
is a step of it, so the properties of `Scheduler` are checked there, and the steps
that only touch `satp` and the TLB are stutters of `RoundRobin`. The scheduler
of S on its own is what `scheduler_sizes` runs; only there can `kernel_main` be
resumed (`Unreachable`). In `scheduler` the table is exactly full; that a slot too
few panics is shown by `scheduler_sizes` and `paged_kernel`, and is part of
`PanicsJustified`, which is proved for every size. P's `kernel_entry` is that of S, so the properties of
`TrapEntry` are checked in `paged_kernel`, in a larger world than S: exceptions
are possible inside `create_process` and the `asm` block too.

`scheduler_sizes`, `spaces` and `paged_kernel` check several sizes in one run: the MC module
instantiates the specification with the size as parameter and a variable that
never changes says which instance is running. Properties that depend on the size
have `AtEverySize` in their name; the others speak of the entries there are.

### Bounds, and why they are enough

* Scheduler: up to 3 processes in up to 4 slots, so that the scan starts at every
  slot, skips idle, skips unused slots, and wraps; a saved register of 2 values
  (two registers in `two_processes`, so that swapped ones show); `LOCALS` = 1,
  which separates frames from contexts. `SchedulerInv` is proved for every size.
* `paged_kernel`: tables of 5 entries, one register; slots and processes (2, 2),
  (3, 2) and (4, 3): a slot too few, all in use, and RAM (15 pages, 5 for each
  process) that runs out in the fourth mapping. Free RAM starts out full of ones
  here; `spaces` varies it. One exception per behaviour outside `kernel_entry`,
  as `handle_trap` does not return.
* Traps: stacks are exactly as deep as the deepest use, so an overflow shows as a
  type error.
* Allocator: 8 words of RAM in pages of 2, requests of 1 to 3 pages: every way to
  fill RAM, to miss the end by one page and to hit it. Proved for every size.
* `page_tables`: tables of 3 entries and 5 free pages: two pages under one entry,
  two entries, several tables, and exhaustion in each place that allocates.
* `spaces`: tables of 6 entries; the kernel starts in the middle of a range, as
  0x80200000 does, and the mapping crosses three range boundaries (the code's
  crosses 16 or 17).
* `common`: integers of 8 bits. All values occur alone; those next to a power of
  ten or to the ends of the type occur between other tokens, a dangling `%` last.
  Memory of 4 bytes of 3 values; any two ranges, adjacent, equal, overlapping
  either way or empty. For the kernels byte 0 is `.data`, 1 and 2 are `.bss`, 3
  is the boot stack; `FREE_RAM` is 0x90, an address that is negative as an
  `int`, as those above 0x80000000 are in the code. Messages are shortened to one
  letter for their text and one token for each specifier; the `%d` of `__LINE__` in `PANIC` is left out.

`CHECK_DEADLOCK FALSE` stands where the program really stops: in a PANIC
(`for (;;) {}`), at the point where a model hands over (`ProcessSpaces` at
`yeild`), or at the return of a function. In `scheduler`
TLC shows that the kernel never gets stuck.

### Fairness

Weak fairness of the code's own steps, all of them together (`FairSpec`,
`FairSwitchSpec`, `FairOnStackSpec`, `PagedSpec`, `CommonSpec`): one hart executes
instructions for ever, `delay` is a finite loop, no statement waits for anything
and there is no interrupt to be starved by. No fairness is put on exceptions
(`Raise`, `Exception`) or on the TLB's refills (`CacheTranslation`): they need not happen.

## Proofs

tlapm proves the following for every value of the constants allowed by the
named assumptions.

**Scheduler** (`Scheduler_proof`; `ContextAssumption`, `SchedulerAssumption`: any
number of slots, processes, registers; stacks at least as deep as one frame and
one context). `Spec => []SchedulerInv`, and from it `TypeOK`, `OwnStack`,
`ContextsIntact` and `PanicsJustified`. None of the four is inductive:
`RestoreContext` jumps to a word it reads from a stack, so even "pc is a place in
the code" needs that the stack read holds an intact context, which needs that
every other process only wrote to its own stack, which needs that `curr_proc`,
`sp` and `sscratch` name the same process when a process runs, which needs
`yeild` to have picked slot p for process p, which needs the layout of the
table. `SchedulerInv` is that chain: `TableInv` (slot 0 is idle, process p has
slot p and pid p + 1), `ControlInv` (what each place relies on), `OwnStack`,
`ContextsIntact`, `PanicsJustified`. There is one lemma per action; the lemmas
beneath say that a context popped is the context pushed (`PopAfterPush`), that a
fabricated one pops to the entry point (`PopInitialContext`), that the first
free slot is the next one (`FirstFreeIsNext`) and that the scan finds a process
(`ScanFindsProcess`, the modular arithmetic of pid and slot).

**Round robin** (`SchedulerRefinement_proof`, same assumptions).
`Spec => RR!Spec`: every step of the scheduler is one of `RoundRobin` or leaves
all it sees unchanged. What it sees of a suspended process is read back from its
stack, so the proof is about memory: a step of one process is invisible to the
others because it stores only to its own stack, and a process that gives up the
hart goes from "in registers" to "on the stack" without a change because what is
popped is what was pushed. `TurnsInv` adds to `SchedulerInv` whose turn is next
while `curr_proc` already names one process and the registers still hold
another's; `ScanInOrder` shows that the scan by pid, over a table with idle in it
and with slots to spare, finds the process after the caller and skips none.

**Address switch** (`SchedulerRefinement_proof`, same assumptions).
`SwitchSpec => []TranslationsAreOwn`. `yeild` may return to its caller at once, so
the property must also hold where it is about to pick; and inside the `asm`
block it depends on how far the block has come: that is `AsmInv`, proved
together with `SchedulerInv`, `SwitchTypeOK` and the property. Every step of the
scheduler is first reduced to where control goes and whether `next` and
`curr_proc` change (`SchedulerSteps`); that a context popped resumes the process
`next` names comes from `ContextsIntact`. As switching address spaces is invisible to
the scheduler's variables, `SwitchSpec => RR!Spec` follows from the round robin.

**Trap entry** (`TrapEntry_proof`; also `TrapAssumption`: the cause raised is
not itself the store fault, and a stack has room for a frame).
`TrapSpec => []TrapInv`, from it `FrameHoldsRegisters`,
`CauseReportedOnceScheduled` and `OthersStayResumable`. An exception may cut in
before any step, so `TrapInv` contains `SchedulerInv` only while no trap is being
taken; from then on `EntryInv` says what each instruction of `kernel_entry` has
saved so far. That `sscratch` always names the top of some process's stack once
one has been chosen (`ScratchInv`) is what excludes the nested store fault; before
that the loop of faults is part of the behaviours the theorem covers.

**Two-process kernel** (`TrapOnStack_proof`; `ControlAssumption`,
`OnStackAssumption`: a stack holds a C frame, a context and a trap frame).
`OnStackSpec => []OnStackInv`, from it `OnStackTypeOK`, `EverythingSaved` and
`ResumableUntilTrap`, and `OnStackSpec => TakeTurns`, the implementation of
`RoundRobin`, with exceptions before any step. `PlaceInv` says what each
statement relies on; it speaks of the stack a process lives on (`Home`), which is
the boot stack for B, and not of the one its control block was given.

**Allocator** (`ProcessSpaces_proof`; `AllocatorAssumption`). `Spec => []BumpInv`:
the addresses given out are exactly those from `__free_ram` to `next_paddr`.
From it `TypeOK`, `BlocksDisjoint`, `ZeroesOnlyTheNewBlock`, and that
`BumpAllocator` implements `PageSupply`, refusals included. `AllocatorAssumption`
says that `__free_ram_end` plus the largest request does not reach 2^32. The
linker scripts and the callers (1, 3 and 5 pages, 64 MB from about 0x80220000)
satisfy it; the function itself does not check it.

**Page tables** (`ProcessSpaces_proof`; also `PagingAssumption`: a page holds as
many words as a table has entries, free RAM starts at a page boundary, an entry
is a page number and flags of which V is the lowest bit). `PagingSpec =>
[]PagingInv`, from it `PagingTypeOK` and `TablesPrivate`, and `PagingSpec =>
ImplementsAddressSpaces`: every step is one of `AddressSpaces` or leaves all mappings
alone (`AS!Spec`), and a call of `map_page` that returns has mapped, in the space
of `table1`, the page of `vaddr` to the frame of `paddr` with `flags`, its own
arguments, while one that panics has mapped nothing (`Serves`). `PoolInv` says that the allocator gives out whole
pages, upwards; `TreeInv` that they form trees of two levels that share nothing
(`Child` is the table an entry points to). With that a store to one entry changes
one page of one address space: the page walks before and after are compared for
every table and page (`MapPageWalks`). Memory not given out may hold
anything. The arithmetic of addresses, all division and remainder, is kept in
`ArithmeticLemmas`. That flags are an even number of values (the address's bits
lie above V) is an assumption the proof needed and the code's layout satisfies.

**Processes' spaces** (`ProcessSpaces_proof`; also `SpacesAssumption`: kernel and
free RAM lie at page boundaries, kernel below). `SpacesSpec => []SpacesInv`, from it
`InUseHaveWholeSpace` and `OwnTables`. A slot is in use once `create_process` is
done with it: every `PROC_RUNNABLE` one but the slot it stands in when it has stored
`state` and not yet `page_table` (lines 330 to 332). `UnderwayInv` is the invariant of
the mapping loop: the table under construction is nobody's yet and maps exactly
the pages up to `paddr`; every call of `map_page` extends it and, by the
refinement, changes no table of a process in use. `Footprint` needs `CostInv` besides: the
number of pages given out is that of the created processes' tables, the new
first-level table, and one for each 4 MB range the loop has touched; so
"out of memory" is said only when the tables needed exceed the free RAM.

**Page-tables kernel as a whole** (`PagedKernel_proof`; `PagedAssumption`, the
layout's part of the assumptions above, with `SchedulerAssumption` and
`TrapAssumption`). `PagedSpec => []PagedInv`, from it `KernelAlwaysMapped`,
`CreatedStayComplete`, `PagedTypeOK` and the three properties of the traps. The
invariants of the parts are reused: a step is one of `TrapEntry`'s (and so of
`Scheduler`'s) or one of `ProcessSpaces`', and the theorems' lemmas are
instantiated, not repeated. `KernelInv` is `TrapInv` (until memory runs out, a
PANIC the scheduler's module does not have); `MemoryInv` is `SpacesInv` (until a
PANIC the page tables' module does not have); `OneTable` joins the two halves of
`struct process`, stored to a field at a time; `ServingInv` says that once the
processes run no creation is under way, so that no slot is without its table; `HardwareInv` says that `satp` and the TLB only name processes that
can run; `BootInv` that an exception while processes are being created pushes
its frame on the boot stack or faults below address 0, away from the contexts
just laid out. `KernelAlwaysMapped` is the meeting of the parts: only runnable
processes' tables are installed, and those map everything from the moment
they are runnable, through every later creation and its failures.

**Memory functions and small kernels** (`SmallKernels_proof`; `MemAssumption`,
`KernelsAssumption`: memory of any size, bytes of any values, `.bss` anywhere in
it, free RAM for eight pages and the `unimp` instruction anywhere in the address
space). `CommonSpec => []KernelsInv`, from it `StoresCorrect`, `StrcmpCorrect`, the
types of `MemString`, `NeverReturns` and `ClearsBssOnly`. Each loop has the
invariant a textbook would give it (`MemsetInv`, `MemcpyInv`, `StrcpyInv`,
`StrcmpInv`): the bytes before `d` are written, the others as they were at the call.
The overlaps enter where a byte is read: the source byte must not have been
overwritten yet, which holds if the destination does not start inside the
source. `LastLine` is where each `kernel_main` stops.

**printf** (`SmallKernels_proof`; also `PrintfAssumption`: an int has a positive
multiple of four bits, and `MessagesAssumption`: a message is a sequence of
tokens over `Char`, a percent sign that nothing follows being the last of them).
`CommonSpec => []OutputInv`, from it `OutputCorrect` and `CommonTypeOK`: for every
message, however long, `printf` prints what its tokens ask for, in order, and
takes exactly their arguments. `PrintfInv` counts the tokens done: with k of them
scanned, `at` is past the characters of those k, `args` is what the others need and
`out` is what those k print. Within a token, `PutsDigits` says that the digits down
to the place of `10 * divisor` have been printed (`Leading`) and that `val` is the
remainder there; `PutsHex` that the digits down to `i` have. Three facts about data
carry it. The characters at `at` are those of the next token (`Positions`), so
the specifier the code reads is the one the argument was passed for
(`SpecifierToken`). A digit of the remainder is the digit of the number
(`RemainderDigit`), for `%x` also where the shift copies the sign (`HexDigit`). And
`10 * divisor` never overflows: if it did it would be 2^(BITS-1), and no power of
two is a multiple of ten (`DivisorIsInt`, `NoFives`); this is why `val / divisor >= 10`
can be evaluated for every value. `%d` of `INT_MIN` may print anything, but leaves
the scan and the arguments in step: the tokens after it are still scanned right.

**The console** (`SmallKernels_proof`, same assumptions). `CommonSpec =>
[]ShowsNothingElse`: at every step the console shows the beginning of what the
kernel is there to show, and all of it once `kernel_main` loops or the message of
a `PANIC` is complete; that it gets there is `ShowsItsMessage`, which is liveness.
`ConsoleInv` says what the calls so far have asked for (`Asked`), that
`printed`, the earlier calls, and the running one make that up, and that
the addresses the memory kernel prints are `FREE_RAM` and five pages further
(`RamAt`; the sum does not wrap). With `OutputInv`, `out` is the beginning
of the running call (`Begins`), so the console is the beginning of `Asked`, and
`AskedBegins` carries it on to `Shown`. Addresses above the largest int are
printed right although `printf` takes an int (`AddressPrints`).

A format is the concatenation of its tokens (`FlattenSeq`) and a numeral or a power
is a recursive function, so those proofs need induction. The library's
induction theorems take an operator as parameter, which the provers cannot
instantiate; `ArithmeticLemmas` states induction for a set of numbers instead
(`InductionOnNat`, from `MinIsLeast`) and recursion for a function of steps
(`RecursionOnNat`). `FlattenSteps`, `NumeralSteps` and `PowersOfTwo` derive from them what
each definition unfolds to.

**Only model-checked**: `PagedTypeAtEverySize` as such, which chooses among several sizes
in one run (`PagedTypes` states `PagedTypeOK` for the module's constants, and so for
each size); and everything under
fairness (`EveryProcessPrints`, `KernelMainEnds`, `EveryTrapReported`,
`CreationEnds`, `KernelOutcome`, `ShowsItsMessage`, `BothPrint`, the fairness half
of `ImplementsFairRoundRobin`), which TLAPS 1.4 does not reach.

## Disagreements found

Each is a run that TLC ends with a counterexample.

1. S `README.md:160` promises safe stack switching during exceptions; `sscratch`
   names the top of the very stack the process runs on, so the frame overwrites
   live words (`trap_live_stack`, which looks at the interrupted stack only). Harmless only because `handle_trap` panics.
2. C `README.md:124` says each process has its own kernel stack; B runs on the
   boot stack (`two_processes_stack`). It works all the same: `two_processes`.
   Line 90 of the same file speaks of a reliable kernel stack reached through
   `sscratch`; C's `kernel_entry` only keeps the interrupted `sp` there and
   stores the frame on the interrupted stack (`TrapOnStack`; no run of its own, as
   `EverythingSaved` shows that the frame is complete and damages nothing).
3. `printf` supports `%d` (`common.c:33`), but not for the least int, whose
   negation overflows (`printf_int_min`).
4. The README of the output kernel, line 52, says that `kernel_main` zeroes
   `.bss`; it does not call `memset` at all (`output_bss`). The kernel has no
   variable there, so nothing depends on it yet.

Three more things a reader of the documentation should know, which follow from
properties that hold. `InUseHaveWholeSpace` says that every address space maps
all of the kernel, the other processes' stacks included, writable: there is no
isolation between processes yet, whatever P `README.md:232` suggests. And
`CauseReportedOnceScheduled` needs its condition: before the first `yeild`
`sscratch` is 0, and the cause reported is the store fault of `kernel_entry`.
All tables being equal, a stale translation would do no harm in this kernel: that
`TranslationsAreOwn` holds matters for the step after it.

## Assumptions about the outside

`sscratch` is 0 when OpenSBI enters the kernel; a store just below address 0 traps
(QEMU's `virt` has no memory there); the C compiler keeps callee-saved registers
and its own frame across calls and uses nothing below `sp`; the console accepts
every character; the Sv32 walk reads the two tables as the privileged
specification says (`Walk`), and the TLB may cache any entry of the installed
table at any time and forgets all on `sfence.vma`.

The small kernels print through `ecall` with extension 1, the legacy
`console_putchar`; the firmware returns and prints exactly that character.
`unimp` is illegal, and `stval` then holds zero or the instruction.

Starting points: `ProcessSpaces` and `ProcessControl` start after `memset` has
cleared `.bss`, which `Scheduler` and `PagedKernel` model. `ProcessSpaces` leaves
out the stack frame `create_process` lays, which is `Context`'s, and pids, which
are `Scheduler`'s; `AddressSwitch` names a page table by its slot. `PagedKernel`
joins them: `spaces` is the `state` and `page_table` of the entries whose pid,
state and sp are `procs`, and `PagedTypeOK` says that both halves agree on
`state`.
In `PagedKernel` the kernel's loads and stores go to addresses mapped to
themselves (`KernelAlwaysMapped`), so stacks stay functions named by their
process instead of words of `memory`.

Not modelled: the restoring half of `kernel_entry` (unreachable, `handle_trap`
panics); interrupts (never enabled); the inside of OpenSBI; stack overflow (the
kernels' call depth is a constant far below the 8 KB of a stack); build files.

## Plan

Done, in this order: `Scheduler` with `RoundRobin`, its proof, `TrapEntry`,
`BumpAllocator` with `PageSupply` and its proof, `PageTables`, `ProcessSpaces`,
`AddressSwitch`, `ProcessControl`, `TrapOnStack`, `Printf`, `MemString`,
`PagedKernel`, `SmallKernels`.  Every kernel of the course has its model.

Proved since: the refinements of `RoundRobin` by both kernels and of
`AddressSpaces` by the page tables, the trap entries, the processes' spaces, the
page-tables kernel as a whole, the memory functions and the small kernels, and
`printf`, and the small kernels' console. No safety property is left without a theorem.

Next, should the code grow: user mode (`sret`, the restoring half of `kernel_entry`
becomes reachable) and a timer interrupt (`Exception` becomes fair, and `handle_trap`
returns).

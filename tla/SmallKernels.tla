----------------------------- MODULE SmallKernels -----------------------------
(***************************************************************************)
(* The five kernels that run straight through kernel_main: the simple one, *)
(* output-from-the-kernel, panic-state-in-kernel, exception-handling and   *)
(* memory-allocation.  A kernel is the list of its statements; what they   *)
(* call is printf and memset, one step of their loops at a time, and       *)
(* alloc_pages.  Messages are shortened to the tokens that matter.         *)
(***************************************************************************)
EXTENDS Printf, MemString

CONSTANTS
  BSS, BSS_END,   \* in MemString's memory: .data is below, the boot stack above
  PAGE_SIZE, FREE_RAM, FREE_RAM_END,
  UNIMP           \* the address of the unimp instruction

\* The letters are those of the kernels' messages, shortened as below.
ASSUME KernelsAssumption ==
  /\ {"H", "R", "V", "=", "P", "k", "b", "u"} \subseteq Char
  /\ BSS \in Address /\ BSS_END \in Address /\ BSS <= BSS_END
  /\ FREE_RAM \in Nat /\ PAGE_SIZE \in Nat \ {0} /\ FREE_RAM_END \in 0 .. TwoTo[BITS] - 1
  /\ FREE_RAM + 8 * PAGE_SIZE <= FREE_RAM_END
  /\ UNIMP \in 0 .. TwoTo[BITS] - 1

VARIABLES
  kernel,               \* which kernel boots, or "none" for a call by itself
  line,                 \* the statement of kernel_main that is next
  stvec,
  paddr0, paddr1,       \* locals of the memory kernel's kernel_main
  next_paddr, blocks,   \* of its alloc_pages
  panic,                \* what the kernel has panicked about
  printed               \* what the console shows of the calls before this one

ram == <<paddr0, paddr1, next_paddr, blocks>>
kernelState == <<kernel, line, stvec, ram, panic, printed>>
kernelVars == <<vars, memVars, kernelState>>

\* Free RAM holds zeros here; what else it may hold matters in BumpAllocator.
Pages == INSTANCE BumpAllocator WITH
  WORD <- TwoTo[BITS], Requests <- {3, 5}, Contents <- {0},
  memory <- [a \in 0 .. TwoTo[BITS] - 1 |-> 0]

\* A uint32_t taken as the int printf wants.
AsInt(u) == IF u > INT_MAX THEN u - TwoTo[BITS] ELSE u
-----------------------------------------------------------------------------
(* The console *)

\* The firmware: extension 1 is the legacy console_putchar; others print nothing.
ecall(a0, a6, a7) == IF a7 = 1 THEN <<a0>> ELSE <<>>

\* The two identifiers in each other's registers.
call_sbi_Swapped(ch, fid, eid) == ecall(ch, eid, fid)
call_sbi(ch, fid, eid) == ecall(ch, fid, eid)
putchar(ch) == call_sbi(ch, 0, 1)

Console == printed \o FlattenSeq([k \in DOMAIN out |-> putchar(out[k])])
-----------------------------------------------------------------------------
(* The kernels *)

Do(what) == [do |-> what]
Say(m) == [do |-> "printf", message |-> m]

\* "PANIC: ", the file's name and the message; the "%d" of __LINE__ is left out.
PANIC(m) == [do |-> "panic", message |-> <<Literal("P"), Text(<<"k">>)>> \o m]

SimpleMain == <<Do("memset"), Do("for")>>

OutputMain ==
  <<Say(<<Literal("H")>>), Say(<<Literal("R"), Text(<<"V">>)>>),
    Say(<<Literal("="), Signed(1 + 2)>>), Do("for")>>

PanicMain == <<Do("memset"), PANIC(<<Literal("b")>>), Say(<<Literal("u")>>)>>

ExceptionMain == <<Do("memset"), Do("stvec"), Do("unimp")>>

MemoryMain ==
  <<Do("memset"), Do("paddr0"), Do("paddr1"), Say(<<Literal("0"), Bits(AsInt(paddr0))>>),
    Say(<<Literal("1"), Bits(AsInt(paddr1))>>), PANIC(<<Literal("b")>>)>>

kernel_main ==
  CASE kernel = "simple"    -> SimpleMain
    [] kernel = "output"    -> OutputMain
    [] kernel = "panic"     -> PanicMain
    [] kernel = "exception" -> ExceptionMain
    [] kernel = "memory"    -> MemoryMain
    [] kernel = "none"      -> <<>>

\* boot: the registers and the memory hold anything, out of printf and memset.
boot ==
  /\ kernel \in {"simple", "output", "panic", "exception", "memory"}
  /\ mem \in [Address -> ByteValues]
  /\ line = 1 /\ stvec = "firmware"
  /\ paddr0 = 0 /\ paddr1 = 0 /\ next_paddr = FREE_RAM /\ blocks = {}
  /\ panic = "none" /\ printed = <<>>

\* kernel_main is at this statement, no function it called is running.
At(what) ==
  /\ panic = "none" /\ pc = "return" /\ running = "return"
  /\ line \in DOMAIN kernel_main
  /\ kernel_main[line].do = what

Call(m) ==
  /\ message' = m /\ at' = 1 /\ args' = ArgsOf(m) /\ pc' = "scan" /\ out' = <<>>
  /\ printed' = Console
  /\ UNCHANGED <<val, divisor, i, memVars>>

CallPrintf ==
  /\ At("printf")
  /\ Call(kernel_main[line].message)
  /\ line' = line + 1
  /\ UNCHANGED <<kernel, stvec, ram, panic>>

\* PANIC without its "while (1) {}".
Panic_Returns ==
  /\ At("panic")
  /\ Call(kernel_main[line].message)
  /\ line' = line + 1
  /\ UNCHANGED <<kernel, stvec, ram, panic>>

\* The message, then "while (1) {}": there is no next statement.
Panic ==
  /\ At("panic")
  /\ Call(kernel_main[line].message)
  /\ panic' = "PANIC"
  /\ UNCHANGED <<kernel, line, stvec, ram>>

\* From the start of memory, where .data is.
BssStart_Data == 0
BssStart == BSS

\* memset(__bss, 0, __bss_end - __bss)
CallMemset ==
  /\ At("memset")
  /\ running' = "memset" /\ d' = BssStart /\ s' = 0 /\ n' = BSS_END - BssStart
  /\ called' = [f |-> "memset", d |-> d', s |-> s', n |-> n', mem |-> mem]
  /\ line' = line + 1
  /\ UNCHANGED <<vars, mem, result, kernel, stvec, ram, panic, printed>>

SetTrapVector ==
  /\ At("stvec")
  /\ stvec' = "kernel_entry"
  /\ line' = line + 1
  /\ UNCHANGED <<vars, memVars, kernel, ram, panic, printed>>

\* "unimp": kernel_entry, then handle_trap with illegal instruction (2) in
\* scause and, in stval, nothing or the instruction, and its PANIC.
Unimp ==
  /\ At("unimp")
  /\ stvec = "kernel_entry"
  /\ \E stval \in {0, 1} :
       Call(PANIC(<<Bits(2), Bits(stval), Bits(AsInt(UNIMP))>>).message)
  /\ panic' = "PANIC"
  /\ UNCHANGED <<kernel, line, stvec, ram>>

\* alloc_pages(5), then alloc_pages(3).
Allocate ==
  /\ \/ At("paddr0") /\ Pages!AllocPages(5) /\ paddr0' = next_paddr /\ UNCHANGED paddr1
     \/ At("paddr1") /\ Pages!AllocPages(3) /\ paddr1' = next_paddr /\ UNCHANGED paddr0
  /\ line' = line + 1
  /\ UNCHANGED <<vars, memVars, kernel, stvec, printed>>

\* printf or memset goes on.
Library ==
  /\ \/ Next /\ UNCHANGED memVars
     \/ MemNext /\ UNCHANGED vars
  /\ UNCHANGED kernelState

KernelsNext ==
  \/ CallPrintf \/ Panic \/ CallMemset \/ SetTrapVector \/ Unimp \/ Allocate
  \/ Library

\* A kernel boots, or one function of common.c is called by itself.
PrintfIdle ==
  /\ message = <<>> /\ at = 1 /\ args = <<>> /\ pc = "return"
  /\ val = 0 /\ divisor = 0 /\ i = -1 /\ out = <<>>

MemIdle ==
  /\ running = "return"
  /\ d = 0 /\ s = 0 /\ n = 0 /\ result = 0
  /\ called = [f |-> "none"]

NoKernel ==
  /\ kernel = "none" /\ line = 0 /\ stvec = "firmware"
  /\ paddr0 = 0 /\ paddr1 = 0 /\ next_paddr = FREE_RAM /\ blocks = {}
  /\ panic = "none" /\ printed = <<>>

CommonInit == \/ Init /\ MemIdle /\ mem = [a \in Address |-> 0] /\ NoKernel
              \/ PrintfIdle /\ MemInit /\ NoKernel
              \/ PrintfIdle /\ MemIdle /\ boot

CommonSpec ==
  CommonInit /\ [][KernelsNext]_kernelVars /\ WF_kernelVars(KernelsNext)
-----------------------------------------------------------------------------
(* Correctness *)

\* Types of printf and of the memory functions.
CommonTypeOK == PrintfTypeOK /\ MemTypeOK

\* kernel_main does not return: boot jumps to it, so that ra holds anything.
\* The panic and memory kernels rely on PANIC for it, the exception kernel on
\* its trap.
NeverReturns == kernel # "none" => line \in DOMAIN kernel_main

\* Clearing .bss clears all of it, and neither .data, where next_paddr is,
\* nor the boot stack memset itself runs on.
ClearsBssOnly == (kernel # "none" /\ Returned("memset")) =>
  mem = [a \in Address |-> IF a \in BSS .. BSS_END - 1 THEN 0 ELSE old[a]]

\* What a reader of the console should see in the end.
Shown ==
  CASE kernel = "simple" -> {<<>>}
    [] kernel = "output" -> {<<"H", "R", "V", "=", "3">>}
    [] kernel = "panic"  -> {<<"P", "k", "b">>}
    [] kernel = "exception" ->
         {<<"P", "k">> \o PrintsOf(<<Bits(2), Bits(stval), Bits(UNIMP)>>) : stval \in {0, 1}}
    [] kernel = "memory" ->
         {<<"0">> \o PrintsOf(<<Bits(FREE_RAM)>>)
           \o <<"1">> \o PrintsOf(<<Bits(FREE_RAM + 5 * PAGE_SIZE)>>) \o <<"P", "k", "b">>}

\* kernel_main loops at its end, or in a PANIC whose message is complete.
Ended == At("for") \/ (panic # "none" /\ pc = "return")

\* The console never shows anything but the beginning of the message, and all
\* of it when the kernel has come to its end.
ShowsNothingElse == kernel # "none" =>
  /\ \E m \in Shown : IsPrefix(Console, m)
  /\ Ended => Console \in Shown

\* Each kernel shows its message and nothing after it: the sum, the PANIC,
\* the cause and place of the exception, two blocks five pages apart.
ShowsItsMessage == <>[](kernel # "none" => Console \in Shown)

\* output-from-the-kernel/README.md:52: "The `.bss` section is initialized to
\* zero in `kernel_main`": it is zero when the kernel starts to print.
BssInitialized ==
  (kernel # "none" /\ message # <<>>) => \A a \in BSS .. BSS_END - 1 : mem[a] = 0
=============================================================================

-------------------------- MODULE TrapOnStack_proof --------------------------
(***************************************************************************)
(* Proofs about the two-process kernel and the exception entry it shares   *)
(* with the exception-handling kernel, for any number of callee-saved      *)
(* registers, stack words and table entries.                               *)
(***************************************************************************)
EXTENDS TrapOnStack, ArithmeticLemmas

\* A complete context for statement l of p, d words down the stack p lives on.
HasContext(p, d, l) ==
  /\ procs[p].sp = [base |-> Home(p), depth |-> d]
  /\ SavedRa(stack[Home(p)], d) = Body(p, l)
  /\ SavedSRegs(stack[Home(p)], d) \in [SReg -> Vals]

\* Only A is ever resumed at its first statement: B is called.
Resumable(p) ==
  (p = A /\ HasContext(p, FRAME, "start")) \/ HasContext(p, LOCALS + FRAME, "delay")

\* kernel_main creates A in slot 0 and B in slot 1, and is left for good when
\* it calls proc_b_entry.
SetupInv ==
  /\ pc[1] = -1 => sp = Top(BOOT) /\ pc # KM("unreachable")
  /\ pc \in {KM("stvec"), KM("create_a")} =>
       \A i \in Slots : procs[i].state = "PROC_UNUSED"
  /\ pc = KM("create_b") => \A i \in Slots : procs[i].state = "PROC_UNUSED" <=> i # A
  /\ pc \in {KM("create_b"), KM("call")} => HasContext(A, FRAME, "start")

\* What each statement of a process's code relies on.
PlaceInv(p) ==
  /\ pc = Body(p, "start") => sp = [base |-> Home(p), depth |-> 0]
  /\ pc \in {Body(p, l) : l \in {"putchar", "switch", "save", "delay"}} =>
       sp = [base |-> Home(p), depth |-> LOCALS]
  /\ pc = Body(p, "save") => ra = Body(p, "delay")
  /\ pc \in {Body(p, "load_sp"), Body(p, "restore")} =>
       /\ HasContext(p, LOCALS + FRAME, "delay")
       /\ SavedSRegs(stack[Home(p)], LOCALS + FRAME) = sregs
  /\ pc = Body(p, "load_sp") => sp = [base |-> Home(p), depth |-> LOCALS + FRAME]
  /\ pc = Body(p, "restore") => sp = procs[Other(p)].sp
  /\ pc[1] = p => Resumable(Other(p))

ControlInv == ControlTypeOK /\ SetupInv /\ \A p \in Procs : PlaceInv(p)

\* Until the frame is pushed the machine is the one that was interrupted.
OnStackInv ==
  /\ entry \in {"idle", "save", "handler", "panic"}
  /\ entry \in {"idle", "save"} => ControlInv
  /\ entry = "idle" => interrupted = NoTrap
  /\ entry # "idle" => interrupted.sp.base \in Stacks
  /\ entry = "save" =>
       interrupted = [sp |-> sp, ra |-> ra, sregs |-> sregs, stack |-> stack]
  /\ pc \in Labels /\ ra \in Words /\ sregs \in [SReg -> Vals]
  /\ sp \in StackPointers /\ sscratch \in StackPointers
  /\ EverythingSaved
-----------------------------------------------------------------------------
(* Contexts *)

Memory == [1 .. STACK_WORDS -> Words]

\* What switch_context pushes is what it pops.
LEMMA PopAfterPush ==
  ASSUME NEW mem \in Memory, NEW d \in Nat, d + FRAME <= STACK_WORDS,
         NEW r \in Words, NEW s \in [SReg -> Vals]
  PROVE  LET m == PushContext(mem, d, r, s)
         IN  /\ m \in Memory
             /\ SavedRa(m, d + FRAME) = r
             /\ SavedSRegs(m, d + FRAME) = s
<1> DEFINE m == PushContext(mem, d, r, s)
           w == ContextWords(r, s)
<1> USE ContextAssumption DEF FRAME, SReg
<1>1. /\ w[0] = r
      /\ \A k \in SReg : w[k] = s[k] /\ k \in 0 .. NSREGS
      /\ \A off \in 0 .. NSREGS : w[off] \in Words
  <2>1. \A off \in 0 .. NSREGS : w[off] = IF off = 0 THEN r ELSE s[off]
    BY DEF ContextWords
  <2>2. \A off \in 0 .. NSREGS : off = 0 \/ off \in SReg
    OBVIOUS
  <2>3. 0 \in 0 .. NSREGS /\ \A k \in SReg : k \in 0 .. NSREGS /\ k # 0 /\ s[k] \in Words
    BY DEF Words
  <2> HIDE DEF w
  <2> QED
    BY <2>1, <2>2, <2>3
<1>2. m = [i \in 1 .. STACK_WORDS |->
             IF i \in d + 1 .. d + NSREGS + 1 THEN w[d + NSREGS + 1 - i] ELSE mem[i]]
  <2>1. d + FRAME = d + NSREGS + 1
    OBVIOUS
  <2> QED
    BY <2>1 DEF PushContext
<1>3. m \in Memory /\ \A off \in 0 .. NSREGS : m[d + NSREGS + 1 - off] = w[off]
  <2> HIDE DEF m, w
  <2> QED
    BY <1>1, <1>2, PushedWords DEF Memory
<1>4. m[d + FRAME] = r /\ \A k \in SReg : m[d + FRAME - k] = s[k]
  <2> HIDE DEF m, w
  <2>1. d + FRAME - 0 = d + FRAME /\ d + FRAME = d + NSREGS + 1 /\ 0 \in 0 .. NSREGS
    OBVIOUS
  <2>2. m[d + FRAME - 0] = w[0] /\ \A k \in SReg : m[d + FRAME - k] = w[k]
    BY <1>1, <1>3, <2>1
  <2> QED
    BY <1>1, <2>1, <2>2
<1>5. SavedSRegs(m, d + FRAME) = s
  <2> HIDE DEF m, w
  <2> QED
    BY <1>4 DEF SavedSRegs
<1> QED
  BY <1>3, <1>4, <1>5 DEF SavedRa

\* The frame create_process lays out pops as its entry point and cleared registers.
LEMMA PopInitialContext ==
  ASSUME NEW mem \in Memory, NEW entryPoint \in Words, FRAME <= STACK_WORDS
  PROVE  LET m == InitialContext(mem, entryPoint)
         IN  /\ m \in Memory
             /\ SavedRa(m, FRAME) = entryPoint
             /\ SavedSRegs(m, FRAME) = [k \in SReg |-> Zero]
<1> DEFINE m == InitialContext(mem, entryPoint)
<1> USE ContextAssumption DEF FRAME, SReg
<1>1. m \in Memory
  BY DEF InitialContext, Memory, Words
<1>2. m[FRAME] = entryPoint
  BY DEF InitialContext
<1>3. \A k \in SReg : m[FRAME - k] = Zero
  BY DEF InitialContext
<1> QED
  BY <1>1, <1>2, <1>3 DEF SavedRa, SavedSRegs

\* A context stays complete while its control block and its stack stay.
LEMMA ContextStays ==
  ASSUME NEW p, procs'[p] = procs[p], stack'[Home(p)] = stack[Home(p)]
  PROVE  /\ Resumable(p)' = Resumable(p)
         /\ \A d, l : HasContext(p, d, l)' = HasContext(p, d, l)
BY DEF Resumable, HasContext

\* A process resumes on the stack it lives on.
LEMMA ResumedOnHome ==
  ASSUME NEW p \in Procs, Resumable(p)
  PROVE  \E l \in {"start", "delay"} :
           HasContext(p, (IF l = "start" THEN 0 ELSE LOCALS) + FRAME, l)
<1>1. 0 + FRAME = FRAME
  BY ContextAssumption DEF FRAME
<1> QED
  BY <1>1 DEF Resumable

LEMMA Homes ==
  /\ \A p \in Procs : /\ Home(p) \in Stacks /\ Other(p) \in Procs /\ Other(p) # p
                      /\ Home(p) # Home(Other(p)) /\ Other(Other(p)) = p
                      /\ p \in Slots /\ p # -1
  /\ BOOT \in Stacks /\ A \in Slots /\ Home(A) = A /\ BOOT # NULL
  /\ FRAME \in Nat /\ LOCALS + FRAME \in Depth /\ LOCALS \in Depth /\ FRAME \in Depth
  /\ 0 \in Depth /\ LOCALS \in Nat
BY ContextAssumption, ControlAssumption
   DEF Home, Stacks, Slots, Procs, A, B, BOOT, NULL, Other, FRAME, Depth

\* Once in a process's code, what has to be shown is about that process.
LEMMA InBody ==
  ASSUME NEW p \in Procs, NEW l, pc' = Body(p, l), ControlTypeOK', PlaceInv(p)'
  PROVE  ControlInv'
<1>1. pc'[1] = p
  BY DEF Body
<1>2. SetupInv'
  <2>1. pc'[1] # -1
    BY <1>1, Homes
  <2>2. \A k : pc' # KM(k)
    BY <2>1 DEF KM
  <2> QED
    BY <2>1, <2>2 DEF SetupInv
<1>3. ASSUME NEW q \in Procs, q # p
      PROVE  PlaceInv(q)'
  BY <1>1, <1>3 DEF PlaceInv, Body
<1> QED
  BY <1>2, <1>3 DEF ControlInv

\* A process's place in its own code, read off the invariant.
LEMMA BodyLabel ==
  ASSUME NEW p \in Procs, NEW l \in BodyLabels
  PROVE  /\ Body(p, l) \in Labels /\ Body(p, l) \in Words
         /\ Body(p, l)[1] = p /\ Body(p, l)[2] = l
BY DEF Body, Labels, Words
-----------------------------------------------------------------------------
(* Every step of the two-process kernel preserves ControlInv. *)

LEMMA ControlInitInv == Init => ControlInv
<1> SUFFICES ASSUME Init PROVE ControlInv
  OBVIOUS
<1> USE ContextAssumption, ControlAssumption
<1>1. ControlTypeOK
  <2>1. stack \in [Stacks -> [1 .. STACK_WORDS -> Words]]
    BY DEF Init, Words
  <2>2. procs \in [Slots -> [state : {"PROC_UNUSED", "PROC_RUNNABLE"}, sp : StackPointers]]
    BY DEF Init, StackPointers, NullSp, Depth
  <2>3. pc \in Labels /\ ra \in Words
    BY DEF Init, Labels, Words
  <2>4. sp \in StackPointers /\ sscratch \in StackPointers
    BY DEF Init, StackPointers, NullSp, Top, Stacks, Depth
  <2> QED
    BY <2>1, <2>2, <2>3, <2>4 DEF Init, ControlTypeOK
<1>2. SetupInv
  BY DEF Init, SetupInv, KM
<1>3. \A p \in Procs : PlaceInv(p)
  BY DEF Init, PlaceInv, KM, Body, Procs, A, B
<1> QED
  BY <1>1, <1>2, <1>3 DEF ControlInv

\* In kernel_main no process has a place in its code.
LEMMA InKernelMain ==
  ASSUME pc'[1] = -1
  PROVE  \A p \in Procs : PlaceInv(p)'
BY DEF PlaceInv, Body, Procs, A, B

LEMMA SetTrapVectorStep ==
  ASSUME ControlInv, SetTrapVector
  PROVE  ControlInv'
<1>1. /\ pc = KM("stvec") /\ pc' = KM("create_a") /\ stvec' = "kernel_entry"
      /\ UNCHANGED <<procs, stack, ra, sp, sregs, sscratch, console>>
  BY DEF SetTrapVector, cpu
<1>2. pc[1] = -1 /\ pc'[1] = -1 /\ pc' \notin {KM("create_b"), KM("call"), KM("unreachable")}
  BY <1>1 DEF KM
<1>3. ControlTypeOK'
  BY <1>1 DEF ControlInv, ControlTypeOK, Labels
<1>4. SetupInv'
  BY <1>1, <1>2 DEF ControlInv, SetupInv
<1> QED
  BY <1>2, <1>3, <1>4, InKernelMain DEF ControlInv

\* The slots create_process finds are A's and then B's.
LEMMA CreateStep ==
  ASSUME ControlInv, CreateA \/ CreateB
  PROVE  ControlInv'
<1> USE ControlAssumption
<1>0. PICK p \in Procs : /\ create_process(Body(p, "start"))
                         /\ IF p = A THEN pc = KM("create_a") /\ pc' = KM("create_b")
                            ELSE pc = KM("create_b") /\ pc' = KM("call")
  BY DEF CreateA, CreateB, Procs, A, B
<1>1. UNCHANGED <<ra, sp, sregs, stvec, sscratch, console>>
  BY DEF CreateA, CreateB, cpu
<1>2. pc[1] = -1 /\ pc'[1] = -1 /\ pc' # KM("unreachable") /\ pc' \in Labels
  BY <1>0 DEF KM, Labels
<1>3. ControlTypeOK /\ SetupInv
  BY DEF ControlInv
<1>4. Min(Free) = p
  <2>1. Free \in SUBSET Nat /\ Free # {} /\ p \in Free /\ \A i \in Free : p <= i
    <3>1. CASE p = A
      BY <1>0, <1>3, <3>1, Homes DEF SetupInv, Free, Slots, A
    <3>2. CASE p = B
      <4>1. \A i \in Slots : i \in Free <=> i # A
        BY <1>0, <1>3, <3>2 DEF SetupInv, Free, A, B
      <4> QED
        BY <3>2, <4>1, Homes DEF Free, Slots, A, B
    <3> QED
      BY <3>1, <3>2 DEF Procs
  <2>2. Min(Free) \in Free /\ Min(Free) <= p
    BY <2>1, MinIsLeast
  <2>3. Min(Free) \in Nat /\ p \in Nat /\ p <= Min(Free)
    BY <2>1, <2>2
  <2> QED
    BY <2>2, <2>3
<1>5. /\ stack' = [stack EXCEPT ![p] = InitialContext(@, Body(p, "start"))]
      /\ procs' = [procs EXCEPT ![p] = [state |-> "PROC_RUNNABLE",
                                        sp |-> [base |-> p, depth |-> FRAME]]]
  BY <1>0, <1>4 DEF create_process
<1>6. p \in Slots /\ p \in Stacks
  BY Homes DEF Stacks
<1>7. /\ InitialContext(stack[p], Body(p, "start")) \in Memory
      /\ SavedRa(InitialContext(stack[p], Body(p, "start")), FRAME) = Body(p, "start")
      /\ SavedSRegs(InitialContext(stack[p], Body(p, "start")), FRAME) \in [SReg -> Vals]
  <2>1. stack[p] \in Memory /\ Body(p, "start") \in Words /\ FRAME <= STACK_WORDS
    BY <1>3, <1>6, Homes, BodyLabel DEF ControlTypeOK, Memory, BodyLabels, Depth
  <2>2. [k \in SReg |-> Zero] \in [SReg -> Vals]
    BY ContextAssumption
  <2> QED
    BY <2>1, <2>2, PopInitialContext
<1>8. ControlTypeOK'
  <2>1. stack' \in [Stacks -> Memory]
    BY <1>3, <1>5, <1>6, <1>7 DEF ControlTypeOK, Memory
  <2>2. [base |-> p, depth |-> FRAME] \in StackPointers
    BY <1>6, Homes DEF StackPointers
  <2>3. procs' \in [Slots -> [state : {"PROC_UNUSED", "PROC_RUNNABLE"}, sp : StackPointers]]
    BY <1>3, <1>5, <1>6, <2>2 DEF ControlTypeOK
  <2> QED
    BY <1>1, <1>2, <1>3, <2>1, <2>3 DEF ControlTypeOK, Memory
<1>9. HasContext(A, FRAME, "start")'
  <2>1. CASE p = A
    <3>1. /\ procs'[A].sp = [base |-> A, depth |-> FRAME]
          /\ stack'[A] = InitialContext(stack[A], Body(A, "start"))
      BY <1>3, <1>5, <1>6, <2>1 DEF ControlTypeOK
    <3> QED
      BY <1>7, <2>1, <3>1, Homes DEF HasContext
  <2>2. CASE p # A
    <3>1. HasContext(A, FRAME, "start") /\ A \in Stacks /\ A \in Slots
      BY <1>0, <1>3, <2>2, Homes DEF SetupInv, Stacks
    <3>2. procs'[A] = procs[A] /\ stack'[A] = stack[A]
      BY <1>3, <1>5, <2>2, <3>1 DEF ControlTypeOK
    <3> QED
      BY <3>1, <3>2, ContextStays, Homes
  <2> QED
    BY <2>1, <2>2
<1>10. pc' = KM("create_b") =>
         \A i \in Slots : procs'[i].state = "PROC_UNUSED" <=> i # A
  <2> SUFFICES ASSUME pc' = KM("create_b")
               PROVE  \A i \in Slots : procs'[i].state = "PROC_UNUSED" <=> i # A
    OBVIOUS
  <2>1. p = A /\ pc = KM("create_a")
    BY <1>0 DEF KM
  <2> QED
    BY <1>3, <1>5, <2>1 DEF SetupInv, ControlTypeOK
<1>11. SetupInv'
  BY <1>0, <1>1, <1>2, <1>3, <1>9, <1>10 DEF SetupInv, KM
<1> QED
  BY <1>2, <1>8, <1>11, InKernelMain DEF ControlInv

\* proc_b_entry starts on the stack kernel_main runs on.
LEMMA CallProcBStep ==
  ASSUME ControlInv, CallProcB
  PROVE  ControlInv'
<1>1. /\ pc = KM("call") /\ ra' = KM("unreachable") /\ pc' = Body(B, "start")
      /\ UNCHANGED <<procs, stack, sp, sregs, stvec, sscratch, console>>
  BY DEF CallProcB
<1>2. sp = [base |-> Home(B), depth |-> 0] /\ HasContext(A, FRAME, "start")
  BY <1>1 DEF ControlInv, SetupInv, KM, Home, Top
<1>3. ControlTypeOK'
  <2>1. pc' \in Labels /\ ra' \in Words
    BY <1>1, BodyLabel DEF Labels, Words, Procs, BodyLabels
  <2> QED
    BY <1>1, <2>1 DEF ControlInv, ControlTypeOK
<1>4. Resumable(A)' /\ Other(B) = A
  <2>1. Resumable(A)
    BY <1>2 DEF Resumable
  <2> QED
    BY <1>1, <2>1, ContextStays DEF Other, A, B
<1>5. PlaceInv(B)'
  BY <1>1, <1>2, <1>4 DEF PlaceInv, Body
<1> QED
  BY <1>1, <1>3, <1>5, InBody DEF Procs

\* What the compiled body computes stays in its registers and its own stack.
LEMMA ComputeStep ==
  ASSUME ControlTypeOK, NEW p \in Procs, NEW d \in Int, Compute(d), sp.base = Home(p)
  PROVE  /\ sregs' \in [SReg -> Vals]
         /\ stack' \in [Stacks -> Memory]
         /\ \A b \in Stacks : b # Home(p) => stack'[b] = stack[b]
<1> USE ControlAssumption
<1>1. PICK w \in [1 .. LOCALS -> Vals] :
        stack' = [stack EXCEPT ![Home(p)] =
                    [i \in 1 .. STACK_WORDS |->
                       IF i \in d + 1 .. d + LOCALS THEN w[i - d] ELSE @[i]]]
  BY DEF Compute
<1>2. \A i \in d + 1 .. d + LOCALS : i - d \in 1 .. LOCALS
  OBVIOUS
<1>3. Home(p) \in Stacks /\ stack \in [Stacks -> Memory]
  BY Homes DEF ControlTypeOK, Memory
<1>4. [i \in 1 .. STACK_WORDS |->
        IF i \in d + 1 .. d + LOCALS THEN w[i - d] ELSE stack[Home(p)][i]] \in Memory
  BY <1>2, <1>3 DEF Memory, Words
<1>5. sregs' \in [SReg -> Vals]
  BY DEF Compute
<1> QED
  BY <1>1, <1>3, <1>4, <1>5

LEMMA ComputingStep ==
  ASSUME ControlInv, NEW p \in Procs, Start(p) \/ Delay(p)
  PROVE  ControlInv'
<1>1. /\ ControlTypeOK /\ PlaceInv(p)
      /\ pc = Body(p, "start") \/ pc = Body(p, "delay")
      /\ pc' = Body(p, "putchar")
      /\ UNCHANGED <<procs, ra, stvec, sscratch>>
      /\ console' \in {console, <<p, "start">>}
  BY DEF Start, Delay, ControlInv
<1>2. sp.base = Home(p) /\ Compute(0) /\ sp' = [base |-> Home(p), depth |-> LOCALS]
  <2>1. CASE Start(p)
    <3>1. sp = [base |-> Home(p), depth |-> 0] /\ 0 + LOCALS = LOCALS
      BY <1>1, <2>1, Homes DEF Start, PlaceInv
    <3> QED
      BY <2>1, <3>1 DEF Start
  <2>2. CASE Delay(p)
    <3>1. sp = [base |-> Home(p), depth |-> LOCALS] /\ LOCALS - LOCALS = 0
      BY <1>1, <2>2, Homes DEF Delay, PlaceInv
    <3> QED
      BY <2>2, <3>1 DEF Delay
  <2> QED
    BY <2>1, <2>2
<1>3. /\ sregs' \in [SReg -> Vals] /\ stack' \in [Stacks -> Memory]
      /\ \A b \in Stacks : b # Home(p) => stack'[b] = stack[b]
  BY <1>1, <1>2, ComputeStep
<1>4. ControlTypeOK'
  <2>1. pc' \in Labels
    BY <1>1, BodyLabel DEF BodyLabels
  <2>2. sp' \in StackPointers
    BY <1>2, Homes DEF StackPointers
  <2>3. console' \in {<<-1, "nothing">>} \cup (Procs \X {"start", "char"})
    BY <1>1 DEF ControlTypeOK
  <2> QED
    BY <1>1, <1>3, <2>1, <2>2, <2>3 DEF ControlTypeOK, Memory
<1>5. Resumable(Other(p))'
  <2>1. Resumable(Other(p))
    BY <1>1, BodyLabel DEF PlaceInv, BodyLabels
  <2>2. stack'[Home(Other(p))] = stack[Home(Other(p))]
    BY <1>3, Homes
  <2> QED
    BY <1>1, <2>1, <2>2, ContextStays
<1>6. PlaceInv(p)'
  BY <1>1, <1>2, <1>5 DEF PlaceInv, Body
<1> QED
  BY <1>1, <1>4, <1>6, InBody

LEMMA CallingStep ==
  ASSUME ControlInv, NEW p \in Procs, Putchar(p) \/ CallSwitch(p)
  PROVE  ControlInv'
<1>1. /\ ControlTypeOK /\ PlaceInv(p)
      /\ UNCHANGED <<procs, stack, sp, sregs, stvec, sscratch>>
      /\ \/ /\ pc = Body(p, "putchar") /\ pc' = Body(p, "switch")
            /\ ra' = ra /\ console' = <<p, "char">>
         \/ /\ pc = Body(p, "switch") /\ pc' = Body(p, "save")
            /\ ra' = Body(p, "delay") /\ console' = console
  BY DEF Putchar, CallSwitch, ControlInv, cpu
<1>2. ControlTypeOK'
  <2>1. pc' \in Labels /\ ra' \in Words
    BY <1>1, BodyLabel DEF BodyLabels, ControlTypeOK
  <2>2. console' \in {<<-1, "nothing">>} \cup (Procs \X {"start", "char"})
    BY <1>1 DEF ControlTypeOK
  <2> QED
    BY <1>1, <2>1, <2>2 DEF ControlTypeOK
<1>3. sp' = [base |-> Home(p), depth |-> LOCALS] /\ Resumable(Other(p))
  BY <1>1, BodyLabel DEF PlaceInv, BodyLabels
<1>4. Resumable(Other(p))'
  BY <1>1, <1>3, ContextStays
<1>5. PlaceInv(p)'
  BY <1>1, <1>3, <1>4 DEF PlaceInv, Body
<1> QED
  BY <1>1, <1>2, <1>5, InBody

\* switch_context saves its caller on the stack the caller lives on, whichever
\* stack create_process gave it.
LEMMA SaveContextStep ==
  ASSUME ControlInv, NEW p \in Procs, SaveContext(p)
  PROVE  ControlInv' /\ HasContext(p, LOCALS + FRAME, "delay")'
<1> USE ControlAssumption
<1> DEFINE saved == PushContext(stack[Home(p)], LOCALS, ra, sregs)
<1>1. /\ ControlTypeOK /\ PlaceInv(p)
      /\ pc = Body(p, "save") /\ pc' = Body(p, "load_sp")
      /\ stack' = [stack EXCEPT ![sp.base] = PushContext(@, sp.depth, ra, sregs)]
      /\ sp' = [sp EXCEPT !.depth = @ + FRAME]
      /\ procs' = [procs EXCEPT ![p].sp = sp']
      /\ UNCHANGED <<ra, sregs, stvec, sscratch, console>>
  BY DEF SaveContext, StoredSp, ControlInv
<1>2. sp = [base |-> Home(p), depth |-> LOCALS] /\ ra = Body(p, "delay")
  BY <1>1 DEF PlaceInv
<1>3. /\ stack' = [stack EXCEPT ![Home(p)] = saved]
      /\ sp' = [base |-> Home(p), depth |-> LOCALS + FRAME]
  BY <1>1, <1>2
<1>4. /\ saved \in Memory
      /\ SavedRa(saved, LOCALS + FRAME) = ra
      /\ SavedSRegs(saved, LOCALS + FRAME) = sregs
  <2>1. stack[Home(p)] \in Memory /\ ra \in Words /\ sregs \in [SReg -> Vals]
    BY <1>1, Homes DEF ControlTypeOK, Memory
  <2> QED
    BY <2>1, PopAfterPush
<1> HIDE DEF saved
<1>5. ControlTypeOK'
  <2>1. pc' \in Labels
    BY <1>1, BodyLabel DEF BodyLabels
  <2>2. sp' \in StackPointers
    BY <1>3, Homes DEF StackPointers
  <2>3. stack' \in [Stacks -> Memory]
    BY <1>1, <1>3, <1>4 DEF ControlTypeOK, Memory
  <2>4. procs' \in [Slots -> [state : {"PROC_UNUSED", "PROC_RUNNABLE"}, sp : StackPointers]]
    BY <1>1, <2>2, Homes DEF ControlTypeOK
  <2> QED
    BY <1>1, <2>1, <2>2, <2>3, <2>4 DEF ControlTypeOK, Memory
<1>6. HasContext(p, LOCALS + FRAME, "delay")' /\ SavedSRegs(stack'[Home(p)], LOCALS + FRAME) = sregs
  <2>1. procs'[p].sp = [base |-> Home(p), depth |-> LOCALS + FRAME]
    <3>1. p \in DOMAIN procs /\ "sp" \in DOMAIN procs[p]
      BY <1>1, Homes DEF ControlTypeOK
    <3>2. procs'[p].sp = sp'
      BY <1>1, <3>1
    <3> QED
      BY <1>3, <3>2
  <2>2. stack'[Home(p)] = saved
    BY <1>1, <1>3, Homes DEF ControlTypeOK
  <2> QED
    BY <1>1, <1>2, <1>4, <2>1, <2>2 DEF HasContext, ControlTypeOK
<1>7. Resumable(Other(p))'
  <2>1. Resumable(Other(p))
    BY <1>1, BodyLabel DEF PlaceInv, BodyLabels
  <2>2. stack'[Home(Other(p))] = stack[Home(Other(p))] /\ procs'[Other(p)] = procs[Other(p)]
    BY <1>1, <1>3, Homes DEF ControlTypeOK
  <2> QED
    BY <2>1, <2>2, ContextStays
<1>8. PlaceInv(p)'
  BY <1>1, <1>3, <1>6, <1>7 DEF PlaceInv, Body
<1> QED
  BY <1>1, <1>5, <1>6, <1>8, InBody

LEMMA LoadSpStep ==
  ASSUME ControlInv, NEW p \in Procs, LoadSp(p)
  PROVE  ControlInv'
<1>1. /\ ControlTypeOK /\ PlaceInv(p)
      /\ pc = Body(p, "load_sp") /\ pc' = Body(p, "restore")
      /\ sp' = procs[Other(p)].sp
      /\ UNCHANGED <<procs, stack, ra, sregs, stvec, sscratch, console>>
  BY DEF LoadSp, SwitchedIn, ControlInv
<1>2. ControlTypeOK'
  <2>1. pc' \in Labels
    BY <1>1, BodyLabel DEF BodyLabels
  <2>2. sp' \in StackPointers
    BY <1>1, Homes DEF ControlTypeOK
  <2> QED
    BY <1>1, <2>1, <2>2 DEF ControlTypeOK
<1>3. /\ Resumable(Other(p)) /\ HasContext(p, LOCALS + FRAME, "delay")
      /\ SavedSRegs(stack[Home(p)], LOCALS + FRAME) = sregs
  BY <1>1, BodyLabel DEF PlaceInv, BodyLabels
<1>4. Resumable(Other(p))' /\ HasContext(p, LOCALS + FRAME, "delay")'
  BY <1>1, <1>3, ContextStays DEF HasContext
<1>5. PlaceInv(p)'
  BY <1>1, <1>3, <1>4 DEF PlaceInv, Body
<1> QED
  BY <1>1, <1>2, <1>5, InBody

\* The stack pointer loaded is where the other process left its context, so
\* that "ret" leads into its code with its stack as it was.
LEMMA RestoreContextStep ==
  ASSUME ControlInv, NEW p \in Procs, RestoreContext(p)
  PROVE  /\ ControlInv'
         /\ \E l \in {"start", "delay"} : pc' = Body(Other(p), l)
         /\ sregs' = SavedSRegs(stack[Home(Other(p))], procs[Other(p)].sp.depth)
         /\ pc' = SavedRa(stack[Home(Other(p))], procs[Other(p)].sp.depth)
<1>0. PICK q \in Procs : q = Other(p)
  BY Homes
<1>1. /\ ControlTypeOK /\ PlaceInv(p)
      /\ pc = Body(p, "restore") /\ pc' = ra'
      /\ ra' = SavedRa(stack[sp.base], sp.depth)
      /\ sregs' = SavedSRegs(stack[sp.base], sp.depth)
      /\ sp' = [sp EXCEPT !.depth = @ - FRAME]
      /\ UNCHANGED <<procs, stack, stvec, sscratch, console>>
  BY DEF RestoreContext, RestoredSRegs, ControlInv
<1>2. /\ Resumable(q) /\ HasContext(p, LOCALS + FRAME, "delay")
      /\ sp = procs[q].sp /\ Other(q) = p
  BY <1>0, <1>1, BodyLabel, Homes DEF PlaceInv, BodyLabels
<1>3. PICK l \in {"start", "delay"} :
        HasContext(q, (IF l = "start" THEN 0 ELSE LOCALS) + FRAME, l)
  BY <1>2, ResumedOnHome
<1>4. PICK d \in Nat : d = IF l = "start" THEN 0 ELSE LOCALS
  BY Homes
<1>5. HasContext(q, d + FRAME, l)
  BY <1>3, <1>4
<1>6. sp = [base |-> Home(q), depth |-> d + FRAME]
  BY <1>2, <1>5 DEF HasContext
<1>7. sp' = [base |-> Home(q), depth |-> d]
  <2>1. sp.depth - FRAME = d
    <3>1. sp.depth = d + FRAME
      BY <1>6
    <3>2. FRAME \in Nat
      BY Homes
    <3> QED
      BY <3>1, <3>2
  <2>2. sp' = [sp EXCEPT !.depth = d]
    BY <1>1, <2>1
  <2> QED
    BY <1>6, <2>2
<1>8. pc' = Body(q, l) /\ ra' = Body(q, l) /\ sregs' \in [SReg -> Vals]
  BY <1>1, <1>5, <1>6 DEF HasContext
<1>9. ControlTypeOK'
  <2>1. pc' \in Labels /\ ra' \in Words
    BY <1>8, BodyLabel DEF BodyLabels
  <2>2. sp' \in StackPointers
    BY <1>4, <1>7, Homes DEF StackPointers
  <2> QED
    BY <1>1, <1>8, <2>1, <2>2 DEF ControlTypeOK
<1>10. Resumable(Other(q))'
  <2>1. Resumable(p)
    BY <1>2 DEF Resumable
  <2> QED
    BY <1>1, <1>2, <2>1, ContextStays
<1>11. PlaceInv(q)'
  <2>1. pc'[1] = q /\ pc' \notin {Body(q, m) : m \in BodyLabels \ {"start", "delay"}}
    BY <1>8 DEF Body
  <2>2. pc' = Body(q, "start") => sp' = [base |-> Home(q), depth |-> 0]
    BY <1>4, <1>7, <1>8 DEF Body
  <2>3. pc' = Body(q, "delay") => sp' = [base |-> Home(q), depth |-> LOCALS]
    BY <1>4, <1>7, <1>8 DEF Body
  <2> QED
    BY <1>10, <2>1, <2>2, <2>3 DEF PlaceInv, BodyLabels
<1> QED
  BY <1>0, <1>1, <1>6, <1>8, <1>9, <1>11, <1>2, InBody

LEMMA StutterStep == ControlInv /\ UNCHANGED vars => ControlInv'
<1> SUFFICES ASSUME ControlInv, UNCHANGED vars PROVE ControlInv'
  OBVIOUS
<1> USE DEF vars, cpu
<1>1. ControlTypeOK' /\ SetupInv'
  BY DEF ControlInv, ControlTypeOK, SetupInv, HasContext
<1>2. ASSUME NEW p \in Procs
      PROVE  PlaceInv(p)'
  BY DEF ControlInv, PlaceInv, HasContext, Resumable
<1> QED
  BY <1>1, <1>2 DEF ControlInv

LEMMA NextStep ==
  ASSUME ControlInv, Next
  PROVE  ControlInv'
<1>1. CASE KernelMain
  BY <1>1, SetTrapVectorStep, CreateStep, CallProcBStep DEF KernelMain
<1>2. ASSUME NEW p \in Procs, Entry(p)
      PROVE  ControlInv'
  BY <1>2, ComputingStep, CallingStep, SaveContextStep, LoadSpStep,
     RestoreContextStep DEF Entry, switch_context
<1> QED
  BY <1>1, <1>2 DEF Next

\* ControlInv is what ControlIntact says, and more.
LEMMA IntactFromInv == ControlInv => ControlIntact
<1> SUFFICES ASSUME ControlInv PROVE ControlIntact
  OBVIOUS
<1>1. ASSUME NEW p \in Procs, Own(p) # {}, ~ Switching
      PROVE  sp = [base |-> Home(p), depth |-> IF pc[2] = "start" THEN 0 ELSE LOCALS]
  <2>1. PICK l \in BodyLabels : pc = Body(p, l)
    BY <1>1 DEF Own
  <2>2. l \notin {"load_sp", "restore"} /\ pc[2] = l
    BY <1>1, <2>1 DEF Switching, Body
  <2> QED
    BY <2>1, <2>2 DEF ControlInv, PlaceInv, BodyLabels
<1>2. ASSUME NEW p \in Procs, Resumable(p)
      PROVE  LET saved == procs[p].sp
                 at    == SavedRa(stack[saved.base], saved.depth)
             IN  /\ saved.base = Home(p)
                 /\ \/ p = A /\ at = Body(p, "start") /\ saved.depth = FRAME
                    \/ at = Body(p, "delay") /\ saved.depth = LOCALS + FRAME
                 /\ SavedSRegs(stack[saved.base], saved.depth) \in [SReg -> Vals]
  BY <1>2 DEF Resumable, HasContext
<1>3. ASSUME NEW p \in Procs, pc[1] = Other(p) \/ (pc[1] = p /\ Switching)
      PROVE  Resumable(p)
  <2>1. CASE pc[1] = Other(p)
    BY <2>1, Homes DEF ControlInv, PlaceInv
  <2>2. CASE pc[1] = p /\ Switching
    <3>1. pc \in {Body(p, "load_sp"), Body(p, "restore")}
      BY <2>2 DEF Switching, Body
    <3> QED
      BY <3>1 DEF ControlInv, PlaceInv, Resumable
  <2> QED
    BY <1>3, <2>1, <2>2
<1> QED
  BY <1>1, <1>2, <1>3 DEF ControlIntact
-----------------------------------------------------------------------------
(* The exception entry. *)

\* Wherever the code is, its stack pointer is into a stack, with room for a
\* trap frame below it.
LEMMA StackRoom ==
  ASSUME ControlInv
  PROVE  \E b \in Stacks, d \in 0 .. LOCALS + FRAME : sp = [base |-> b, depth |-> d]
<1>1. ControlTypeOK /\ SetupInv /\ \A p \in Procs : PlaceInv(p)
  BY DEF ControlInv
<1>2. CASE pc[1] = -1
  BY <1>1, <1>2, Homes DEF SetupInv, Top
<1>3. ASSUME NEW p \in Procs, NEW l \in BodyLabels, pc = Body(p, l)
      PROVE  \E b \in Stacks, d \in 0 .. LOCALS + FRAME : sp = [base |-> b, depth |-> d]
  <2>1. {0, LOCALS, FRAME, LOCALS + FRAME} \subseteq 0 .. LOCALS + FRAME
    BY Homes
  <2>2. Home(p) \in Stacks /\ Home(Other(p)) \in Stacks
    BY Homes
  <2>3. CASE l # "restore"
    <3>1. \E d \in {0, LOCALS, LOCALS + FRAME} : sp = [base |-> Home(p), depth |-> d]
      BY <1>1, <1>3, <2>3 DEF PlaceInv, BodyLabels
    <3> QED
      BY <2>1, <2>2, <3>1
  <2>4. CASE l = "restore"
    <3>1. Resumable(Other(p)) /\ sp = procs[Other(p)].sp
      BY <1>1, <1>3, <2>4, BodyLabel DEF PlaceInv
    <3>2. \E d \in {FRAME, LOCALS + FRAME} : sp = [base |-> Home(Other(p)), depth |-> d]
      BY <3>1 DEF Resumable, HasContext
    <3> QED
      BY <2>1, <2>2, <3>2
  <2> QED
    BY <2>3, <2>4
<1>4. pc[1] = -1 \/ \E p \in Procs : \E l \in BodyLabels : pc = Body(p, l)
  BY <1>1 DEF ControlTypeOK, Labels, KM, Body
<1> QED
  BY <1>2, <1>3, <1>4

LEMMA KernelEntryStep ==
  ASSUME OnStackInv, kernel_entry
  PROVE  OnStackInv'
<1>1. /\ entry = "save" /\ entry' = "handler" /\ ControlInv
      /\ sscratch' = sp
      /\ sp' = [sp EXCEPT !.depth = @ + TRAP_FRAME]
      /\ stack' = [stack EXCEPT ![sp.base] = PutFrame(@, sp.depth + TRAP_FRAME, FrameWords)]
      /\ UNCHANGED <<procs, pc, ra, sregs, interrupted>>
      /\ interrupted = [sp |-> sp, ra |-> ra, sregs |-> sregs, stack |-> stack]
  BY DEF kernel_entry, FrameDepth, OnStackInv
<1>2. PICK b \in Stacks, d \in 0 .. LOCALS + FRAME : sp = [base |-> b, depth |-> d]
  BY <1>1, StackRoom
<1>3. /\ d \in Nat /\ TRAP_FRAME \in Nat /\ d + TRAP_FRAME <= STACK_WORDS
      /\ NSREGS \in Nat /\ TRAP_FRAME = NSREGS + 2
  BY ContextAssumption, ControlAssumption, OnStackAssumption DEF FRAME, TRAP_FRAME
<1>4. sp' = [base |-> b, depth |-> d + TRAP_FRAME]
  BY <1>1, <1>2
<1>5. DOMAIN FrameWords = 0 .. TRAP_FRAME - 1
  BY DEF FrameWords
<1>6. /\ FrameWords[0] = ra
      /\ \A r \in SReg : FrameWords[r] = sregs[r]
      /\ FrameWords[TRAP_FRAME - 1] = sp
  <2>1. 0 \in 0 .. TRAP_FRAME - 1 /\ TRAP_FRAME - 1 \in 0 .. TRAP_FRAME - 1
    BY <1>3
  <2>2. 0 # TRAP_FRAME - 1 /\ 0 \in 0 .. NSREGS
    BY <1>3
  <2>3. \A r \in SReg : /\ r \in 0 .. TRAP_FRAME - 1 /\ r # TRAP_FRAME - 1
                        /\ r \in 0 .. NSREGS /\ r # 0
    BY <1>3 DEF SReg
  <2>4. interrupted.sp = sp
    BY <1>1
  <2> QED
    BY <2>1, <2>2, <2>3, <2>4 DEF FrameWords, ContextWords
<1>7. /\ stack'[b] = PutFrame(stack[b], d + TRAP_FRAME, FrameWords)
      /\ \A c \in Stacks : c # b => stack'[c] = stack[c]
  <2>1. DOMAIN stack = Stacks
    BY <1>1 DEF ControlInv, ControlTypeOK
  <2>2. sp.base = b /\ sp.depth = d
    BY <1>2
  <2> QED
    BY <1>1, <2>1, <2>2
<1>8. PICK t \in Nat, e \in Nat : t = TRAP_FRAME /\ e = d + TRAP_FRAME
  BY <1>3
<1>9. /\ t <= e /\ e <= STACK_WORDS /\ e - t = d
      /\ {0, t - 1} \cup SReg \subseteq 0 .. t - 1
  BY <1>3, <1>8 DEF SReg
<1>11. /\ \A off \in 0 .. t - 1 : stack'[b][e - off] = FrameWords[off]
       /\ \A i \in 1 .. d : stack'[b][i] = stack[b][i]
  <2>1. DOMAIN FrameWords = 0 .. t - 1 /\ stack'[b] = PutFrame(stack[b], e, FrameWords)
    BY <1>5, <1>7, <1>8
  <2>2. \A i \in 1 .. STACK_WORDS :
          stack'[b][i] = IF e - i \in 0 .. t - 1 THEN FrameWords[e - i] ELSE stack[b][i]
    BY <2>1 DEF PutFrame
  <2>3. /\ t \in Nat /\ e \in Nat /\ d \in Nat /\ e - t = d
        /\ e <= STACK_WORDS /\ STACK_WORDS \in Nat
    BY <1>3, <1>9, ContextAssumption
  <2>4. \A off \in 0 .. t - 1 : e - off \in 1 .. STACK_WORDS /\ e - (e - off) = off
    BY ONLY <2>3
  <2>5. \A i \in 1 .. d : i \in 1 .. STACK_WORDS /\ e - i \notin 0 .. t - 1
    BY ONLY <2>3
  <2>6. \A off \in 0 .. t - 1 : stack'[b][e - off] = FrameWords[off]
    BY ONLY <2>2, <2>4
  <2>7. \A i \in 1 .. d : stack'[b][i] = stack[b][i]
    BY ONLY <2>2, <2>5
  <2> QED
    BY <2>6, <2>7
<1>12. EverythingSaved'
  <2>1. /\ interrupted'.ra = ra /\ interrupted'.sregs = sregs /\ interrupted'.sp = sp
        /\ interrupted'.stack = stack
    BY <1>1
  <2>2. sp'.base = b /\ sp'.depth = e /\ sp.base = b /\ sp.depth = d
    BY <1>2, <1>4, <1>8
  <2>3. /\ stack'[b][e - 0] = ra
        /\ \A r \in SReg : stack'[b][e - r] = sregs[r]
        /\ stack'[b][e - (t - 1)] = sp
    BY <1>6, <1>8, <1>9, <1>11
  <2>4. /\ stack'[sp'.base][sp'.depth - 0] = interrupted'.ra
        /\ \A r \in SReg : stack'[sp'.base][sp'.depth - r] = interrupted'.sregs[r]
        /\ stack'[sp'.base][sp'.depth - (TRAP_FRAME - 1)] = interrupted'.sp
    BY <1>8, <2>1, <2>2, <2>3
  <2>5. /\ \A i \in 1 .. interrupted'.sp.depth :
             stack'[interrupted'.sp.base][i] = interrupted'.stack[interrupted'.sp.base][i]
        /\ \A c \in Stacks \ {interrupted'.sp.base} : stack'[c] = interrupted'.stack[c]
    BY <1>7, <1>11, <2>1, <2>2
  <2> QED
    BY <2>4, <2>5 DEF EverythingSaved, SReg, TRAP_FRAME
<1>10. sp' \in StackPointers /\ sscratch' \in StackPointers
  <2>1. d + TRAP_FRAME \in Depth
    BY <1>3, ContextAssumption DEF Depth
  <2> QED
    BY <1>1, <1>4, <2>1 DEF StackPointers, ControlInv, ControlTypeOK
<1>13. interrupted'.sp.base \in Stacks
  BY <1>1, <1>2
<1> QED
  BY <1>1, <1>10, <1>12, <1>13 DEF OnStackInv

LEMMA OnStackStep ==
  ASSUME OnStackInv, OnStackNext
  PROVE  OnStackInv'
<1>1. CASE Execute
  <2>1. entry = "idle" /\ entry' = "idle" /\ ControlInv /\ interrupted' = interrupted
    BY <1>1 DEF Execute, OnStackInv
  <2>2. ControlInv'
    BY <1>1, <2>1, NextStep DEF Execute
  <2>3. EverythingSaved'
    BY <2>1 DEF EverythingSaved
  <2> QED
    BY <2>1, <2>2, <2>3 DEF OnStackInv, ControlInv, ControlTypeOK
<1>2. CASE Raise
  <2>1. /\ entry = "idle" /\ entry' = "save" /\ ControlInv /\ UNCHANGED vars
        /\ interrupted' = [sp |-> sp, ra |-> ra, sregs |-> sregs, stack |-> stack]
    BY <1>2 DEF Raise, OnStackInv
  <2>2. ControlInv'
    BY <2>1, StutterStep
  <2>3. interrupted'.sp.base \in Stacks
    BY <2>1, StackRoom
  <2>4. interrupted' = [sp |-> sp', ra |-> ra', sregs |-> sregs', stack |-> stack']
    BY <2>1 DEF vars, cpu
  <2>5. EverythingSaved'
    BY <2>1 DEF EverythingSaved
  <2> QED
    BY <2>1, <2>2, <2>3, <2>4, <2>5 DEF OnStackInv, ControlInv, ControlTypeOK
<1>3. CASE kernel_entry
  BY <1>3, KernelEntryStep
<1>4. CASE handle_trap
  <2>1. entry = "handler" /\ entry' = "panic" /\ UNCHANGED <<vars, interrupted>>
    BY <1>4 DEF handle_trap
  <2>2. EverythingSaved'
    BY <2>1 DEF OnStackInv, EverythingSaved, vars, cpu
  <2> QED
    BY <2>1, <2>2 DEF OnStackInv, vars, cpu
<1> QED
  BY <1>1, <1>2, <1>3, <1>4 DEF OnStackNext

LEMMA OnStackInitInv == OnStackInit => OnStackInv
<1> SUFFICES ASSUME OnStackInit PROVE OnStackInv
  OBVIOUS
<1>1. ControlInv /\ entry = "idle" /\ interrupted = NoTrap
  BY ControlInitInv DEF OnStackInit
<1> QED
  BY <1>1 DEF OnStackInv, EverythingSaved, ControlInv, ControlTypeOK

LEMMA OnStackStutter == OnStackInv /\ UNCHANGED onStackVars => OnStackInv'
<1> SUFFICES ASSUME OnStackInv, UNCHANGED onStackVars PROVE OnStackInv'
  OBVIOUS
<1>1. ControlInv => ControlInv'
  BY StutterStep DEF onStackVars
<1>2. EverythingSaved'
  BY DEF OnStackInv, EverythingSaved, onStackVars, vars, cpu
<1> QED
  BY <1>1, <1>2 DEF OnStackInv, onStackVars, vars, cpu

\* The invariant of the two-process kernel with exceptions.
THEOREM OnStackInvariant == OnStackSpec => []OnStackInv
<1>1. OnStackInit => OnStackInv
  BY OnStackInitInv
<1>2. OnStackInv /\ [OnStackNext]_onStackVars => OnStackInv'
  BY OnStackStep, OnStackStutter
<1> QED
  BY <1>1, <1>2, PTL DEF OnStackSpec

\* Types: pc, which is loaded from a stack, is always a place in the code, and
\* neither the switch nor the trap frame runs over the end of a stack.
THEOREM OnStackTypes == OnStackSpec => []OnStackTypeOK
<1>1. OnStackInv => OnStackTypeOK
  <2> SUFFICES ASSUME OnStackInv PROVE OnStackTypeOK
    OBVIOUS
  <2>1. NoTrap.sp.base \notin Stacks
    BY DEF NoTrap, NullSp, NULL, Stacks, Slots, BOOT
  <2>2. (entry = "idle") = (interrupted = NoTrap)
    BY <2>1 DEF OnStackInv
  <2> QED
    BY <2>2 DEF OnStackInv, OnStackTypeOK, ControlInv
<1> QED
  BY <1>1, OnStackInvariant, PTL

\* handle_trap is given every register of the code it interrupted, whatever
\* statement that was, and no saved context is overwritten.
THEOREM TrapSavesEverything == OnStackSpec => []EverythingSaved
<1>1. OnStackInv => EverythingSaved
  BY DEF OnStackInv
<1> QED
  BY <1>1, OnStackInvariant, PTL

\* The process that is not running can be resumed, although B's control block
\* starts out with a stack B never uses.
THEOREM StaysResumable == OnStackSpec => []ResumableUntilTrap
<1>1. OnStackInv => ResumableUntilTrap
  BY IntactFromInv DEF OnStackInv, ResumableUntilTrap
<1> QED
  BY <1>1, OnStackInvariant, PTL
-----------------------------------------------------------------------------
(* The two processes take turns: what RoundRobin sees of a state. *)

Frame(p) == [i \in 1 .. LOCALS |-> stack[Home(p)][i]]
Stmt(l) == IF l \in {"start", "putchar", "delay"} THEN l ELSE "yeild"
ContextAt(p) == SavedRa(stack[Home(p)], procs[p].sp.depth)[2]

\* The process that runs is where pc is, and has its data in the registers
\* until switch_context has loaded another's.
Running ==
  \A p \in Procs : \A l \in BodyLabels :
    pc = Body(p, l) =>
      /\ PositionOf(p) = Stmt(l)
      /\ DataOf(p) = IF l = "start" THEN Zero
                     ELSE [regs |-> sregs, frame |-> Frame(p)]

\* The other is where its context says.
Waiting ==
  \A p \in Procs :
    pc[1] = Other(p) =>
      /\ procs[p].sp.base = Home(p)
      /\ PositionOf(p) = ContextAt(p)
      /\ DataOf(p) = IF ContextAt(p) = "start" THEN Zero
                     ELSE [regs |-> SavedSRegs(stack[Home(p)], procs[p].sp.depth),
                           frame |-> Frame(p)]

LEMMA WhatIsSeen == ControlInv => Running /\ Waiting
<1> SUFFICES ASSUME ControlInv PROVE Running /\ Waiting
  OBVIOUS
<1>1. ASSUME NEW p \in Procs, NEW l \in BodyLabels, pc = Body(p, l)
      PROVE  /\ PositionOf(p) = Stmt(l)
             /\ DataOf(p) = IF l = "start" THEN Zero
                            ELSE [regs |-> sregs, frame |-> Frame(p)]
  <2>1. pc[1] = p /\ pc[2] = l /\ pc[1] # Other(p)
    BY <1>1, Homes DEF Body
  <2>2. PositionOf(p) = Stmt(l)
    BY <2>1 DEF PositionOf, Stmt
  <2>3. Stmt(l) = "start" <=> l = "start"
    BY DEF Stmt
  <2>4. l = "restore" => SavedSRegs(stack[procs[p].sp.base], procs[p].sp.depth) = sregs
    <3> SUFFICES ASSUME l = "restore"
                 PROVE  SavedSRegs(stack[procs[p].sp.base], procs[p].sp.depth) = sregs
      OBVIOUS
    <3>1. /\ HasContext(p, LOCALS + FRAME, "delay")
          /\ SavedSRegs(stack[Home(p)], LOCALS + FRAME) = sregs
      BY <1>1 DEF ControlInv, PlaceInv
    <3>2. procs[p].sp.base = Home(p) /\ procs[p].sp.depth = LOCALS + FRAME
      BY <3>1 DEF HasContext
    <3> QED
      BY <3>1, <3>2
  <2> QED
    BY <2>1, <2>2, <2>3, <2>4 DEF DataOf, Frame
<1>2. ASSUME NEW p \in Procs, pc[1] = Other(p)
      PROVE  /\ procs[p].sp.base = Home(p)
             /\ PositionOf(p) = ContextAt(p)
             /\ DataOf(p) = IF ContextAt(p) = "start" THEN Zero
                            ELSE [regs |-> SavedSRegs(stack[Home(p)], procs[p].sp.depth),
                                  frame |-> Frame(p)]
  <2>1. pc[1] # p
    BY <1>2, Homes
  <2>2. procs[p].sp.base = Home(p)
    <3>1. PICK q \in Procs : q = Other(p) /\ Other(q) = p
      BY Homes
    <3>2. Resumable(Other(q))
      BY <1>2, <3>1 DEF ControlInv, PlaceInv
    <3> QED
      BY <3>1, <3>2 DEF Resumable, HasContext
  <2>3. p = A \/ procs[p].sp.base = BOOT
    BY <2>2 DEF Home, Procs
  <2>4. PositionOf(p) = ContextAt(p)
    BY <1>2, <2>1, <2>2, <2>3 DEF PositionOf, ContextAt
  <2> QED
    BY <2>1, <2>2, <2>4 DEF DataOf, Frame
<1> QED
  BY <1>1, <1>2 DEF Running, Waiting

LEMMA WhatIsSeenNext ==
  ASSUME ControlInv' PROVE Running' /\ Waiting'
<1>1. (ControlInv => Running /\ Waiting)'
  BY WhatIsSeen, PTL
<1> QED
  BY <1>1

\* Before proc_b_entry is called neither process has run.
LEMMA NobodyHasRun ==
  (pc[1] = -1) => \A p \in Procs : PositionOf(p) = "start" /\ DataOf(p) = Zero
BY DEF PositionOf, DataOf, Procs, A, B, Other

LEMMA NobodyHasRunNext ==
  ASSUME pc'[1] = -1
  PROVE  \A p \in Procs : PositionOf(p)' = "start" /\ DataOf(p)' = Zero
<1>1. ((pc[1] = -1) => \A p \in Procs : PositionOf(p) = "start" /\ DataOf(p) = Zero)'
  BY NobodyHasRun, PTL
<1> QED
  BY <1>1

\* In RoundRobin p has number 2 - p.
Stays(p) == PositionOf(p)' = PositionOf(p) /\ DataOf(p)' = DataOf(p)

LEMMA Numbers ==
  /\ \A n \in 1 .. 2 : 2 - n \in Procs /\ 2 - (2 - n) = n
  /\ \A p \in Procs : 2 - p \in 1 .. 2 /\ 2 - (2 - p) = p /\ p # -1
  /\ \A p \in Procs : 2 - Other(p) = RR!After(2 - p)
BY DEF Procs, A, B, Other, RR!After

LEMMA Invisible ==
  ASSUME \A p \in Procs : Stays(p), pc'[1] = pc[1], console' = console
  PROVE  UNCHANGED RR!rrVars
BY Numbers DEF Stays, RR!rrVars

\* A process is not seen to change while its control block and stack do not.
LEMMA OtherStays ==
  ASSUME ControlInv, ControlInv', NEW p \in Procs, pc[1] = p, pc'[1] = p,
         procs'[Other(p)] = procs[Other(p)],
         stack'[Home(Other(p))] = stack[Home(Other(p))]
  PROVE  Stays(Other(p))
<1>0. PICK q \in Procs : q = Other(p) /\ Other(q) = p
  BY Homes
<1>1. Waiting /\ Waiting'
  BY WhatIsSeen, WhatIsSeenNext
<1>2. ContextAt(q)' = ContextAt(q) /\ Frame(q)' = Frame(q)
  BY <1>0 DEF ContextAt, Frame
<1>3. PositionOf(q)' = PositionOf(q) /\ DataOf(q)' = DataOf(q)
  BY <1>0, <1>1, <1>2 DEF Waiting
<1> QED
  BY <1>0, <1>3 DEF Stays

LEMMA BothStay ==
  ASSUME NEW p \in Procs, Stays(p), Stays(Other(p))
  PROVE  \A q \in Procs : Stays(q)
BY DEF Procs, A, B, Other

\* What is stored below sp does not change what RoundRobin sees of the
\* process that runs.
LEMMA QuietStep ==
  ASSUME ControlInv, NEW p \in Procs,
         CallSwitch(p) \/ SaveContext(p) \/ LoadSp(p)
  PROVE  UNCHANGED RR!rrVars
<1>1. ControlInv'
  BY CallingStep, SaveContextStep, LoadSpStep
<1>2. PICK l \in {"switch", "save", "load_sp"}, m \in {"save", "load_sp", "restore"} :
        pc = Body(p, l) /\ pc' = Body(p, m)
  BY DEF CallSwitch, SaveContext, LoadSp
<1>3. /\ Running /\ Running' /\ sregs' = sregs /\ console' = console
      /\ {l, m} \subseteq BodyLabels /\ pc[1] = p /\ pc'[1] = p
  BY <1>1, <1>2, WhatIsSeen, WhatIsSeenNext
  DEF CallSwitch, SaveContext, LoadSp, BodyLabels, Body
<1>4. /\ procs'[Other(p)] = procs[Other(p)]
      /\ stack'[Home(Other(p))] = stack[Home(Other(p))]
      /\ Frame(p)' = Frame(p)
  <2>1. CASE CallSwitch(p) \/ LoadSp(p)
    BY <2>1 DEF CallSwitch, LoadSp, Frame
  <2>2. CASE SaveContext(p)
    <3>1. /\ ControlTypeOK /\ sp = [base |-> Home(p), depth |-> LOCALS]
      BY <2>2 DEF SaveContext, ControlInv, PlaceInv
    <3>2. /\ stack' = [stack EXCEPT ![Home(p)] = PushContext(@, LOCALS, ra, sregs)]
          /\ procs' = [procs EXCEPT ![p].sp = StoredSp]
      BY <2>2, <3>1 DEF SaveContext
    <3>3. stack'[Home(p)] = PushContext(stack[Home(p)], LOCALS, ra, sregs)
      BY <3>1, <3>2, Homes DEF ControlTypeOK
    <3>4. \A i \in 1 .. LOCALS : /\ i \in 1 .. STACK_WORDS
                                 /\ i \notin LOCALS + 1 .. LOCALS + FRAME
      BY ContextAssumption, ControlAssumption DEF FRAME
    <3>5. \A i \in 1 .. LOCALS : stack'[Home(p)][i] = stack[Home(p)][i]
      BY <3>3, <3>4 DEF PushContext
    <3>6. Frame(p)' = Frame(p)
      BY <3>5 DEF Frame
    <3> QED
      BY <3>1, <3>2, <3>6, Homes DEF ControlTypeOK
  <2> QED
    BY <2>1, <2>2
<1>5. Stays(p)
  <2>1. PositionOf(p) = Stmt(l) /\ DataOf(p) = [regs |-> sregs, frame |-> Frame(p)]
    BY <1>2, <1>3 DEF Running
  <2>2. PositionOf(p)' = Stmt(m) /\ DataOf(p)' = [regs |-> sregs', frame |-> Frame(p)']
    BY <1>2, <1>3 DEF Running
  <2>3. Stmt(l) = Stmt(m)
    BY DEF Stmt
  <2> QED
    BY <1>3, <1>4, <2>1, <2>2, <2>3 DEF Stays
<1>6. Stays(Other(p))
  BY <1>1, <1>3, <1>4, OtherStays
<1> QED
  BY <1>3, <1>5, <1>6, BothStay, Invisible

LEMMA PutcharSeen ==
  ASSUME ControlInv, NEW p \in Procs, Putchar(p)
  PROVE  RR!PutChar(2 - p)
<1>1. /\ ControlInv' /\ Running /\ Running'
      /\ pc = Body(p, "putchar") /\ pc' = Body(p, "switch")
      /\ console' = <<p, "char">> /\ UNCHANGED <<procs, stack, sregs>>
  BY CallingStep, WhatIsSeen, WhatIsSeenNext DEF Putchar, cpu
<1>2. pc[1] = p /\ pc'[1] = p
  BY <1>1 DEF Body
<1>3. PositionOf(p) = "putchar" /\ PositionOf(p)' = "yeild"
  BY <1>1 DEF Running, BodyLabels, Stmt
<1>4. DataOf(p)' = DataOf(p)
  BY <1>1 DEF Running, BodyLabels, Frame
<1>5. Stays(Other(p))
  BY <1>1, <1>2, OtherStays
<1>6. PICK n \in 1 .. 2 : n = 2 - p /\ 2 - n = p
  BY Numbers
<1>7. \A m \in 1 .. 2 : m # n => 2 - m = Other(p)
  BY <1>6 DEF Procs, A, B, Other
<1>8. p # -1 /\ console'[1] = p /\ console'[2] = "char"
  BY <1>1, Numbers
<1>9. RR!PutChar(n)
  BY <1>2, <1>3, <1>4, <1>5, <1>6, <1>7, <1>8 DEF RR!PutChar, RR!Procs, Stays
<1> QED
  BY <1>6, <1>9

LEMMA ComputingSeen ==
  ASSUME ControlInv, NEW p \in Procs, Start(p) \/ Delay(p)
  PROVE  RR!Announce(2 - p) \/ RR!Work(2 - p)
<1> DEFINE d == [regs |-> sregs', frame |-> Frame(p)']
           Data == [regs : [SReg -> Vals], frame : [1 .. LOCALS -> Vals]]
<1>1. /\ ControlInv' /\ Running /\ Running' /\ ControlTypeOK
      /\ pc' = Body(p, "putchar") /\ UNCHANGED procs
      /\ \/ pc = Body(p, "start") /\ console' = <<p, "start">>
         \/ pc = Body(p, "delay") /\ console' = console
  BY ComputingStep, WhatIsSeen, WhatIsSeenNext DEF Start, Delay, ControlInv
<1>2. pc[1] = p /\ pc'[1] = p
  BY <1>1 DEF Body
<1>3. sp.base = Home(p) /\ Compute(0)
  <2>1. CASE Start(p)
    <3>1. sp = [base |-> Home(p), depth |-> 0]
      BY <2>1 DEF Start, ControlInv, PlaceInv
    <3> QED
      BY <2>1, <3>1 DEF Start
  <2>2. CASE Delay(p)
    <3>1. sp = [base |-> Home(p), depth |-> LOCALS] /\ LOCALS - LOCALS = 0
      BY <2>2, Homes DEF Delay, ControlInv, PlaceInv
    <3> QED
      BY <2>2, <3>1 DEF Delay
  <2> QED
    BY <2>1, <2>2
<1>4. d \in Data
  <2>1. PICK w \in [1 .. LOCALS -> Vals] :
          stack' = [stack EXCEPT ![Home(p)] =
                      [i \in 1 .. STACK_WORDS |->
                         IF i \in 0 + 1 .. 0 + LOCALS THEN w[i - 0] ELSE @[i]]]
    BY <1>3 DEF Compute
  <2>2. stack'[Home(p)] = [i \in 1 .. STACK_WORDS |->
                             IF i \in 0 + 1 .. 0 + LOCALS THEN w[i - 0]
                             ELSE stack[Home(p)][i]]
    BY <1>1, <2>1, Homes DEF ControlTypeOK
  <2>3. \A i \in 1 .. LOCALS : /\ i \in 1 .. STACK_WORDS
                               /\ i \in 0 + 1 .. 0 + LOCALS /\ i - 0 = i
    BY ContextAssumption, ControlAssumption DEF FRAME
  <2>4. \A i \in 1 .. LOCALS : stack'[Home(p)][i] \in Vals
    BY <2>2, <2>3
  <2>5. Frame(p)' \in [1 .. LOCALS -> Vals] /\ sregs' \in [SReg -> Vals]
    BY <1>3, <2>4 DEF Frame, Compute
  <2> QED
    BY <2>5
<1>5. PositionOf(p)' = "putchar" /\ DataOf(p)' = d
  BY <1>1 DEF Running, BodyLabels, Stmt
<1>6. Stays(Other(p))
  <2>1. stack'[Home(Other(p))] = stack[Home(Other(p))]
    BY <1>1, <1>3, Homes, ComputeStep
  <2> QED
    BY <1>1, <1>2, <2>1, OtherStays
<1>7. PICK n \in 1 .. 2 : n = 2 - p /\ 2 - n = p
  BY Numbers
<1>8. \A m \in 1 .. 2 : m # n => 2 - m = Other(p)
  BY <1>7 DEF Procs, A, B, Other
<1> HIDE DEF d
<1>9. CASE pc = Body(p, "start") /\ console' = <<p, "start">>
  <2>1. p # -1 /\ console'[1] = p /\ console'[2] = "start"
    BY <1>9, Numbers
  <2>2. PositionOf(p) = "start"
    BY <1>1, <1>9 DEF Running, BodyLabels, Stmt
  <2>3. RR!Announce(n)
    BY <1>2, <1>4, <1>5, <1>6, <1>7, <1>8, <2>1, <2>2 DEF RR!Announce, RR!Procs, Stays
  <2> QED
    BY <1>7, <2>3
<1>10. CASE pc = Body(p, "delay") /\ console' = console
  <2>1. PositionOf(p) = "delay"
    BY <1>1, <1>10 DEF Running, BodyLabels, Stmt
  <2>2. console' = console
    BY <1>10
  <2>3. /\ (IF pc[1] = -1 THEN 0 ELSE 2 - pc[1]) = n
        /\ (IF pc'[1] = -1 THEN 0 ELSE 2 - pc'[1]) = n
    BY <1>2, <1>7, Numbers
  <2>4. [m \in 1 .. 2 |-> PositionOf(2 - m)'] =
          [[m \in 1 .. 2 |-> PositionOf(2 - m)] EXCEPT ![n] = "putchar"]
    BY <1>5, <1>6, <1>7, <1>8 DEF Stays
  <2>5. [m \in 1 .. 2 |-> DataOf(2 - m)'] =
          [[m \in 1 .. 2 |-> DataOf(2 - m)] EXCEPT ![n] = d]
    BY <1>5, <1>6, <1>7, <1>8 DEF Stays
  <2>6. RR!Work(n)
    BY <1>4, <1>7, <2>1, <2>2, <2>3, <2>4, <2>5 DEF RR!Work, RR!Procs
  <2> QED
    BY <1>7, <2>6
<1> QED
  BY <1>1, <1>9, <1>10

\* The turn passes on when switch_context returns on the other stack.
LEMMA RestoreSeen ==
  ASSUME ControlInv, NEW p \in Procs, RestoreContext(p)
  PROVE  RR!Yield(2 - p)
<1>0. PICK q \in Procs : q = Other(p) /\ Other(q) = p /\ q # p
  BY Homes
<1>1. PICK l \in {"start", "delay"} : pc' = Body(q, l)
  BY <1>0, RestoreContextStep
<1>2. /\ ControlInv' /\ Running /\ Running' /\ Waiting /\ Waiting'
      /\ pc = Body(p, "restore") /\ PlaceInv(p) /\ UNCHANGED <<procs, stack, console>>
      /\ sregs' = SavedSRegs(stack[Home(q)], procs[q].sp.depth)
      /\ pc' = SavedRa(stack[Home(q)], procs[q].sp.depth)
  BY <1>0, RestoreContextStep, WhatIsSeen, WhatIsSeenNext DEF RestoreContext, ControlInv
<1>3. pc[1] = p /\ pc'[1] = q
  BY <1>1, <1>2 DEF Body
<1>4. Stays(q)
  <2>1. ContextAt(q) = l
    BY <1>1, <1>2 DEF ContextAt, Body
  <2>2. /\ PositionOf(q) = l
        /\ DataOf(q) = IF l = "start" THEN Zero
                       ELSE [regs |-> SavedSRegs(stack[Home(q)], procs[q].sp.depth),
                             frame |-> Frame(q)]
    BY <1>0, <1>2, <1>3, <2>1 DEF Waiting
  <2>3. /\ PositionOf(q)' = l
        /\ DataOf(q)' = IF l = "start" THEN Zero ELSE [regs |-> sregs', frame |-> Frame(q)']
    BY <1>1, <1>2 DEF Running, BodyLabels, Stmt
  <2>4. Frame(q)' = Frame(q)
    BY <1>2 DEF Frame
  <2> QED
    BY <1>2, <2>2, <2>3, <2>4 DEF Stays
<1>5. /\ PositionOf(p) = "yeild" /\ PositionOf(p)' = "delay"
      /\ DataOf(p)' = DataOf(p)
  <2>1. /\ HasContext(p, LOCALS + FRAME, "delay")
        /\ SavedSRegs(stack[Home(p)], LOCALS + FRAME) = sregs
    BY <1>2 DEF PlaceInv
  <2>2. procs[p].sp.depth = LOCALS + FRAME /\ ContextAt(p) = "delay"
    BY <2>1 DEF HasContext, ContextAt, Body
  <2>3. /\ PositionOf(p)' = ContextAt(p)'
        /\ DataOf(p)' = IF ContextAt(p)' = "start" THEN Zero
                        ELSE [regs |-> SavedSRegs(stack'[Home(p)], procs'[p].sp.depth),
                              frame |-> Frame(p)']
    BY <1>0, <1>2, <1>3 DEF Waiting
  <2>4. ContextAt(p)' = ContextAt(p) /\ Frame(p)' = Frame(p)
    BY <1>2 DEF ContextAt, Frame
  <2>5. PositionOf(p) = "yeild" /\ DataOf(p) = [regs |-> sregs, frame |-> Frame(p)]
    BY <1>2 DEF Running, BodyLabels, Stmt
  <2> QED
    BY <1>2, <2>1, <2>2, <2>3, <2>4, <2>5
<1>6. PICK n \in 1 .. 2 : n = 2 - p /\ 2 - n = p
  BY Numbers
<1>7. \A m \in 1 .. 2 : m # n => 2 - m = q
  BY <1>0, <1>6 DEF Procs, A, B, Other
<1>8. 2 - q = RR!After(n) /\ p # -1 /\ q # -1
  BY <1>0, <1>6, Numbers
<1>9. RR!Yield(n)
  BY <1>2, <1>3, <1>4, <1>5, <1>6, <1>7, <1>8 DEF RR!Yield, RR!Procs, Stays
<1> QED
  BY <1>6, <1>9

LEMMA SetupUnseen ==
  ASSUME SetTrapVector \/ CreateA \/ CreateB
  PROVE  UNCHANGED RR!rrVars
<1>1. pc[1] = -1 /\ pc'[1] = -1 /\ console' = console
  BY DEF SetTrapVector, CreateA, CreateB, KM
<1> QED
  BY <1>1, NobodyHasRun, NobodyHasRunNext, Invisible DEF Stays

\* kernel_main's call of proc_b_entry is the first dispatch.
LEMMA CallProcBSeen ==
  ASSUME ControlInv, CallProcB
  PROVE  RR!Dispatch
<1>1. /\ pc = KM("call") /\ pc' = Body(B, "start") /\ UNCHANGED <<procs, stack, console>>
      /\ ControlInv' /\ Running' /\ Waiting'
  BY CallProcBStep, WhatIsSeenNext DEF CallProcB
<1>2. pc[1] = -1 /\ pc'[1] = B
  BY <1>1 DEF KM, Body
<1>3. HasContext(A, FRAME, "start")
  BY <1>1 DEF ControlInv, SetupInv
<1>4. ContextAt(A)' = "start"
  <2>1. procs[A].sp.depth = FRAME /\ ContextAt(A) = "start"
    BY <1>3 DEF HasContext, ContextAt, Body
  <2> QED
    BY <1>1, <2>1 DEF ContextAt
<1>5. PositionOf(A)' = "start" /\ DataOf(A)' = Zero
  BY <1>1, <1>2, <1>4 DEF Waiting, Procs, A, B, Other
<1>6. PositionOf(B)' = "start" /\ DataOf(B)' = Zero
  BY <1>1 DEF Running, Procs, BodyLabels, Stmt
<1>7. \A p \in Procs : Stays(p)
  BY <1>2, <1>5, <1>6, NobodyHasRun DEF Stays, Procs
<1>8. \A n \in 1 .. 2 : Stays(2 - n)
  BY <1>7, Numbers
<1> QED
  BY <1>1, <1>2, <1>8 DEF RR!Dispatch, RR!Procs, Stays, B

LEMMA NextSeen ==
  ASSUME ControlInv, Next
  PROVE  [RR!Next]_RR!rrVars
<1>1. CASE KernelMain
  BY <1>1, SetupUnseen, CallProcBSeen DEF KernelMain, RR!Next
<1>2. ASSUME NEW p \in Procs, Entry(p)
      PROVE  [RR!Next]_RR!rrVars
  <2>1. CASE CallSwitch(p) \/ SaveContext(p) \/ LoadSp(p)
    BY <2>1, QuietStep
  <2>2. CASE Start(p) \/ Putchar(p) \/ RestoreContext(p) \/ Delay(p)
    <3>1. PICK n \in 1 .. 2 : n = 2 - p
      BY Numbers
    <3>2. RR!Announce(n) \/ RR!PutChar(n) \/ RR!Yield(n) \/ RR!Work(n)
      BY <2>2, <3>1, ComputingSeen, PutcharSeen, RestoreSeen
    <3> QED
      BY <3>2 DEF RR!Next, RR!Procs
  <2> QED
    BY <1>2, <2>1, <2>2 DEF Entry, switch_context
<1> QED
  BY <1>1, <1>2 DEF Next

\* The words above a stack pointer are all a context is read from.
LEMMA ContextAbove ==
  ASSUME NEW mem, NEW mem2, NEW d \in Nat, FRAME <= d,
         \A i \in 1 .. d : mem2[i] = mem[i]
  PROVE  SavedRa(mem2, d) = SavedRa(mem, d) /\ SavedSRegs(mem2, d) = SavedSRegs(mem, d)
<1> USE ContextAssumption
<1>1. d \in 1 .. d /\ \A r \in SReg : d - r \in 1 .. d
  BY DEF FRAME, SReg
<1> QED
  BY <1>1 DEF SavedRa, SavedSRegs

\* The trap frame is pushed below everything a process is read from.
LEMMA KernelEntryUnseen ==
  ASSUME OnStackInv, kernel_entry
  PROVE  UNCHANGED RR!rrVars
<1>1. /\ entry' = "handler" /\ ControlInv /\ UNCHANGED <<procs, pc, sregs, console>>
      /\ interrupted' = [sp |-> sp, ra |-> ra, sregs |-> sregs, stack |-> stack]
  BY DEF kernel_entry, OnStackInv
<1>2. /\ \A i \in 1 .. sp.depth : stack'[sp.base][i] = stack[sp.base][i]
      /\ \A b \in Stacks : b # sp.base => stack'[b] = stack[b]
  <2>1. EverythingSaved'
    BY KernelEntryStep DEF OnStackInv
  <2> QED
    BY <1>1, <2>1 DEF EverythingSaved
<1>3. CASE pc[1] = -1
  BY <1>1, <1>3, NobodyHasRun, NobodyHasRunNext, Invisible DEF Stays
<1>4. ASSUME NEW p \in Procs, NEW l \in BodyLabels, pc = Body(p, l)
      PROVE  UNCHANGED RR!rrVars
  <2>0. PICK q \in Procs : q = Other(p) /\ Other(q) = p /\ q # p
    BY Homes
  <2>1. /\ PlaceInv(p) /\ Resumable(q) /\ Running /\ Waiting
        /\ pc[1] = p /\ pc[2] = l /\ Home(p) # Home(q)
        /\ Home(p) \in Stacks /\ Home(q) \in Stacks
    BY <1>1, <1>4, <2>0, Homes, WhatIsSeen DEF ControlInv, PlaceInv, Body
  <2>2. /\ LOCALS \in Nat /\ FRAME \in Nat /\ 0 + FRAME = FRAME
        /\ 1 .. LOCALS \subseteq 1 .. LOCALS + FRAME
    BY Homes
  <2>3. PICK d \in Nat : /\ procs[q].sp = [base |-> Home(q), depth |-> d]
                         /\ FRAME <= d
                         /\ ContextAt(q) # "start" => d = LOCALS + FRAME
    <3>1. CASE HasContext(q, FRAME, "start")
      BY <2>2, <3>1 DEF HasContext, ContextAt, Body
    <3>2. CASE HasContext(q, LOCALS + FRAME, "delay")
      BY <2>2, <3>2 DEF HasContext, ContextAt, Body
    <3> QED
      BY <2>1, <3>1, <3>2 DEF Resumable
  <2>4. sp.base # Home(q) \/ sp = procs[q].sp
    BY <1>4, <2>0, <2>1 DEF PlaceInv, BodyLabels
  <2>5. \A i \in 1 .. d : stack'[Home(q)][i] = stack[Home(q)][i]
    BY <1>2, <2>1, <2>3, <2>4
  <2>6. Stays(q)
    <3>1. /\ SavedRa(stack'[Home(q)], d) = SavedRa(stack[Home(q)], d)
          /\ SavedSRegs(stack'[Home(q)], d) = SavedSRegs(stack[Home(q)], d)
      BY <2>3, <2>5, ContextAbove
    <3>2. /\ procs'[q].sp.base = Home(q) /\ procs'[q].sp.depth = d
          /\ procs[q].sp.base = Home(q) /\ procs[q].sp.depth = d
      BY <1>1, <2>3
    <3>3. PositionOf(q)' = PositionOf(q)
      BY <1>1, <3>1, <3>2 DEF PositionOf
    <3>4. PositionOf(q) = ContextAt(q)
      BY <2>0, <2>1 DEF Waiting
    <3>5. CASE ContextAt(q) = "start"
      BY <3>3, <3>4, <3>5 DEF Stays, DataOf
    <3>6. CASE ContextAt(q) # "start"
      <4>1. \A i \in 1 .. LOCALS : stack'[Home(q)][i] = stack[Home(q)][i]
        BY <2>2, <2>3, <2>5, <3>6
      <4> QED
        BY <1>1, <3>1, <3>2, <3>3, <4>1 DEF Stays, DataOf
    <3> QED
      BY <3>5, <3>6
  <2>7. Stays(p)
    <3>1. PositionOf(p)' = PositionOf(p)
      BY <1>1, <2>0, <2>1, Homes DEF PositionOf
    <3>2. CASE l = "start"
      <4>1. PositionOf(p) = "start"
        BY <1>4, <2>1, <3>2 DEF Running, Stmt
      <4> QED
        BY <3>1, <4>1 DEF Stays, DataOf
    <3>3. CASE l = "restore"
      <4>1. HasContext(p, LOCALS + FRAME, "delay") /\ sp = procs[q].sp
        BY <1>4, <2>0, <2>1, <3>3 DEF PlaceInv
      <4>2. sp.base = Home(q) /\ procs[p].sp.base = Home(p)
        BY <2>3, <4>1 DEF HasContext
      <4>3. stack'[Home(p)] = stack[Home(p)]
        BY <1>2, <2>1, <4>2
      <4> QED
        BY <1>1, <3>1, <4>2, <4>3 DEF Stays, DataOf
    <3>4. CASE l \notin {"start", "restore"}
      <4>1. sp = [base |-> Home(p), depth |-> LOCALS]
            \/ sp = [base |-> Home(p), depth |-> LOCALS + FRAME]
        BY <1>4, <2>1, <3>4 DEF PlaceInv, BodyLabels
      <4>2. \A i \in 1 .. LOCALS : stack'[Home(p)][i] = stack[Home(p)][i]
        BY <1>2, <2>2, <4>1
      <4> QED
        BY <1>1, <2>1, <3>1, <3>4, <4>2 DEF Stays, DataOf
    <3> QED
      BY <3>2, <3>3, <3>4
  <2>8. \A r \in Procs : Stays(r)
    BY <2>0, <2>6, <2>7, BothStay
  <2> QED
    BY <1>1, <2>8, Invisible
<1>5. pc[1] = -1 \/ \E p \in Procs : \E l \in BodyLabels : pc = Body(p, l)
  BY <1>1 DEF ControlInv, ControlTypeOK, Labels, KM, Body
<1> QED
  BY <1>3, <1>4, <1>5

LEMMA MachineUnseen == UNCHANGED vars => UNCHANGED RR!rrVars
<1> SUFFICES ASSUME UNCHANGED vars PROVE UNCHANGED RR!rrVars
  OBVIOUS
<1>1. UNCHANGED <<procs, stack, pc, sregs, console>>
  BY DEF vars, cpu
<1>2. \A p \in Procs : Stays(p)
  BY <1>1 DEF Stays, PositionOf, DataOf
<1> QED
  BY <1>1, <1>2, Invisible

LEMMA InitSeen == OnStackInit => RR!Init
<1> SUFFICES ASSUME OnStackInit PROVE RR!Init
  OBVIOUS
<1>1. pc[1] = -1 /\ console = <<-1, "nothing">>
  BY DEF OnStackInit, Init, KM
<1>2. \A n \in 1 .. 2 : PositionOf(2 - n) = "start" /\ DataOf(2 - n) = Zero
  BY <1>1, NobodyHasRun, Numbers
<1> QED
  BY <1>1, <1>2 DEF RR!Init, RR!Procs

\* The two processes, which name each other in switch_context, implement the
\* same turns as the scheduler's: B first, each with registers and frames of
\* its own, whatever traps.
THEOREM ProcessesTakeTurns == OnStackSpec => TakeTurns
<1>1. OnStackInit => RR!Init
  BY InitSeen
<1>2. OnStackInv /\ [OnStackNext]_onStackVars => [RR!Next]_RR!rrVars
  <2> SUFFICES ASSUME OnStackInv, [OnStackNext]_onStackVars PROVE [RR!Next]_RR!rrVars
    OBVIOUS
  <2>1. CASE Execute
    BY <2>1, NextSeen DEF Execute, OnStackInv
  <2>2. CASE kernel_entry
    BY <2>2, KernelEntryUnseen
  <2>3. CASE Raise \/ handle_trap \/ UNCHANGED onStackVars
    <3>1. UNCHANGED vars
      BY <2>3 DEF Raise, handle_trap, onStackVars
    <3> QED
      BY <3>1, MachineUnseen
  <2> QED
    BY <2>1, <2>2, <2>3 DEF OnStackNext
<1> QED
  BY <1>1, <1>2, OnStackInvariant, PTL DEF OnStackSpec, TakeTurns, RR!Spec
=============================================================================

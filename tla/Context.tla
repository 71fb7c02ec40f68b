------------------------------ MODULE Context ------------------------------
(***************************************************************************)
(* Stacks and saved contexts: the words switch_context pushes and pops,    *)
(* and the words create_process lays out for a process that never ran.     *)
(*                                                                         *)
(* A stack is a function from 1 .. STACK_WORDS to words; word 1 is the     *)
(* highest one.  A stack pointer is a pair [base, depth]: the stack it     *)
(* points into and the number of words pushed, so that the word at byte    *)
(* offset 4*k from the pointer is word depth - k.                          *)
(***************************************************************************)
EXTENDS Integers

CONSTANTS
  NSREGS,       \* callee-saved registers s0, s1, ...: 12 in the code
  STACK_WORDS,  \* words in a stack: 8192 / 4 in the code
  Vals,         \* what a register or a local variable may hold
  Zero          \* the value 0

ASSUME ContextAssumption ==
  /\ NSREGS \in Nat
  /\ STACK_WORDS \in Nat
  /\ Zero \in Vals

SReg  == 1 .. NSREGS          \* s0 is number 1, s11 number 12
FRAME == NSREGS + 1           \* the 13 words of a saved context
Depth == 0 .. STACK_WORDS

(***************************************************************************)
(* Context words by offset from sp, as switch_context stores and loads     *)
(* them: "sw ra, 0 * 4(sp)", "sw s0, 1 * 4(sp)", ...                       *)
(***************************************************************************)
ContextWords(ra, s) ==
  [off \in 0 .. NSREGS |-> IF off = 0 THEN ra ELSE s[off]]

\* "addi sp, sp, -13 * 4" and the thirteen stores, from a stack with d words.
PushContext(mem, d, ra, s) ==
  [i \in 1 .. STACK_WORDS |->
     IF i \in d + 1 .. d + FRAME THEN ContextWords(ra, s)[d + FRAME - i]
                                 ELSE mem[i]]

\* "lw ra, 0 * 4(sp)" with d words on the stack.
SavedRa(mem, d) == mem[d]

\* Registers loaded one word too low.
SavedSRegs_FromZero(mem, d) == [r \in SReg |-> mem[d - r + 1]]

\* "lw s0, 1 * 4(sp)" ... "lw s11, 12 * 4(sp)" with d words on the stack.
SavedSRegs(mem, d) == [r \in SReg |-> mem[d - r]]

\* Word off of the frame at sp, "off * 4(sp)".
PutFrame(mem, d, words) ==
  [i \in 1 .. STACK_WORDS |->
     IF d - i \in DOMAIN words THEN words[d - i] ELSE mem[i]]

(***************************************************************************)
(* The frame of a new process: twelve times "*--sp = 0", for s11 down to   *)
(* s0, then "*--sp = pc", each store one word below the one before.        *)
(***************************************************************************)
InitialContext(mem, entry) ==
  LET pushes == [n \in 1 .. FRAME |-> IF n = FRAME THEN entry ELSE Zero]
  IN  [i \in 1 .. STACK_WORDS |-> IF i <= FRAME THEN pushes[i] ELSE mem[i]]
=============================================================================

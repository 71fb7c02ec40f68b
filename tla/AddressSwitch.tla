---------------------------- MODULE AddressSwitch ----------------------------
(***************************************************************************)
(* The scheduler of the page-tables kernel: that of module Scheduler, whose*)
(* yeild also installs the page table of the process it chose, between two *)
(* sfence.vma.  The hardware may walk the installed table and keep what it *)
(* finds at any time, between the two instructions too.  A page table is   *)
(* named by the slot of its process; what it maps is in ProcessSpaces.     *)
(***************************************************************************)
EXTENDS Scheduler

VARIABLES
  satp,    \* the installed page table, NULL while translation is off
  tlb,     \* the page tables of which translations are cached
  asm      \* the instruction of yeild's asm block that is next

switchVars == <<vars, satp, tlb, asm>>

\* Types: satp names a page table of the table of processes, or is off.
SwitchTypeOK ==
  /\ satp \in Slots \cup {NULL}
  /\ tlb \subseteq Slots
  /\ asm \in {"sfence", "satp", "sfence again", "sscratch"}

SwitchInit == Init /\ satp = NULL /\ tlb = {} /\ asm = "sfence"

\* "sfence.vma"
Sfence ==
  /\ pc = Y("sscratch")
  /\ asm = "sfence"
  /\ tlb' = {}
  /\ asm' = "satp"
  /\ UNCHANGED <<vars, satp>>

\* "csrw satp, %[satp]"
SetSatp ==
  /\ pc = Y("sscratch")
  /\ asm = "satp"
  /\ satp' = next
  /\ asm' = "sfence again"
  /\ UNCHANGED <<vars, tlb>>

\* No second fence.
Flushed_Not == tlb

Flushed == {}

\* "sfence.vma" after the csrw.
SfenceAgain ==
  /\ pc = Y("sscratch")
  /\ asm = "sfence again"
  /\ tlb' = Flushed
  /\ asm' = "sscratch"
  /\ UNCHANGED <<vars, satp>>

\* "csrw sscratch, %[sscratch]", and every other statement of the kernel.
Execute ==
  /\ pc = Y("sscratch") => asm = "sscratch"
  /\ Next
  /\ asm' = IF pc = Y("sscratch") THEN "sfence" ELSE asm
  /\ UNCHANGED <<satp, tlb>>

\* The hardware caches a translation of the installed table.
CacheTranslation ==
  /\ satp # NULL
  /\ tlb' = tlb \cup {satp}
  /\ UNCHANGED <<vars, satp, asm>>

SwitchNext == Sfence \/ SetSatp \/ SfenceAgain \/ Execute \/ CacheTranslation

SwitchSpec == SwitchInit /\ [][SwitchNext]_switchVars

\* The hart executes for ever; the hardware need not cache anything.
FairSwitchSpec ==
  SwitchSpec /\ WF_switchVars(Sfence \/ SetSatp \/ SfenceAgain \/ Execute)
-----------------------------------------------------------------------------
(* Correctness *)

\* From the end of the asm block on, and so in every statement of a process,
\* translations come from the page table of the process that runs: none of
\* the process before it is left in the TLB.
TranslationsAreOwn ==
  /\ pc \in BodyLabels => satp = curr_proc /\ tlb \subseteq {curr_proc}
  /\ pc \in {Y("curr_proc"), Y("save"), Y("restore")} =>
       satp = next /\ tlb \subseteq {next}
=============================================================================

----------------------------- MODULE RoundRobin -----------------------------
(***************************************************************************)
(* What the scheduler promises: N processes that take turns in a fixed     *)
(* cyclic order.  Every process has its own position and its own data,     *)
(* nothing is shared but the console, and control passes on only when the  *)
(* running process yields.  There are no stacks, no saved contexts and no  *)
(* process table here.                                                     *)
(***************************************************************************)
EXTENDS Integers

CONSTANTS
  NumProcs,   \* the number of processes
  Data,       \* what a process keeps between two of its steps
  Blank       \* the data of a process that has not run

Procs == 1 .. NumProcs

VARIABLES
  running,    \* the process that has the CPU, 0 before the first dispatch
  at,         \* the statement each process is about to execute
  data,       \* what each process keeps across a yield
  console     \* the last thing printed: the process and what it printed

rrVars == <<running, at, data, console>>

\* Types.
TypeOK ==
  /\ running \in 0 .. NumProcs
  /\ at \in [Procs -> {"start", "putchar", "yeild", "delay"}]
  /\ data \in [Procs -> Data \cup {Blank}]
  /\ console \in {<<0, "nothing">>} \cup (Procs \X {"start", "char"})

Init ==
  /\ running = 0
  /\ at = [p \in Procs |-> "start"]
  /\ data = [p \in Procs |-> Blank]
  /\ console = <<0, "nothing">>

After(p) == IF p = NumProcs THEN 1 ELSE p + 1

\* The kernel hands the CPU to the first process.
Dispatch ==
  /\ running = 0
  /\ NumProcs > 0
  /\ running' = 1
  /\ UNCHANGED <<at, data, console>>

Announce(p) ==
  /\ running = p
  /\ at[p] = "start"
  /\ at' = [at EXCEPT ![p] = "putchar"]
  /\ \E d \in Data : data' = [data EXCEPT ![p] = d]
  /\ console' = <<p, "start">>
  /\ UNCHANGED running

PutChar(p) ==
  /\ running = p
  /\ at[p] = "putchar"
  /\ at' = [at EXCEPT ![p] = "yeild"]
  /\ console' = <<p, "char">>
  /\ UNCHANGED <<running, data>>

Yield(p) ==
  /\ running = p
  /\ at[p] = "yeild"
  /\ at' = [at EXCEPT ![p] = "delay"]
  /\ running' = After(p)
  /\ UNCHANGED <<data, console>>

Work(p) ==
  /\ running = p
  /\ at[p] = "delay"
  /\ at' = [at EXCEPT ![p] = "putchar"]
  /\ \E d \in Data : data' = [data EXCEPT ![p] = d]
  /\ UNCHANGED <<running, console>>

Next ==
  \/ Dispatch
  \/ \E p \in Procs : Announce(p) \/ PutChar(p) \/ Yield(p) \/ Work(p)

Spec == Init /\ [][Next]_rrVars

\* The CPU never stops.
FairSpec == Spec /\ WF_rrVars(Next)
=============================================================================

----------------------------- MODULE MemString -----------------------------
(***************************************************************************)
(* memset, memcpy, strcpy and strcmp of common.c: byte loops over memory.  *)
(* A call has arguments the C standard allows, except that the ranges of   *)
(* memcpy and strcpy may overlap: the kernels' own copies are byte loops   *)
(* whose result is defined then too.                                       *)
(***************************************************************************)
EXTENDS Integers, FiniteSetsExt

CONSTANTS
  SIZE,     \* bytes of memory
  ByteValues     \* what a byte may hold, 0 included

ASSUME MemAssumption == SIZE \in Nat \ {0} /\ 0 \in ByteValues /\ ByteValues \subseteq Nat

Address == 0 .. SIZE - 1
End(s, mem) == Min({a \in s .. SIZE - 1 : mem[a] = 0})
IsString(s, mem) == \E a \in s .. SIZE - 1 : mem[a] = 0

VARIABLES
  running,       \* the function running, or "return"
  mem,
  d, s, n,       \* its pointers and its count
  result,
  called         \* the call: function, arguments, memory at the time

memVars == <<running, mem, d, s, n, result, called>>

\* Types: no pointer leaves memory, no count goes below zero.
MemTypeOK ==
  /\ running \in {"memset", "memcpy", "strcpy", "strcmp", "return"}
  /\ mem \in [Address -> ByteValues]
  /\ d \in 0 .. SIZE /\ s \in 0 .. SIZE /\ n \in 0 .. SIZE
  /\ called.f \in {"memset", "memcpy", "strcpy", "strcmp", "none"}

MemInit ==
  /\ running \in {"memset", "memcpy", "strcpy", "strcmp"}
  /\ mem \in [Address -> ByteValues]
  /\ d \in 0 .. SIZE /\ s \in 0 .. SIZE /\ n \in 0 .. SIZE
  /\ CASE running = "memset" -> d + n <= SIZE /\ s \in ByteValues
       [] running = "memcpy" -> d + n <= SIZE /\ s + n <= SIZE
       [] running = "strcpy" ->
            /\ n = 0 /\ IsString(s, mem)
            /\ d + (End(s, mem) - s) < SIZE
            \* a destination inside the source overwrites the terminator
            /\ d \notin s + 1 .. End(s, mem)
       [] running = "strcmp" -> n = 0 /\ IsString(d, mem) /\ IsString(s, mem)
  /\ result = 0
  /\ called = [f |-> running, d |-> d, s |-> s, n |-> n, mem |-> mem]

\* "while (--n)"
Counting_DownFirst == n > 1
Counting == n > 0

Return(v) == running' = "return" /\ result' = v

\* Here s holds the character c.
memset ==
  /\ running = "memset"
  /\ IF Counting
       THEN /\ mem' = [mem EXCEPT ![d] = s]
            /\ d' = d + 1 /\ n' = n - 1
            /\ UNCHANGED <<running, result>>
       ELSE Return(called.d) /\ UNCHANGED <<mem, d, n>>
  /\ UNCHANGED <<s, called>>

memcpy ==
  /\ running = "memcpy"
  /\ IF Counting
       THEN /\ mem' = [mem EXCEPT ![d] = mem[s]]
            /\ d' = d + 1 /\ s' = s + 1 /\ n' = n - 1
            /\ UNCHANGED <<running, result>>
       ELSE Return(called.d) /\ UNCHANGED <<mem, d, s, n>>
  /\ UNCHANGED called

strcpy ==
  /\ running = "strcpy"
  /\ IF mem[s] # 0
       THEN /\ mem' = [mem EXCEPT ![d] = mem[s]]
            /\ d' = d + 1 /\ s' = s + 1
            /\ UNCHANGED <<running, result>>
       ELSE mem' = [mem EXCEPT ![d] = 0] /\ Return(called.d) /\ UNCHANGED <<d, s>>
  /\ UNCHANGED <<n, called>>

\* No "if (*s1 != *s2) break;": the strings are compared by length.
MoreToCompare_NoBreak == mem[d] # 0 /\ mem[s] # 0
MoreToCompare == mem[d] # 0 /\ mem[s] # 0 /\ mem[d] = mem[s]

\* Here d and s are s1 and s2.
strcmp ==
  /\ running = "strcmp"
  /\ IF MoreToCompare
       THEN d' = d + 1 /\ s' = s + 1 /\ UNCHANGED <<running, result>>
       ELSE Return(mem[d] - mem[s]) /\ UNCHANGED <<d, s>>
  /\ UNCHANGED <<mem, n, called>>

MemNext == memset \/ memcpy \/ strcpy \/ strcmp

MemSpec == MemInit /\ [][MemNext]_memVars
-----------------------------------------------------------------------------
(* Correctness *)

old == called.mem
Returned(f) == running = "return" /\ called.f = f

\* memset sets the n bytes it was given, also for n = 0, and no other.
MemsetCorrect == Returned("memset") =>
  /\ result = called.d
  /\ mem = [a \in Address |->
              IF a \in called.d .. called.d + called.n - 1 THEN called.s ELSE old[a]]

\* memcpy copies, and touches nothing else, whenever the destination does not
\* start inside the source; going up, it may start below an overlap.
MemcpyCorrect ==
  (Returned("memcpy") /\ called.d \notin called.s + 1 .. called.s + called.n - 1) =>
    /\ result = called.d
    /\ mem = [a \in Address |->
                IF a \in called.d .. called.d + called.n - 1
                  THEN old[a - called.d + called.s] ELSE old[a]]

\* strcpy copies up to and including the terminator and nothing else.
StrcpyCorrect == Returned("strcpy") =>
  /\ result = called.d
  /\ LET len == End(called.s, old) - called.s
     IN  mem = [a \in Address |->
                  IF a \in called.d .. called.d + len
                    THEN old[a - called.d + called.s] ELSE old[a]]

\* memset, memcpy and strcpy write what the C library's would, and only that.
StoresCorrect == MemsetCorrect /\ MemcpyCorrect /\ StrcpyCorrect

\* strcmp has the sign of the first difference, the terminator included.
StrcmpCorrect == Returned("strcmp") =>
  LET x(k) == old[called.d + k]
      y(k) == old[called.s + k]
      same == {k \in 0 .. End(called.d, old) - called.d :
                 /\ called.s + k < SIZE
                 /\ \A j \in 0 .. k - 1 : x(j) = y(j) /\ x(j) # 0}
      last == Max(same)
  IN  result = x(last) - y(last)
=============================================================================

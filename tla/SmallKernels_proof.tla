------------------------- MODULE SmallKernels_proof -------------------------
(***************************************************************************)
(* The byte loops of common.c compute what the C library's functions do,   *)
(* for every memory and every call, and the small kernels rely on it.      *)
(* printf prints what its format and arguments ask for, for every message, *)
(* and the console shows what each kernel has to show.                     *)
(***************************************************************************)
EXTENDS SmallKernels, ArithmeticLemmas, SequenceTheorems

Functions == {"memset", "memcpy", "strcpy", "strcmp"}
Memory == [Address -> ByteValues]

\* The bytes from called.d up to d have been written, in order, and no other.
Filled(to) ==
  \A a \in Address :
    mem[a] = IF a \in called.d .. to - 1 THEN called.s ELSE old[a]
Copied(to) ==
  \A a \in Address :
    mem[a] = IF a \in called.d .. to - 1 THEN old[a - called.d + called.s] ELSE old[a]

\* Both pointers have come equally far.
InStep == d - called.d = s - called.s /\ called.d <= d

\* e is the terminator of the string that starts at p.
Ends(p, e, m) ==
  e \in p .. SIZE - 1 /\ m[e] = 0 /\ \A a \in p .. e - 1 : m[a] # 0

\* The loops' invariants; a call from kernel_main or by itself.
MemsetInv ==
  /\ called.s \in ByteValues /\ called.d + called.n <= SIZE /\ s = called.s
  /\ called.d <= d /\ d + n = called.d + called.n
  /\ Filled(d)
  /\ running = "return" => n = 0

MemcpyInv ==
  /\ called.d + called.n <= SIZE /\ called.s + called.n <= SIZE
  /\ InStep /\ d + n = called.d + called.n
  /\ called.d \notin called.s + 1 .. called.s + called.n - 1 => Copied(d)
  /\ running = "return" => n = 0

StrcpyInv ==
  LET e == End(called.s, old)
  IN  /\ Ends(called.s, e, old)
      /\ called.d + (e - called.s) < SIZE /\ called.d \notin called.s + 1 .. e
      /\ InStep /\ s <= e /\ n = 0
      /\ IF running = "return" THEN s = e /\ Copied(d + 1) ELSE Copied(d)

StrcmpInv ==
  LET dEnd == End(called.d, old)
      sEnd == End(called.s, old)
  IN  /\ Ends(called.d, dEnd, old) /\ Ends(called.s, sEnd, old)
      /\ InStep /\ d <= dEnd /\ s <= sEnd /\ n = 0
      /\ mem = old
      /\ \A j \in 0 .. d - called.d - 1 :
           old[called.d + j] = old[called.s + j] /\ old[called.d + j] # 0
      /\ running = "return" => ~ MoreToCompare /\ result = mem[d] - mem[s]

CallOK ==
  /\ called.f \in Functions
  /\ called.d \in 0 .. SIZE /\ called.s \in 0 .. SIZE /\ called.n \in 0 .. SIZE
  /\ old \in Memory
  /\ running \in {called.f, "return"}
  /\ running = "return" /\ called.f # "strcmp" => result = called.d

MemInv ==
  /\ MemTypeOK
  /\ running # "return" => called.f # "none"
  /\ called.f # "none" => CallOK
  /\ called.f = "memset" => MemsetInv
  /\ called.f = "memcpy" => MemcpyInv
  /\ called.f = "strcpy" => StrcpyInv
  /\ called.f = "strcmp" => StrcmpInv
-----------------------------------------------------------------------------
(* Strings *)

LEMMA EndOfString ==
  ASSUME NEW m \in Memory, NEW p \in 0 .. SIZE, IsString(p, m)
  PROVE  Ends(p, End(p, m), m)
<1> DEFINE Z == {a \in p .. SIZE - 1 : m[a] = 0}
<1>1. Z \in SUBSET Nat /\ Z # {}
  BY MemAssumption DEF IsString
<1>2. Min(Z) \in Z /\ \A x \in Z : Min(Z) <= x
  BY <1>1, MinIsLeast
<1>3. End(p, m) = Min(Z)
  BY DEF End
<1> HIDE DEF Z
<1>4. End(p, m) \in p .. SIZE - 1 /\ m[End(p, m)] = 0
  BY <1>2, <1>3 DEF Z
<1>5. \A a \in p .. End(p, m) - 1 : m[a] # 0
  <2> SUFFICES ASSUME NEW a \in p .. End(p, m) - 1, m[a] = 0 PROVE FALSE
    OBVIOUS
  <2>1. a \in Z /\ a < End(p, m)
    BY <1>4, MemAssumption DEF Z
  <2> QED
    BY <1>2, <1>3, <1>4, <2>1, MemAssumption
<1> QED
  BY <1>4, <1>5 DEF Ends

LEMMA MemInitInv == MemInit => MemInv
<1> SUFFICES ASSUME MemInit PROVE MemInv
  OBVIOUS
<1> USE MemAssumption
<1>1. /\ called = [f |-> running, d |-> d, s |-> s, n |-> n, mem |-> mem]
      /\ running \in Functions /\ mem \in Memory
      /\ d \in 0 .. SIZE /\ s \in 0 .. SIZE /\ n \in 0 .. SIZE
  BY DEF MemInit, Functions, Memory
<1>2. /\ called.f = running /\ called.d = d /\ called.s = s /\ called.n = n
      /\ old = mem /\ running # "return"
  BY <1>1 DEF old, Functions
<1>3. MemTypeOK /\ CallOK
  BY <1>1, <1>2 DEF MemTypeOK, CallOK, Functions, Memory
<1>4. Filled(d) /\ Copied(d) /\ InStep
  BY <1>1, <1>2 DEF Filled, Copied, InStep
<1>5. running = "memset" => MemsetInv
  BY <1>1, <1>2, <1>4 DEF MemsetInv, MemInit
<1>6. running = "memcpy" => MemcpyInv
  BY <1>1, <1>2, <1>4 DEF MemcpyInv, MemInit
<1>7. running = "strcpy" => StrcpyInv
  <2> SUFFICES ASSUME running = "strcpy" PROVE StrcpyInv
    OBVIOUS
  <2>1. IsString(s, mem) /\ n = 0 /\ d + (End(s, mem) - s) < SIZE
        /\ d \notin s + 1 .. End(s, mem)
    BY DEF MemInit
  <2>2. Ends(s, End(s, mem), mem)
    BY <1>1, <2>1, EndOfString
  <2> QED
    BY <1>1, <1>2, <1>4, <2>1, <2>2 DEF StrcpyInv, Ends
<1>8. running = "strcmp" => StrcmpInv
  <2> SUFFICES ASSUME running = "strcmp" PROVE StrcmpInv
    OBVIOUS
  <2>1. IsString(d, mem) /\ IsString(s, mem) /\ n = 0
    BY DEF MemInit
  <2>2. Ends(d, End(d, mem), mem) /\ Ends(s, End(s, mem), mem)
    BY <1>1, <2>1, EndOfString
  <2> QED
    BY <1>1, <1>2, <1>4, <2>1, <2>2 DEF StrcmpInv, Ends
<1> QED
  BY <1>1, <1>2, <1>3, <1>5, <1>6, <1>7, <1>8 DEF MemInv, Functions
-----------------------------------------------------------------------------
(* The loops *)

\* What every step of a loop leaves alone.
LEMMA StepFrame ==
  ASSUME MemInv, MemNext
  PROVE  /\ CallOK /\ called.f = running /\ called' = called /\ old' = old
         /\ running \in Functions /\ running' \in {running, "return"}
         /\ mem \in Memory /\ d \in Int /\ s \in Int /\ n \in Int
<1>1. running \in Functions /\ called' = called /\ running' \in {running, "return"}
  BY DEF MemNext, memset, memcpy, strcpy, strcmp, Functions, Return
<1>2. CallOK /\ called.f = running
  BY <1>1 DEF MemInv, CallOK, Functions
<1>3. mem \in Memory /\ d \in Int /\ s \in Int /\ n \in Int
  BY MemAssumption DEF MemInv, MemTypeOK, Memory
<1> QED
  BY <1>1, <1>2, <1>3 DEF old

LEMMA MemsetStep ==
  ASSUME MemInv, memset
  PROVE  MemInv'
<1> USE MemAssumption
<1>1. /\ CallOK /\ called.f = "memset" /\ running = "memset" /\ called' = called
      /\ old' = old /\ mem \in Memory /\ d \in Int /\ s \in Int /\ n \in Int
  BY StepFrame DEF MemNext, memset
<1>2. /\ s \in ByteValues /\ called.d + called.n <= SIZE /\ s = called.s
      /\ called.d <= d /\ d + n = called.d + called.n
      /\ Filled(d) /\ 0 <= n /\ 0 <= d
      /\ called.d \in 0 .. SIZE /\ called.n \in 0 .. SIZE /\ s \in 0 .. SIZE
  BY <1>1 DEF MemInv, MemsetInv, MemTypeOK, CallOK
<1>3. CASE Counting
  <2>1. /\ mem' = [mem EXCEPT ![d] = s] /\ d' = d + 1 /\ n' = n - 1
        /\ running' = running /\ result' = result /\ s' = s
    BY <1>3 DEF memset
  <2>2. d \in Address /\ 0 < n /\ n \in Nat
    BY <1>2, <1>3, <1>1 DEF Counting, Address
  <2>3. Filled(d)'
    <3> SUFFICES ASSUME NEW a \in Address
                 PROVE  mem'[a] = IF a \in called.d .. d THEN called.s ELSE old[a]
      BY <1>1, <1>2, <2>1 DEF Filled, Address
    <3>1. mem[a] = IF a \in called.d .. d - 1 THEN called.s ELSE old[a]
      BY <1>2 DEF Filled
    <3>2. mem'[a] = IF a = d THEN s ELSE mem[a]
      BY <1>1, <2>1 DEF Memory
    <3> QED
      BY <1>1, <1>2, <3>1, <3>2 DEF Address
  <2>4. mem' \in Memory
    BY <1>1, <1>2, <2>1 DEF Memory
  <2>5. MemsetInv'
    BY <1>1, <1>2, <2>1, <2>2, <2>3 DEF MemsetInv
  <2>6. MemTypeOK' /\ CallOK'
    BY <1>1, <1>2, <2>1, <2>2, <2>4 DEF MemTypeOK, CallOK, Memory, Functions
  <2> QED
    BY <1>1, <2>1, <2>5, <2>6 DEF MemInv
<1>4. CASE ~ Counting
  <2>1. /\ running' = "return" /\ result' = called.d
        /\ UNCHANGED <<mem, d, n, s>>
    BY <1>4 DEF memset, Return
  <2>2. n = 0
    BY <1>1, <1>2, <1>4 DEF Counting
  <2>3. MemsetInv'
    BY <1>1, <1>2, <2>1, <2>2 DEF MemsetInv, Filled
  <2>4. MemTypeOK' /\ CallOK'
    BY <1>1, <2>1 DEF MemTypeOK, CallOK, Functions, MemInv
  <2> QED
    BY <1>1, <2>1, <2>3, <2>4 DEF MemInv
<1> QED
  BY <1>3, <1>4

LEMMA MemcpyStep ==
  ASSUME MemInv, memcpy
  PROVE  MemInv'
<1> USE MemAssumption
<1>1. /\ CallOK /\ called.f = "memcpy" /\ running = "memcpy" /\ called' = called
      /\ old' = old /\ mem \in Memory /\ d \in Int /\ s \in Int /\ n \in Int
  BY StepFrame DEF MemNext, memcpy
<1> DEFINE Apart == called.d \notin called.s + 1 .. called.s + called.n - 1
<1>2. /\ called.d + called.n <= SIZE /\ called.s + called.n <= SIZE
      /\ d - called.d = s - called.s /\ called.d <= d /\ d + n = called.d + called.n
      /\ 0 <= n
      /\ Apart => Copied(d)
      /\ called.d \in 0 .. SIZE /\ called.n \in 0 .. SIZE /\ called.s \in 0 .. SIZE
  BY <1>1 DEF MemInv, MemcpyInv, MemTypeOK, CallOK, InStep
<1>3. CASE Counting
  <2>1. /\ mem' = [mem EXCEPT ![d] = mem[s]] /\ d' = d + 1 /\ s' = s + 1 /\ n' = n - 1
        /\ running' = running /\ result' = result
    BY <1>3 DEF memcpy
  <2>2. d \in Address /\ s \in Address /\ 0 < n
    BY <1>2, <1>3, <1>1 DEF Counting, Address
  <2>3. ASSUME Apart PROVE Copied(d)'
    <3>0. mem[s] = old[s] /\ s = d - called.d + called.s
      <4>1. s \notin called.d .. d - 1
        BY <1>1, <1>2, <2>2, <2>3 DEF Address
      <4> QED
        BY <1>1, <1>2, <2>2, <2>3, <4>1 DEF Copied, Address
    <3> SUFFICES ASSUME NEW a \in Address
                 PROVE  mem'[a] = IF a \in called.d .. d THEN old[a - called.d + called.s]
                                  ELSE old[a]
      BY <1>1, <1>2, <2>1 DEF Copied, Address
    <3>1. mem[a] = IF a \in called.d .. d - 1 THEN old[a - called.d + called.s] ELSE old[a]
      BY <1>2, <2>3 DEF Copied
    <3>2. mem'[a] = IF a = d THEN mem[s] ELSE mem[a]
      BY <1>1, <2>1 DEF Memory
    <3> QED
      BY <1>1, <1>2, <3>0, <3>1, <3>2 DEF Address
  <2>4. mem' \in Memory
    BY <1>1, <2>1, <2>2 DEF Memory
  <2>5. MemcpyInv'
    BY <1>1, <1>2, <2>1, <2>2, <2>3 DEF MemcpyInv, InStep
  <2>6. MemTypeOK' /\ CallOK'
    BY <1>1, <1>2, <2>1, <2>2, <2>4 DEF MemTypeOK, CallOK, Memory, Functions
  <2> QED
    BY <1>1, <2>1, <2>5, <2>6 DEF MemInv
<1>4. CASE ~ Counting
  <2>1. /\ running' = "return" /\ result' = called.d
        /\ UNCHANGED <<mem, d, s, n>>
    BY <1>4 DEF memcpy, Return
  <2>2. n = 0
    BY <1>1, <1>2, <1>4 DEF Counting
  <2>3. MemcpyInv'
    BY <1>1, <1>2, <2>1, <2>2 DEF MemcpyInv, Copied, InStep
  <2>4. MemTypeOK' /\ CallOK'
    BY <1>1, <2>1 DEF MemTypeOK, CallOK, Functions, MemInv
  <2> QED
    BY <1>1, <2>1, <2>3, <2>4 DEF MemInv
<1> QED
  BY <1>3, <1>4

LEMMA StrcpyStep ==
  ASSUME MemInv, strcpy
  PROVE  MemInv'
<1> USE MemAssumption
<1>1. /\ CallOK /\ called.f = "strcpy" /\ running = "strcpy" /\ called' = called
      /\ old' = old /\ mem \in Memory /\ d \in Int /\ s \in Int /\ n' = n
  BY StepFrame DEF MemNext, strcpy
<1> DEFINE e == End(called.s, old)
<1>2. /\ e \in called.s .. SIZE - 1 /\ old[e] = 0 /\ \A a \in called.s .. e - 1 : old[a] # 0
      /\ called.d + (e - called.s) < SIZE /\ called.d \notin called.s + 1 .. e
      /\ d - called.d = s - called.s /\ called.d <= d /\ s <= e /\ n = 0
      /\ Copied(d)
      /\ called.d \in 0 .. SIZE /\ called.s \in 0 .. SIZE /\ MemTypeOK
  BY <1>1 DEF MemInv, StrcpyInv, CallOK, InStep, Ends
<1>3. e' = e
  BY <1>1
<1> HIDE DEF e
<1>4. d \in Address /\ s \in Address /\ s = d - called.d + called.s
  BY <1>1, <1>2 DEF Address
<1>5. mem[s] = old[s]
  <2>1. s \notin called.d .. d - 1
    BY <1>1, <1>2, <1>4 DEF Address
  <2> QED
    BY <1>2, <1>4, <2>1 DEF Copied
<1>6. ASSUME mem' = [mem EXCEPT ![d] = mem[s]]
      PROVE  /\ mem' \in Memory
             /\ \A a \in Address :
                  mem'[a] = IF a \in called.d .. d THEN old[a - called.d + called.s] ELSE old[a]
  <2>1. mem' \in Memory
    BY <1>1, <1>4, <1>6 DEF Memory
  <2>2. ASSUME NEW a \in Address
        PROVE  mem'[a] = IF a \in called.d .. d THEN old[a - called.d + called.s] ELSE old[a]
    <3>1. mem[a] = IF a \in called.d .. d - 1 THEN old[a - called.d + called.s] ELSE old[a]
      BY <1>2 DEF Copied
    <3>2. mem'[a] = IF a = d THEN mem[s] ELSE mem[a]
      BY <1>1, <1>6 DEF Memory
    <3> QED
      BY <1>1, <1>2, <1>4, <1>5, <3>1, <3>2 DEF Address
  <2> QED
    BY <2>1, <2>2
<1>7. CASE mem[s] # 0
  <2>1. /\ mem' = [mem EXCEPT ![d] = mem[s]] /\ d' = d + 1 /\ s' = s + 1
        /\ running' = running /\ result' = result
    BY <1>7 DEF strcpy
  <2>2. s < e
    BY <1>1, <1>2, <1>5, <1>7
  <2>3. Copied(d)'
    BY <1>1, <1>2, <1>6, <2>1 DEF Copied
  <2>4. StrcpyInv'
    <3>1. /\ Ends(called.s, e, old)' /\ (InStep /\ s <= e /\ n = 0 /\ running # "return")'
          /\ called.d + (e - called.s) < SIZE /\ called.d \notin called.s + 1 .. e
      BY <1>1, <1>2, <1>3, <2>1, <2>2 DEF Ends, InStep
    <3> QED
      BY <1>1, <1>3, <2>3, <3>1 DEF StrcpyInv, e
  <2>5. MemTypeOK' /\ CallOK'
    <3>1. d' \in 0 .. SIZE /\ s' \in 0 .. SIZE /\ n' \in 0 .. SIZE
      BY <1>1, <1>2, <1>4, <2>1, <2>2 DEF Address
    <3> QED
      BY <1>1, <1>6, <2>1, <3>1 DEF MemTypeOK, CallOK, Memory, Functions
  <2> QED
    BY <1>1, <2>1, <2>4, <2>5 DEF MemInv
<1>8. CASE mem[s] = 0
  <2>1. /\ mem' = [mem EXCEPT ![d] = mem[s]] /\ running' = "return" /\ result' = called.d
        /\ d' = d /\ s' = s
    BY <1>8 DEF strcpy, Return
  <2>2. s = e
    <3>1. s \notin called.s .. e - 1
      BY <1>2, <1>5, <1>8
    <3> QED
      BY <1>1, <1>2, <3>1
  <2>3. Copied(d + 1)'
    <3>1. d' + 1 - 1 = d
      BY <1>1, <2>1
    <3> QED
      BY <1>1, <1>6, <2>1, <3>1 DEF Copied
  <2>4. StrcpyInv'
    <3>1. /\ Ends(called.s, e, old)' /\ (InStep /\ s = e /\ s <= e /\ n = 0 /\ running = "return")'
          /\ called.d + (e - called.s) < SIZE /\ called.d \notin called.s + 1 .. e
      BY <1>1, <1>2, <1>3, <2>1, <2>2 DEF Ends, InStep
    <3> QED
      BY <1>1, <1>3, <2>3, <3>1 DEF StrcpyInv, e
  <2>5. MemTypeOK' /\ CallOK'
    BY <1>1, <1>2, <1>6, <2>1 DEF MemTypeOK, CallOK, Memory, Functions
  <2> QED
    BY <1>1, <2>1, <2>4, <2>5 DEF MemInv
<1> QED
  BY <1>7, <1>8

LEMMA StrcmpStep ==
  ASSUME MemInv, strcmp
  PROVE  MemInv'
<1> USE MemAssumption
<1>1. /\ CallOK /\ called.f = "strcmp" /\ running = "strcmp" /\ called' = called
      /\ old' = old /\ mem \in Memory /\ d \in Int /\ s \in Int /\ n' = n /\ mem' = mem
  BY StepFrame DEF MemNext, strcmp
<1> DEFINE dEnd == End(called.d, old)
           sEnd == End(called.s, old)
<1>2. /\ dEnd \in called.d .. SIZE - 1 /\ sEnd \in called.s .. SIZE - 1
      /\ old[dEnd] = 0 /\ old[sEnd] = 0
      /\ Ends(called.d, dEnd, old) /\ Ends(called.s, sEnd, old)
      /\ d - called.d = s - called.s /\ called.d <= d /\ n = 0
      /\ d <= dEnd /\ s <= sEnd /\ mem = old
      /\ \A j \in 0 .. d - called.d - 1 :
           old[called.d + j] = old[called.s + j] /\ old[called.d + j] # 0
      /\ called.d \in 0 .. SIZE /\ called.s \in 0 .. SIZE /\ MemTypeOK
  BY <1>1 DEF MemInv, StrcmpInv, CallOK, InStep, Ends
<1>3. dEnd' = dEnd /\ sEnd' = sEnd
  BY <1>1
<1> HIDE DEF dEnd, sEnd
<1>4. CASE MoreToCompare
  <2>1. d' = d + 1 /\ s' = s + 1 /\ running' = running /\ result' = result
    BY <1>4 DEF strcmp
  <2>2. old[d] # 0 /\ old[s] # 0 /\ old[d] = old[s]
    BY <1>2, <1>4 DEF MoreToCompare
  <2>3. d < dEnd /\ s < sEnd
    BY <1>1, <1>2, <2>2
  <2>4. ASSUME NEW j \in 0 .. d' - called.d - 1
        PROVE  old[called.d + j] = old[called.s + j] /\ old[called.d + j] # 0
    <3>1. j \in 0 .. d - called.d - 1 \/ (called.d + j = d /\ called.s + j = s)
      BY <1>1, <1>2, <2>1
    <3> QED
      BY <1>2, <2>2, <3>1
  <2>5. StrcmpInv'
    <3>1. /\ Ends(called.d, dEnd, old)' /\ Ends(called.s, sEnd, old)'
          /\ (InStep /\ d <= dEnd /\ s <= sEnd /\ n = 0 /\ mem = old /\ running # "return")'
      BY <1>1, <1>2, <1>3, <2>1, <2>3 DEF Ends, InStep
    <3> QED
      BY <1>1, <1>3, <2>4, <3>1 DEF StrcmpInv, dEnd, sEnd
  <2>6. MemTypeOK' /\ CallOK'
    BY <1>1, <1>2, <2>1, <2>3 DEF MemTypeOK, CallOK, Functions
  <2> QED
    BY <1>1, <2>1, <2>5, <2>6 DEF MemInv
<1>5. CASE ~ MoreToCompare
  <2>1. d' = d /\ s' = s /\ running' = "return" /\ result' = mem[d] - mem[s]
    BY <1>5 DEF strcmp, Return
  <2>2. (~ MoreToCompare /\ result = mem[d] - mem[s])'
    BY <1>1, <1>5, <2>1 DEF MoreToCompare
  <2>3. StrcmpInv'
    <3>1. /\ Ends(called.d, dEnd, old)' /\ Ends(called.s, sEnd, old)'
          /\ (InStep /\ d <= dEnd /\ s <= sEnd /\ n = 0 /\ mem = old)'
      BY <1>1, <1>2, <1>3, <2>1 DEF Ends, InStep
    <3>2. \A j \in 0 .. d' - called'.d - 1 :
            old'[called'.d + j] = old'[called'.s + j] /\ old'[called'.d + j] # 0
      BY <1>1, <1>2, <2>1
    <3> QED
      BY <1>1, <1>3, <2>2, <3>1, <3>2 DEF StrcmpInv, dEnd, sEnd
  <2>4. MemTypeOK' /\ CallOK'
    BY <1>1, <1>2, <2>1 DEF MemTypeOK, CallOK, Functions
  <2> QED
    BY <1>1, <2>1, <2>3, <2>4 DEF MemInv
<1> QED
  BY <1>4, <1>5

LEMMA MemStep ==
  ASSUME MemInv, [MemNext]_memVars
  PROVE  MemInv'
<1>1. CASE MemNext
  BY <1>1, MemsetStep, MemcpyStep, StrcpyStep, StrcmpStep DEF MemNext
<1>2. CASE UNCHANGED memVars
  <2>1. UNCHANGED <<running, mem, d, s, n, result, called, old>>
    BY <1>2 DEF memVars, old
  <2> QED
    BY <2>1 DEF MemInv, MemTypeOK, CallOK, MemsetInv, MemcpyInv, StrcpyInv, StrcmpInv,
                Filled, Copied, InStep, Ends, MoreToCompare
<1> QED
  BY <1>1, <1>2
-----------------------------------------------------------------------------
(* What the functions return *)

LEMMA InvGivesStores == MemInv => StoresCorrect
<1> SUFFICES ASSUME MemInv, running = "return", called.f \in Functions
             PROVE  StoresCorrect
  BY DEF StoresCorrect, MemsetCorrect, MemcpyCorrect, StrcpyCorrect, Returned, Functions
<1> USE MemAssumption
<1>1. /\ CallOK /\ mem \in Memory /\ d \in Nat /\ s \in Nat /\ called.d \in Nat
      /\ called.s \in Nat /\ called.n \in Nat
      /\ called.f # "strcmp" => result = called.d
  BY DEF MemInv, MemTypeOK, CallOK, Memory, Functions
<1>2. MemsetCorrect
  <2> SUFFICES ASSUME called.f = "memset"
               PROVE  mem = [a \in Address |->
                              IF a \in called.d .. called.d + called.n - 1
                                THEN called.s ELSE old[a]]
    BY <1>1 DEF MemsetCorrect, Returned
  <2>1. Filled(d) /\ d = called.d + called.n
    BY <1>1 DEF MemInv, MemsetInv
  <2> QED
    BY <1>1, <2>1 DEF Filled, Memory
<1>3. MemcpyCorrect
  <2> SUFFICES ASSUME called.f = "memcpy",
                      called.d \notin called.s + 1 .. called.s + called.n - 1
               PROVE  mem = [a \in Address |->
                              IF a \in called.d .. called.d + called.n - 1
                                THEN old[a - called.d + called.s] ELSE old[a]]
    BY <1>1 DEF MemcpyCorrect, Returned
  <2>1. Copied(d) /\ d = called.d + called.n
    BY <1>1 DEF MemInv, MemcpyInv
  <2> QED
    BY <1>1, <2>1 DEF Copied, Memory
<1>4. StrcpyCorrect
  <2> DEFINE e == End(called.s, old)
  <2> SUFFICES ASSUME called.f = "strcpy"
               PROVE  mem = [a \in Address |->
                              IF a \in called.d .. called.d + (e - called.s)
                                THEN old[a - called.d + called.s] ELSE old[a]]
    BY <1>1 DEF StrcpyCorrect, Returned
  <2>1. Copied(d + 1) /\ s = e /\ d - called.d = s - called.s
    BY DEF MemInv, StrcpyInv, InStep
  <2> HIDE DEF e
  <2>2. d + 1 - 1 = called.d + (e - called.s)
    BY <1>1, <2>1
  <2> QED
    BY <1>1, <2>1, <2>2 DEF Copied, Memory
<1> QED
  BY <1>2, <1>3, <1>4 DEF StoresCorrect

LEMMA MaxIsGreatest ==
  ASSUME NEW S \in SUBSET Nat, NEW k \in S, \A j \in S : j <= k
  PROVE  Max(S) = k
<1>1. Max(S) \in S /\ Max(S) >= k
  BY DEF Max
<1>2. Max(S) <= k /\ Max(S) \in Nat /\ k \in Nat
  BY <1>1
<1> QED
  BY <1>1, <1>2

LEMMA InvGivesStrcmp == MemInv => StrcmpCorrect
<1> SUFFICES ASSUME MemInv, Returned("strcmp") PROVE StrcmpCorrect
  BY DEF StrcmpCorrect
<1> USE MemAssumption
<1> DEFINE dEnd == End(called.d, old)
           sEnd == End(called.s, old)
           k    == d - called.d
           same == {i_ \in 0 .. dEnd - called.d :
                      /\ called.s + i_ < SIZE
                      /\ \A j \in 0 .. i_ - 1 :
                           old[called.d + j] = old[called.s + j] /\ old[called.d + j] # 0}
<1>1. /\ dEnd \in called.d .. SIZE - 1 /\ sEnd \in called.s .. SIZE - 1
      /\ d - called.d = s - called.s /\ called.d <= d
      /\ d <= dEnd /\ s <= sEnd /\ mem = old
      /\ \A j \in 0 .. d - called.d - 1 :
           old[called.d + j] = old[called.s + j] /\ old[called.d + j] # 0
      /\ ~ MoreToCompare /\ result = mem[d] - mem[s]
      /\ called.d \in Nat /\ called.s \in Nat /\ d \in Nat /\ s \in Nat
  BY DEF MemInv, StrcmpInv, CallOK, InStep, Ends, Returned, MemTypeOK, Functions
<1> HIDE DEF dEnd, sEnd
<1>2. k \in same /\ same \in SUBSET Nat
  BY <1>1
<1>3. \A i_ \in same : i_ <= k
  <2> SUFFICES ASSUME NEW i_ \in same, k < i_ PROVE FALSE
    BY <1>1, <1>2
  <2>1. k \in 0 .. i_ - 1
    BY <1>1, <1>2
  <2>2. old[called.d + k] = old[called.s + k] /\ old[called.d + k] # 0
    BY <2>1
  <2>3. called.d + k = d /\ called.s + k = s
    BY <1>1
  <2> QED
    BY <1>1, <2>2, <2>3 DEF MoreToCompare
<1>4. Max(same) = k
  <2> HIDE DEF same, k
  <2> QED
    BY <1>2, <1>3, MaxIsGreatest
<1>5. called.d + k = d /\ called.s + k = s
  BY <1>1
<1>6. result = old[called.d + Max(same)] - old[called.s + Max(same)]
  <2> HIDE DEF same, k
  <2> QED
    BY <1>1, <1>4, <1>5
<1> QED
  BY <1>6 DEF StrcmpCorrect, dEnd
-----------------------------------------------------------------------------
(* The kernels *)

Kernels == {"simple", "output", "panic", "exception", "memory"}

\* Where kernel_main stops: in a loop, in a PANIC or at unimp.
LastLine ==
  CASE kernel = "simple"    -> 2
    [] kernel = "output"    -> 4
    [] kernel = "panic"     -> 2
    [] kernel = "exception" -> 3
    [] kernel = "memory"    -> 6

\* The memory is that of a call of memset for .bss, or as it was at boot.
KernelsInv ==
  /\ MemInv
  /\ kernel \in Kernels \cup {"none"}
  /\ kernel \in Kernels =>
       /\ line \in 1 .. LastLine
       /\ called.f \in {"none", "memset"}
       /\ called.f = "memset" =>
            called.d = BSS /\ called.s = 0 /\ called.n = BSS_END - BSS

\* A kernel goes on to the next statement only from those before its last.
LEMMA Statements ==
  ASSUME kernel \in Kernels, line \in 1 .. LastLine
  PROVE  /\ line \in DOMAIN kernel_main
         /\ kernel_main[line].do \in {"printf", "memset", "stvec", "paddr0", "paddr1"} =>
              line + 1 \in 1 .. LastLine
<1> USE DEF kernel_main, LastLine, Do, Say
<1>1. CASE kernel = "simple"
  <2>1. line \in {1, 2} /\ kernel_main = SimpleMain
    BY <1>1
  <2>2. DOMAIN SimpleMain = 1 .. 2 /\ SimpleMain[2].do = "for"
    BY DEF SimpleMain
  <2> QED
    BY <1>1, <2>1, <2>2
<1>2. CASE kernel = "output"
  <2>1. line \in {1, 2, 3, 4} /\ kernel_main = OutputMain
    BY <1>2
  <2>2. DOMAIN OutputMain = 1 .. 4 /\ OutputMain[4].do = "for"
    BY DEF OutputMain
  <2> QED
    BY <1>2, <2>1, <2>2
<1>3. CASE kernel = "panic"
  <2>1. line \in {1, 2} /\ kernel_main = PanicMain
    BY <1>3
  <2>2. DOMAIN PanicMain = 1 .. 3 /\ PanicMain[1].do = "memset" /\ PanicMain[2].do = "panic"
    BY DEF PanicMain, PANIC
  <2> QED
    BY <1>3, <2>1, <2>2
<1>4. CASE kernel = "exception"
  <2>1. line \in {1, 2, 3} /\ kernel_main = ExceptionMain
    BY <1>4
  <2>2. DOMAIN ExceptionMain = 1 .. 3 /\ ExceptionMain[3].do = "unimp"
    BY DEF ExceptionMain
  <2> QED
    BY <1>4, <2>1, <2>2
<1>5. CASE kernel = "memory"
  <2>1. line \in {1, 2, 3, 4, 5, 6} /\ kernel_main = MemoryMain
    BY <1>5
  <2>2. DOMAIN MemoryMain = 1 .. 6 /\ MemoryMain[6].do = "panic"
    BY DEF MemoryMain, PANIC
  <2> QED
    BY <1>5, <2>1, <2>2
<1> QED
  BY <1>1, <1>2, <1>3, <1>4, <1>5 DEF Kernels

LEMMA AtKernel ==
  ASSUME KernelsInv, NEW what, At(what)
  PROVE  kernel \in Kernels /\ running = "return" /\ kernel_main[line].do = what
<1>1. kernel # "none"
  BY DEF At, kernel_main
<1> QED
  BY <1>1 DEF At, KernelsInv

LEMMA KernelsInitInv == CommonInit => KernelsInv
<1> SUFFICES ASSUME CommonInit PROVE KernelsInv
  OBVIOUS
<1>1. ASSUME MemIdle, mem \in Memory PROVE MemInv /\ called.f = "none"
  BY <1>1, MemAssumption DEF MemIdle, MemInv, MemTypeOK, Memory
<1>2. CASE Init /\ MemIdle /\ mem = [a \in Address |-> 0] /\ NoKernel
  BY <1>1, <1>2, MemAssumption DEF KernelsInv, NoKernel, Memory, Kernels
<1>3. CASE PrintfIdle /\ MemInit /\ NoKernel
  BY <1>3, MemInitInv DEF KernelsInv, NoKernel, Kernels
<1>4. CASE PrintfIdle /\ MemIdle /\ boot
  BY <1>1, <1>4 DEF KernelsInv, boot, Memory, Kernels, LastLine
<1> QED
  BY <1>2, <1>3, <1>4 DEF CommonInit

\* memset is called for .bss.
LEMMA CallMemsetInv ==
  ASSUME KernelsInv, CallMemset
  PROVE  KernelsInv'
<1> USE MemAssumption, KernelsAssumption
<1>1. /\ kernel \in Kernels /\ kernel_main[line].do = "memset" /\ MemInv
      /\ line \in 1 .. LastLine
  BY AtKernel DEF CallMemset, KernelsInv, Kernels
<1>2. /\ running' = "memset" /\ d' = BSS /\ s' = 0 /\ n' = BSS_END - BSS
      /\ called' = [f |-> "memset", d |-> d', s |-> s', n |-> n', mem |-> mem]
      /\ mem' = mem /\ kernel' = kernel /\ line' = line + 1
  BY DEF CallMemset, BssStart
<1>3. /\ called'.f = "memset" /\ called'.d = BSS /\ called'.s = 0
      /\ called'.n = BSS_END - BSS /\ old' = mem
  BY <1>2 DEF old
<1>4. line' \in 1 .. LastLine'
  BY <1>1, <1>2, Statements DEF LastLine
<1>5. mem \in Memory
  BY <1>1 DEF MemInv, MemTypeOK, Memory
<1>6. /\ BSS \in 0 .. SIZE /\ BSS_END - BSS \in 0 .. SIZE /\ BSS + (BSS_END - BSS) <= SIZE
      /\ 0 \in 0 .. SIZE
  BY DEF Address
<1>7. MemTypeOK' /\ CallOK'
  BY <1>2, <1>3, <1>5, <1>6 DEF MemTypeOK, CallOK, Memory, Functions
<1>8. MemsetInv'
  BY <1>2, <1>3, <1>6 DEF MemsetInv, Filled, Address
<1> QED
  BY <1>1, <1>2, <1>3, <1>4, <1>7, <1>8 DEF MemInv, KernelsInv

LEMMA KernelsStep ==
  ASSUME KernelsInv, [KernelsNext]_kernelVars
  PROVE  KernelsInv'
<1>1. ASSUME UNCHANGED memVars, kernel' = kernel,
             kernel \in Kernels => line' \in 1 .. LastLine
      PROVE  KernelsInv'
  <2>1. MemInv'
    BY <1>1, MemStep DEF KernelsInv
  <2>2. called' = called /\ LastLine' = LastLine
    BY <1>1 DEF memVars, LastLine
  <2> QED
    BY <1>1, <2>1, <2>2 DEF KernelsInv
<1>2. ASSUME NEW what \in {"printf", "stvec", "paddr0", "paddr1"}, At(what),
             line' = line + 1, kernel' = kernel, UNCHANGED memVars
      PROVE  KernelsInv'
  <2>1. kernel \in Kernels /\ kernel_main[line].do = what /\ line \in 1 .. LastLine
    BY <1>2, AtKernel DEF KernelsInv
  <2> QED
    BY <1>1, <1>2, <2>1, Statements
<1>3. CASE CallPrintf
  BY <1>2, <1>3 DEF CallPrintf, Call
<1>4. CASE Panic \/ Unimp
  <2>1. UNCHANGED memVars /\ kernel' = kernel /\ line' = line
    BY <1>4 DEF Panic, Unimp, Call
  <2> QED
    BY <1>1, <2>1 DEF KernelsInv
<1>5. CASE CallMemset
  BY <1>5, CallMemsetInv
<1>6. CASE SetTrapVector
  BY <1>2, <1>6 DEF SetTrapVector
<1>7. CASE Allocate
  BY <1>2, <1>7 DEF Allocate
<1>8. CASE Library \/ UNCHANGED kernelVars
  <2>1. [MemNext]_memVars /\ kernel' = kernel /\ line' = line
    BY <1>8 DEF Library, kernelState, kernelVars
  <2>2. MemInv'
    BY <2>1, MemStep DEF KernelsInv
  <2>3. called' = called
    BY <2>1, StepFrame DEF memVars, KernelsInv
  <2> QED
    BY <2>1, <2>2, <2>3 DEF KernelsInv, LastLine
<1> QED
  BY <1>3, <1>4, <1>5, <1>6, <1>7, <1>8 DEF KernelsNext
-----------------------------------------------------------------------------
(* Sequences, and sequences of sequences put together *)

\* FlattenSeq is the last of the sequences g[k] the first k are put together to.
LEMMA FlattenIsLast ==
  ASSUME NEW C, NEW q \in Seq(Seq(C)), NEW g,
         g[0] = <<>>, \A k \in 0 .. Len(q) - 1 : g[k + 1] = g[k] \o q[k + 1],
         \A k \in 0 .. Len(q) : g[k] \in Seq(C)
  PROVE  FlattenSeq(q) = g[Len(q)]
<1>1. Len(q) \in Nat /\ \A k \in 1 .. Len(q) : q[k] \in Seq(C)
  OBVIOUS
<1>2. CASE Len(q) = 0
  <2>1. q = <<>>
    BY <1>2, EmptySeq
  <2> QED
    BY <1>2, <2>1 DEF FlattenSeq
<1>3. CASE Len(q) # 0
  <2> DEFINE IsIt(f) == f = [k \in 1 .. Len(q) |-> IF k = 1 THEN q[k] ELSE f[k - 1] \o q[k]]
             f0 == [k \in 1 .. Len(q) |-> g[k]]
             f == CHOOSE h : IsIt(h)
  <2>1. IsIt(f0)
    <3>1. ASSUME NEW k \in 1 .. Len(q)
          PROVE  g[k] = IF k = 1 THEN q[k] ELSE f0[k - 1] \o q[k]
      <4>1. k - 1 \in 0 .. Len(q) - 1 /\ (k - 1) + 1 = k
        BY <1>1
      <4>2. g[k] = g[k - 1] \o q[k]
        BY <4>1
      <4>3. CASE k = 1
        <5>1. g[k] = <<>> \o q[k]
          <6>1. k - 1 = 0
            BY <4>3
          <6> QED
            BY ONLY <4>2, <6>1, g[0] = <<>>
        <5> QED
          BY <1>1, <4>3, <5>1, ConcatEmptySeq
      <4>4. CASE k # 1
        <5>1. k - 1 \in 1 .. Len(q)
          BY <4>1, <4>4
        <5> QED
          BY <4>2, <4>4, <5>1
      <4> QED
        BY <4>3, <4>4
    <3> QED
      BY <3>1
  <2>2. IsIt(f)
    <3> HIDE DEF IsIt, f0
    <3> QED
      BY <2>1
  <2>3. FlattenSeq(q) = f[Len(q)]
    BY <1>3 DEF FlattenSeq
  <2> HIDE DEF f, f0
  <2> DEFINE T == {k \in Nat : k + 1 \in 1 .. Len(q) => f[k + 1] = g[k + 1]}
  <2>4. 0 \in T
    <3>1. 1 \in 1 .. Len(q) => f[1] = q[1]
      BY <2>2
    <3>2. 1 \in 1 .. Len(q) => g[1] = <<>> \o q[1]
      <4>1. PICK z \in Nat : z = 0
        OBVIOUS
      <4>2. z \in 0 .. Len(q) - 1 /\ z + 1 = 1
        BY <1>1, <1>3, <4>1
      <4>3. g[z + 1] = g[z] \o q[z + 1]
        BY ONLY <4>2, \A j \in 0 .. Len(q) - 1 : g[j + 1] = g[j] \o q[j + 1]
      <4> QED
        BY ONLY <4>1, <4>2, <4>3, g[0] = <<>>
    <3>3. 1 \in 1 .. Len(q) => g[1] = q[1]
      BY <1>1, <3>2, ConcatEmptySeq
    <3> QED
      BY <3>1, <3>3
  <2>5. ASSUME NEW k \in T PROVE k + 1 \in T
    <3> SUFFICES ASSUME k + 2 \in 1 .. Len(q) PROVE f[k + 2] = g[k + 2]
      OBVIOUS
    <3>1. k \in Nat /\ k + 1 \in 1 .. Len(q) /\ f[k + 1] = g[k + 1]
      BY <1>1
    <3>2. f[k + 2] = f[(k + 2) - 1] \o q[k + 2]
      <4>1. \A j \in 1 .. Len(q) : f[j] = IF j = 1 THEN q[j] ELSE f[j - 1] \o q[j]
        BY <2>2
      <4>2. k + 2 \in 1 .. Len(q) /\ k + 2 # 1
        BY <3>1
      <4> QED
        BY ONLY <4>1, <4>2
    <3>3. g[(k + 1) + 1] = g[k + 1] \o q[(k + 1) + 1]
      <4>1. k + 1 \in 0 .. Len(q) - 1
        BY <1>1, <3>1
      <4> QED
        BY ONLY <4>1, \A j \in 0 .. Len(q) - 1 : g[j + 1] = g[j] \o q[j + 1]
    <3>4. (k + 2) - 1 = k + 1 /\ (k + 1) + 1 = k + 2
      BY <3>1
    <3> QED
      BY <3>1, <3>2, <3>3, <3>4
  <2>6. T \in SUBSET Nat
    OBVIOUS
  <2>7. Len(q) - 1 \in T
    <3> HIDE DEF T
    <3>1. T = Nat
      BY <2>4, <2>5, <2>6, InductionOnNat
    <3> QED
      BY <1>1, <1>3, <3>1
  <2>8. Len(q) - 1 + 1 = Len(q) /\ Len(q) \in 1 .. Len(q)
    BY <1>1, <1>3
  <2>9. f[Len(q)] = g[Len(q)]
    BY <2>7, <2>8
  <2> QED
    BY <2>3, <2>9
<1> QED
  BY <1>2, <1>3

Associates(a, b, c) == (a \o b) \o c = a \o (b \o c)

\* ConcatAssociative in a form that is easier to instantiate.
LEMMA Associativity ==
  ASSUME NEW C, NEW a \in Seq(C), NEW b \in Seq(C), NEW c \in Seq(C)
  PROVE  Associates(a, b, c)
BY ConcatAssociative DEF Associates

\* The first k sequences of a sequence of sequences, in one.
Joint(q, k) == FlattenSeq(SubSeq(q, 1, k))

\* How FlattenSeq grows by one sequence at a time.
LEMMA FlattenSteps ==
  ASSUME NEW C, NEW q \in Seq(Seq(C))
  PROVE  /\ Joint(q, 0) = <<>>
         /\ \A k \in 0 .. Len(q) : Joint(q, k) \in Seq(C)
         /\ \A k \in 0 .. Len(q) - 1 : Joint(q, k + 1) = Joint(q, k) \o q[k + 1]
         /\ Joint(q, Len(q)) = FlattenSeq(q)
<1>1. Len(q) \in Nat /\ \A k \in 1 .. Len(q) : q[k] \in Seq(C)
  OBVIOUS
<1> DEFINE A == Seq(C)
           F == [k \in Nat |-> [h \in A |->
                   IF k + 1 \in 1 .. Len(q) THEN h \o q[k + 1] ELSE h]]
<1>2. F \in [Nat -> [A -> A]]
  <2>1. ASSUME NEW k \in Nat, NEW h \in Seq(C)
        PROVE  (IF k + 1 \in 1 .. Len(q) THEN h \o q[k + 1] ELSE h) \in Seq(C)
    BY <1>1, ConcatProperties
  <2> QED
    BY <2>1
<1>3. <<>> \in A
  OBVIOUS
<1>4. PICK g : Iterates(g, <<>>, F, A)
  <2>1. IsStep(F, A)
    BY <1>2 DEF IsStep
  <2> HIDE DEF F, A
  <2> QED
    BY <1>3, <2>1, RecursionOnNat
<1>a. g \in [Nat -> A] /\ g[0] = <<>> /\ \A k \in Nat : g[k + 1] = F[k][g[k]]
  BY <1>4 DEF Iterates
<1>5. \A k \in 0 .. Len(q) - 1 : g[k + 1] = g[k] \o q[k + 1]
  <2> SUFFICES ASSUME NEW k \in 0 .. Len(q) - 1 PROVE g[k + 1] = g[k] \o q[k + 1]
    OBVIOUS
  <2>1. k \in Nat /\ k + 1 \in 1 .. Len(q)
    BY <1>1
  <2>2. g[k] \in A /\ g[k + 1] = F[k][g[k]]
    <3> HIDE DEF F, A
    <3> QED
      BY <1>a, <2>1
  <2>3. \A h \in A : F[k][h] = h \o q[k + 1]
    BY <2>1
  <2> HIDE DEF F, A
  <2> QED
    BY <2>2, <2>3
<1> HIDE DEF F
<1>6. ASSUME NEW k \in 0 .. Len(q) PROVE Joint(q, k) = g[k]
  <2>1. k \in Nat /\ \A j \in 1 .. k : q[j] \in Seq(C)
    BY <1>1
  <2> DEFINE p == SubSeq(q, 1, k)
  <2>2. p \in Seq(Seq(C)) /\ Len(p) = k /\ \A j \in 1 .. k : p[j] = q[j]
    <3>1. p \in Seq(Seq(C))
      BY <2>1, SubSeqProperties
    <3>2. Len(p) = IF 1 <= k THEN k - 1 + 1 ELSE 0
      BY <2>1, SubSeqProperties
    <3>3. \A j \in 1 .. k - 1 + 1 : p[j] = q[1 + j - 1]
      BY <2>1, SubSeqProperties
    <3> QED
      BY <2>1, <3>1, <3>2, <3>3
  <2> HIDE DEF p
  <2>3. ASSUME NEW j \in 0 .. k - 1 PROVE g[j + 1] = g[j] \o p[j + 1]
    <3>1. j \in 0 .. Len(q) - 1 /\ j + 1 \in 1 .. k
      BY <1>1, <2>1
    <3>2. g[j + 1] = g[j] \o q[j + 1] /\ p[j + 1] = q[j + 1]
      BY <1>5, <2>2, <3>1
    <3> QED
      BY <3>2
  <2>4. \A j \in 0 .. k : g[j] \in Seq(C)
    BY <1>a, <2>1
  <2>5. FlattenSeq(p) = g[Len(p)]
    BY <1>a, <2>2, <2>3, <2>4, FlattenIsLast
  <2> QED
    BY <2>2, <2>5 DEF Joint, p
<1>7. FlattenSeq(q) = g[Len(q)]
  <2>1. \A j \in 0 .. Len(q) : g[j] \in Seq(C)
    BY <1>a, <1>1
  <2> QED
    BY <1>a, <1>5, <2>1, FlattenIsLast
<1>8. /\ Len(q) \in 0 .. Len(q) /\ 0 \in 0 .. Len(q)
      /\ \A k \in 0 .. Len(q) - 1 : k \in 0 .. Len(q) /\ k + 1 \in 0 .. Len(q)
      /\ \A k \in 0 .. Len(q) : k \in Nat
  BY <1>1
<1>9. \A k \in Nat : g[k] \in Seq(C)
  BY <1>a
<1>10. g[0] = <<>>
  BY <1>a
<1>11. \A k \in 0 .. Len(q) : Joint(q, k) = g[k]
  BY <1>6
<1>12. Joint(q, 0) = <<>> /\ Joint(q, Len(q)) = FlattenSeq(q)
  BY ONLY <1>7, <1>8, <1>10, <1>11
<1>13. \A k \in 0 .. Len(q) : Joint(q, k) \in Seq(C)
  BY ONLY <1>8, <1>9, <1>11
<1>14. \A k \in 0 .. Len(q) - 1 : Joint(q, k + 1) = Joint(q, k) \o q[k + 1]
  BY ONLY <1>5, <1>8, <1>11
<1> QED
  BY <1>12, <1>13, <1>14

\* The first k are the beginning of the whole.
LEMMA JointIsPrefix ==
  ASSUME NEW C, NEW q \in Seq(Seq(C)), NEW k \in 0 .. Len(q)
  PROVE  \E r \in Seq(C) : FlattenSeq(q) = Joint(q, k) \o r
<1>1. Len(q) \in Nat /\ \A j \in 1 .. Len(q) : q[j] \in Seq(C)
  OBVIOUS
<1> DEFINE T == {j \in Nat : j <= Len(q) =>
                   \E r \in Seq(C) : FlattenSeq(q) = Joint(q, Len(q) - j) \o r}
<1>2. 0 \in T
  <2>1. /\ Joint(q, Len(q)) = FlattenSeq(q) /\ Joint(q, Len(q)) \in Seq(C)
        /\ Len(q) - 0 = Len(q)
    BY <1>1, FlattenSteps
  <2>2. FlattenSeq(q) = Joint(q, Len(q)) \o <<>> /\ <<>> \in Seq(C)
    BY <2>1, ConcatEmptySeq, EmptySeq
  <2> QED
    BY <2>1, <2>2
<1>3. ASSUME NEW j \in T PROVE j + 1 \in T
  <2>0. j \in Nat /\ j + 1 \in Nat
    OBVIOUS
  <2> SUFFICES ASSUME j + 1 <= Len(q)
               PROVE  \E r \in Seq(C) : FlattenSeq(q) = Joint(q, Len(q) - (j + 1)) \o r
    BY <2>0
  <2> DEFINE m == Len(q) - (j + 1)
  <2>1. m \in 0 .. Len(q) - 1 /\ m + 1 = Len(q) - j /\ j <= Len(q) /\ m + 1 \in 1 .. Len(q)
        /\ m \in 0 .. Len(q)
    BY <1>1
  <2>2. PICK r \in Seq(C) : FlattenSeq(q) = Joint(q, m + 1) \o r
    BY <2>1
  <2> HIDE DEF m
  <2>3. Joint(q, m + 1) = Joint(q, m) \o q[m + 1] /\ Joint(q, m) \in Seq(C)
    BY <2>1, FlattenSteps
  <2>4. q[m + 1] \in Seq(C) /\ q[m + 1] \o r \in Seq(C)
    BY <1>1, <2>1, ConcatProperties
  <2>5. FlattenSeq(q) = Joint(q, m) \o (q[m + 1] \o r)
    <3>1. r \in Seq(C) /\ q[m + 1] \in Seq(C) /\ Joint(q, m) \in Seq(C)
      BY <2>3, <2>4
    <3>2. Associates(Joint(q, m), q[m + 1], r)
      BY <3>1, Associativity
    <3> QED
      BY ONLY <2>2, <2>3, <3>2 DEF Associates
  <2> QED
    BY <2>4, <2>5 DEF m
<1>4. T \in SUBSET Nat
  OBVIOUS
<1>5. Len(q) - k \in T
  <2> HIDE DEF T
  <2>1. T = Nat
    BY <1>2, <1>3, <1>4, InductionOnNat
  <2> QED
    BY <1>1, <2>1
<1>6. Len(q) - (Len(q) - k) = k /\ Len(q) - k <= Len(q)
  BY <1>1
<1> QED
  BY <1>5, <1>6

\* Taking the first element of a sequence off again.
LEMMA FirstAndRest ==
  ASSUME NEW C, NEW a \in C, NEW r \in Seq(C), NEW w, w = <<a>> \o r
  PROVE  w # <<>> /\ Head(w) = a /\ Tail(w) = r
<1>1. <<a>> \in Seq(C) /\ Len(<<a>>) = 1 /\ <<a>>[1] = a /\ Len(r) \in Nat
  BY LenProperties
<1>2. /\ w \in Seq(C) /\ Len(w) = 1 + Len(r)
      /\ \A j \in 1 .. 1 + Len(r) : w[j] = IF j <= 1 THEN <<a>>[j] ELSE r[j - 1]
  BY <1>1, ConcatProperties
<1>3. w # <<>>
  BY <1>1, <1>2, EmptySeq
<1>4. w[1] = a
  BY <1>1, <1>2
<1>5. Head(w) = a
  BY <1>2, <1>3, <1>4
<1>6. /\ Tail(w) \in Seq(C) /\ Len(Tail(w)) = Len(r)
      /\ \A j \in 1 .. Len(r) : Tail(w)[j] = w[j + 1]
  <2>1. Len(w) - 1 = Len(r)
    BY <1>1, <1>2
  <2> QED
    BY <1>2, <1>3, <2>1, HeadTailProperties
<1>7. ASSUME NEW j \in 1 .. Len(r) PROVE Tail(w)[j] = r[j]
  <2>1. j + 1 \in 1 .. 1 + Len(r) /\ ~ (j + 1 <= 1) /\ (j + 1) - 1 = j
    BY <1>1
  <2>2. w[j + 1] = r[(j + 1) - 1]
    BY <1>2, <2>1
  <2> QED
    BY <1>6, <2>1, <2>2
<1>8. Tail(w) = r
  BY <1>6, <1>7, SeqEqual
<1> QED
  BY <1>3, <1>5, <1>8

LEMMA Cancel ==
  ASSUME NEW C, NEW a \in Seq(C), NEW b \in Seq(C), NEW c \in Seq(C),
         a \o b = a \o c
  PROVE  b = c
<1>1. Len(a) \in Nat /\ Len(b) \in Nat /\ Len(c) \in Nat
  BY LenProperties
<1>2. PICK w : w = a \o b /\ w = a \o c
  OBVIOUS
<1>3. /\ Len(w) = Len(a) + Len(b)
      /\ \A j \in 1 .. Len(a) + Len(b) : w[j] = IF j <= Len(a) THEN a[j] ELSE b[j - Len(a)]
  BY <1>2, ConcatProperties
<1>4. /\ Len(w) = Len(a) + Len(c)
      /\ \A j \in 1 .. Len(a) + Len(c) : w[j] = IF j <= Len(a) THEN a[j] ELSE c[j - Len(a)]
  BY <1>2, ConcatProperties
<1>5. Len(b) = Len(c)
  BY <1>1, <1>3, <1>4
<1>6. ASSUME NEW j \in 1 .. Len(b) PROVE b[j] = c[j]
  <2>1. PICK e \in 1 .. Len(a) + Len(b) : e = Len(a) + j /\ ~ (e <= Len(a)) /\ e - Len(a) = j
    BY <1>1
  <2> QED
    BY <1>3, <1>4, <1>5, <2>1
<1> QED
  BY <1>5, <1>6, SeqEqual

\* One more element of a beginning.
LEMMA BeginningGrows ==
  ASSUME NEW C, NEW w \in Seq(C), NEW m \in 0 .. Len(w) - 1
  PROVE  /\ SubSeq(w, 1, m) \in Seq(C)
         /\ SubSeq(w, 1, m) \o <<w[m + 1]>> = SubSeq(w, 1, m + 1)
<1>1. Len(w) \in Nat /\ m \in Nat /\ m + 1 <= Len(w)
  BY LenProperties
<1>2. \A j \in 1 .. Len(w) : w[j] \in C
  BY ElementOfSeq
<1>3. PICK a \in Seq(C) : a = SubSeq(w, 1, m)
  <2>1. \A j \in 1 .. m : w[j] \in C
    BY <1>1, <1>2
  <2> QED
    BY <1>1, <2>1, SubSeqProperties, 1 \in Int, m \in Int
<1>4. Len(a) = m /\ \A j \in 1 .. m : a[j] = w[j]
  BY <1>1, <1>2, <1>3, SubSeqProperties
<1>5. PICK b \in Seq(C) : b = SubSeq(w, 1, m + 1)
  <2>1. \A j \in 1 .. m + 1 : w[j] \in C
    BY <1>1, <1>2
  <2> QED
    BY <1>1, <2>1, SubSeqProperties, 1 \in Int, m + 1 \in Int
<1>6. Len(b) = m + 1 /\ \A j \in 1 .. m + 1 : b[j] = w[j]
  BY <1>1, <1>2, <1>5, SubSeqProperties
<1>7. w[m + 1] \in C
  BY <1>1, <1>2
<1>8. PICK e \in C : e = w[m + 1]
  BY <1>7
<1>9. <<e>> \in Seq(C) /\ Len(<<e>>) = 1 /\ <<e>>[1] = e
  OBVIOUS
<1>10. PICK g \in Seq(C) : g = a \o <<e>>
  BY <1>9, ConcatProperties
<1>11. /\ Len(g) = m + 1
       /\ \A j \in 1 .. m + 1 : g[j] = IF j <= m THEN a[j] ELSE <<e>>[j - m]
  BY <1>4, <1>9, <1>10, ConcatProperties
<1>12. ASSUME NEW j \in 1 .. m + 1 PROVE g[j] = b[j]
  <2>1. CASE j <= m
    <3>1. j \in 1 .. m
      BY <1>1, <2>1
    <3> QED
      BY <1>4, <1>6, <1>11, <2>1, <3>1
  <2>2. CASE j = m + 1
    <3>1. ~ (j <= m) /\ j - m = 1
      BY <1>1, <2>2
    <3>2. g[j] = <<e>>[1] /\ b[j] = w[j]
      BY <1>6, <1>11, <3>1
    <3> QED
      BY <1>8, <1>9, <2>2, <3>2
  <2> QED
    BY <1>1, <2>1, <2>2
<1>13. g = b
  BY <1>6, <1>11, <1>12, SeqEqual
<1> QED
  BY <1>3, <1>5, <1>8, <1>10, <1>13

LEMMA WholeSeq ==
  ASSUME NEW C, NEW w \in Seq(C)
  PROVE  SubSeq(w, 1, Len(w)) = w /\ SubSeq(w, 1, 0) = <<>>
<1>1. Len(w) \in Nat /\ \A j \in 1 .. Len(w) : w[j] \in C
  BY LenProperties, ElementOfSeq
<1>2. PICK a \in Seq(C) : a = SubSeq(w, 1, Len(w))
  BY <1>1, SubSeqProperties
<1>3. Len(a) = Len(w) /\ \A j \in 1 .. Len(w) : a[j] = w[j]
  BY <1>1, <1>2, SubSeqProperties
<1>4. a = w
  BY <1>3, SeqEqual
<1>5. SubSeq(w, 1, 0) \in Seq(C) /\ Len(SubSeq(w, 1, 0)) = 0
  BY <1>1, SubSeqProperties
<1> QED
  BY <1>2, <1>4, <1>5, EmptySeq

\* A sequence is a prefix of itself with anything appended.
LEMMA PrefixOfConcat ==
  ASSUME NEW C, NEW a \in Seq(C), NEW r \in Seq(C)
  PROVE  IsPrefix(a, a \o r)
<1>1. PICK w \in Seq(C) : w = a \o r
  BY ConcatProperties
<1>2. Len(a) \in Nat /\ Len(r) \in Nat /\ Len(w) = Len(a) + Len(r) /\ \A j \in 1 .. Len(a) : a[j] \in C
  BY <1>1, ConcatProperties, LenProperties, ElementOfSeq
<1>3. \A j \in 1 .. Len(a) : w[j] = a[j]
  <2>1. \A j \in 1 .. Len(a) + Len(r) : w[j] = IF j <= Len(a) THEN a[j] ELSE r[j - Len(a)]
    BY <1>1, ConcatProperties
  <2> SUFFICES ASSUME NEW j \in 1 .. Len(a) PROVE w[j] = a[j]
    OBVIOUS
  <2>2. j \in 1 .. Len(a) + Len(r) /\ j <= Len(a)
    BY <1>2
  <2> QED
    BY <2>1, <2>2
<1>4. PICK b \in Seq(C) : b = SubSeq(w, 1, Len(a))
  BY <1>2, <1>3, SubSeqProperties
<1>5. Len(b) = Len(a) /\ \A j \in 1 .. Len(a) : b[j] = w[j]
  BY <1>2, <1>3, <1>4, SubSeqProperties
<1>6. b = a
  BY <1>3, <1>5, SeqEqual
<1>7. SubSeq(a, 1, Len(a)) = a
  BY WholeSeq
<1>8. Len(a) <= Len(w)
  BY <1>2
<1> QED
  BY <1>1, <1>4, <1>6, <1>7, <1>8 DEF IsPrefix

\* The digits of "%x" that have been printed.
LEMMA BeginningOfSeq ==
  ASSUME NEW C, NEW w \in Seq(C), NEW m \in 0 .. Len(w)
  PROVE  SubSeq(w, 1, m) \in Seq(C) /\ \E r \in Seq(C) : w = SubSeq(w, 1, m) \o r
<1>1. Len(w) \in Nat /\ m \in Nat /\ m <= Len(w) /\ \A j \in 1 .. Len(w) : w[j] \in C
  BY LenProperties, ElementOfSeq
<1>2. PICK a \in Seq(C) : a = SubSeq(w, 1, m)
  <2>1. \A j \in 1 .. m : w[j] \in C
    BY <1>1
  <2> QED
    BY <1>1, <2>1, SubSeqProperties, 1 \in Int, m \in Int
<1>3. Len(a) = m /\ \A j \in 1 .. m : a[j] = w[j]
  BY <1>1, <1>2, SubSeqProperties
<1>4. PICK N \in Nat : N = Len(w) - m
  BY <1>1
<1>5. PICK r : r = [j \in 1 .. N |-> w[m + j]]
  OBVIOUS
<1>6. r \in Seq(C) /\ Len(r) = N
  <2>1. \A j \in 1 .. N : w[m + j] \in C
    BY <1>1, <1>4
  <2> QED
    BY <1>5, <2>1
<1>7. PICK g \in Seq(C) : g = a \o r
  BY <1>6, ConcatProperties
<1>8. /\ Len(g) = Len(w)
      /\ \A j \in 1 .. Len(w) : g[j] = IF j <= m THEN a[j] ELSE r[j - m]
  <2>1. m + N = Len(w)
    BY <1>1, <1>4
  <2> QED
    BY <1>3, <1>6, <1>7, <2>1, ConcatProperties
<1>9. ASSUME NEW j \in 1 .. Len(w) PROVE g[j] = w[j]
  <2>1. CASE j <= m
    <3>1. j \in 1 .. m
      BY <1>1, <2>1
    <3> QED
      BY <1>3, <1>8, <2>1, <3>1
  <2>2. CASE ~ (j <= m)
    <3>1. j - m \in 1 .. N /\ m + (j - m) = j
      BY <1>1, <1>4, <2>2
    <3>2. r[j - m] = w[m + (j - m)]
      BY <1>5, <3>1
    <3> QED
      BY <1>8, <2>2, <3>1, <3>2
  <2> QED
    BY <2>1, <2>2
<1>10. g = w
  BY <1>8, <1>9, SeqEqual
<1> QED
  BY <1>2, <1>6, <1>7, <1>10

\* A sequence is its elements one by one.
LEMMA FlattenCharacters ==
  ASSUME NEW C, NEW w \in Seq(C)
  PROVE  FlattenSeq([k \in DOMAIN w |-> <<w[k]>>]) = w
<1>1. PICK N \in Nat : N = Len(w) /\ DOMAIN w = 1 .. N /\ \A k \in 1 .. N : w[k] \in C
  BY LenProperties, ElementOfSeq
<1>2. PICK q : q = [k \in 1 .. N |-> <<w[k]>>]
  OBVIOUS
<1>3. q \in [1 .. N -> Seq(C)]
  <2>1. \A k \in 1 .. N : <<w[k]>> \in Seq(C)
    BY <1>1
  <2> QED
    BY <1>2, <2>1
<1>4. q \in Seq(Seq(C)) /\ Len(q) = N
  BY <1>1, <1>3
<1> DEFINE T == {k \in Nat : k <= N => Joint(q, k) = SubSeq(w, 1, k)}
<1>5. 0 \in T
  BY <1>4, FlattenSteps, WholeSeq
<1>6. ASSUME NEW k \in T PROVE k + 1 \in T
  <2> SUFFICES ASSUME k + 1 <= N PROVE Joint(q, k + 1) = SubSeq(w, 1, k + 1)
    OBVIOUS
  <2>1. k \in 0 .. N - 1 /\ k + 1 \in 1 .. N /\ k <= N
    BY <1>1
  <2>2. Joint(q, k) = SubSeq(w, 1, k)
    BY <2>1
  <2>3. k \in 0 .. Len(q) - 1 /\ k \in 0 .. Len(w) - 1
    BY <1>1, <1>4, <2>1
  <2>4. Joint(q, k + 1) = Joint(q, k) \o q[k + 1]
    BY <1>4, <2>3, FlattenSteps
  <2>5. SubSeq(w, 1, k) \o <<w[k + 1]>> = SubSeq(w, 1, k + 1)
    BY <2>3, BeginningGrows
  <2>6. q[k + 1] = <<w[k + 1]>>
    BY <1>2, <2>1
  <2> QED
    BY ONLY <2>2, <2>4, <2>5, <2>6
<1>7. T \in SUBSET Nat
  OBVIOUS
<1>8. N \in T
  <2> HIDE DEF T
  <2>1. T = Nat
    BY <1>5, <1>6, <1>7, InductionOnNat
  <2> QED
    BY <1>1, <2>1
<1>9. Joint(q, N) = SubSeq(w, 1, N)
  BY <1>8
<1>10. SubSeq(w, 1, N) = w
  BY <1>1, WholeSeq
<1>11. Joint(q, N) = FlattenSeq(q)
  BY <1>4, FlattenSteps
<1> QED
  BY <1>1, <1>2, <1>9, <1>10, <1>11

\* Two sequences put together, and the short tuples the kernels print.
LEMMA InOne ==
  ASSUME NEW C, NEW p \in Seq(C), NEW q \in Seq(C), NEW w \in Seq(C),
         Len(w) = Len(p) + Len(q),
         \A j \in 1 .. Len(p) : w[j] = p[j],
         \A j \in 1 .. Len(q) : w[Len(p) + j] = q[j]
  PROVE  p \o q = w
<1>1. Len(p) \in Nat /\ Len(q) \in Nat
  BY LenProperties
<1>2. PICK g \in Seq(C) : g = p \o q
  BY ConcatProperties
<1>3. /\ Len(g) = Len(p) + Len(q)
      /\ \A j \in 1 .. Len(p) + Len(q) : g[j] = IF j <= Len(p) THEN p[j] ELSE q[j - Len(p)]
  BY <1>2, ConcatProperties
<1>4. ASSUME NEW j \in 1 .. Len(g) PROVE g[j] = w[j]
  <2>1. CASE j <= Len(p)
    BY <1>1, <1>3, <2>1
  <2>2. CASE ~ (j <= Len(p))
    <3>1. j - Len(p) \in 1 .. Len(q) /\ Len(p) + (j - Len(p)) = j
      BY <1>1, <1>3, <2>2
    <3> QED
      BY <1>3, <2>2, <3>1
  <2> QED
    BY <2>1, <2>2
<1>5. g = w
  BY <1>3, <1>4, SeqEqual
<1> QED
  BY <1>2, <1>5

JoinsTo(a, b, c, e, f) ==
  /\ <<>> \o <<a>> = <<a>>
  /\ <<a>> \o <<b>> = <<a, b>>
  /\ <<a>> \o <<b, c>> = <<a, b, c>>
  /\ <<a, b>> \o <<c>> = <<a, b, c>>
  /\ <<a, b, c>> \o <<e, f>> = <<a, b, c, e, f>>

LEMMA Tuples ==
  ASSUME NEW C, NEW a \in C, NEW b \in C, NEW c \in C, NEW e \in C, NEW f \in C
  PROVE  JoinsTo(a, b, c, e, f)
<1>1. <<a>> \in Seq(C) /\ Len(<<a>>) = 1 /\ <<a>>[1] = a
  OBVIOUS
<1>2. <<b>> \in Seq(C) /\ Len(<<b>>) = 1 /\ <<b>>[1] = b
  OBVIOUS
<1>3. <<c>> \in Seq(C) /\ Len(<<c>>) = 1 /\ <<c>>[1] = c
  OBVIOUS
<1>4. <<a, b>> \in Seq(C) /\ Len(<<a, b>>) = 2 /\ <<a, b>>[1] = a /\ <<a, b>>[2] = b
  OBVIOUS
<1>5. <<b, c>> \in Seq(C) /\ Len(<<b, c>>) = 2 /\ <<b, c>>[1] = b /\ <<b, c>>[2] = c
  OBVIOUS
<1>6. <<e, f>> \in Seq(C) /\ Len(<<e, f>>) = 2 /\ <<e, f>>[1] = e /\ <<e, f>>[2] = f
  OBVIOUS
<1>7. /\ <<a, b, c>> \in Seq(C) /\ Len(<<a, b, c>>) = 3
      /\ <<a, b, c>>[1] = a /\ <<a, b, c>>[2] = b /\ <<a, b, c>>[3] = c
  OBVIOUS
<1>8. /\ <<a, b, c, e, f>> \in Seq(C) /\ Len(<<a, b, c, e, f>>) = 5
      /\ <<a, b, c, e, f>>[1] = a /\ <<a, b, c, e, f>>[2] = b /\ <<a, b, c, e, f>>[3] = c
      /\ <<a, b, c, e, f>>[4] = e /\ <<a, b, c, e, f>>[5] = f
  OBVIOUS
<1>9. <<>> \o <<a>> = <<a>>
  BY <1>1, ConcatEmptySeq
<1>10. <<a>> \o <<b>> = <<a, b>>
  <2> DEFINE p == <<a>>
             q == <<b>>
             w == <<a, b>>
  <2>1. /\ p \in Seq(C) /\ Len(p) = 1 /\ p[1] = a /\ q \in Seq(C) /\ Len(q) = 1 /\ q[1] = b
        /\ w \in Seq(C) /\ Len(w) = 2 /\ w[1] = a /\ w[2] = b
    BY <1>1, <1>2, <1>4
  <2> HIDE DEF p, q, w
  <2>2. \A j \in 1 .. Len(p) : w[j] = p[j]
    BY <2>1
  <2>3. \A j \in 1 .. Len(q) : w[Len(p) + j] = q[j]
    BY <2>1
  <2>4. Len(w) = Len(p) + Len(q)
    BY <2>1
  <2>5. p \in Seq(C) /\ q \in Seq(C) /\ w \in Seq(C)
    BY <2>1
  <2>6. p \o q = w
    BY ONLY <2>2, <2>3, <2>4, <2>5, InOne
  <2> QED
    BY <2>6 DEF p, q, w
<1>11. <<a>> \o <<b, c>> = <<a, b, c>>
  <2> DEFINE p == <<a>>
             q == <<b, c>>
             w == <<a, b, c>>
  <2>1. /\ p \in Seq(C) /\ Len(p) = 1 /\ p[1] = a
        /\ q \in Seq(C) /\ Len(q) = 2 /\ q[1] = b /\ q[2] = c
        /\ w \in Seq(C) /\ Len(w) = 3 /\ w[1] = a /\ w[2] = b /\ w[3] = c
    BY <1>1, <1>5, <1>7
  <2> HIDE DEF p, q, w
  <2>2. \A j \in 1 .. Len(p) : w[j] = p[j]
    BY <2>1
  <2>3. \A j \in 1 .. Len(q) : w[Len(p) + j] = q[j]
    BY <2>1
  <2>4. Len(w) = Len(p) + Len(q)
    BY <2>1
  <2>5. p \in Seq(C) /\ q \in Seq(C) /\ w \in Seq(C)
    BY <2>1
  <2>6. p \o q = w
    BY ONLY <2>2, <2>3, <2>4, <2>5, InOne
  <2> QED
    BY <2>6 DEF p, q, w
<1>12. <<a, b>> \o <<c>> = <<a, b, c>>
  <2> DEFINE p == <<a, b>>
             q == <<c>>
             w == <<a, b, c>>
  <2>1. /\ p \in Seq(C) /\ Len(p) = 2 /\ p[1] = a /\ p[2] = b
        /\ q \in Seq(C) /\ Len(q) = 1 /\ q[1] = c
        /\ w \in Seq(C) /\ Len(w) = 3 /\ w[1] = a /\ w[2] = b /\ w[3] = c
    BY <1>3, <1>4, <1>7
  <2> HIDE DEF p, q, w
  <2>2. \A j \in 1 .. Len(p) : w[j] = p[j]
    BY <2>1
  <2>3. \A j \in 1 .. Len(q) : w[Len(p) + j] = q[j]
    BY <2>1
  <2>4. Len(w) = Len(p) + Len(q)
    BY <2>1
  <2>5. p \in Seq(C) /\ q \in Seq(C) /\ w \in Seq(C)
    BY <2>1
  <2>6. p \o q = w
    BY ONLY <2>2, <2>3, <2>4, <2>5, InOne
  <2> QED
    BY <2>6 DEF p, q, w
<1>13. <<a, b, c>> \o <<e, f>> = <<a, b, c, e, f>>
  <2> DEFINE p == <<a, b, c>>
             q == <<e, f>>
             w == <<a, b, c, e, f>>
  <2>1. /\ p \in Seq(C) /\ Len(p) = 3 /\ p[1] = a /\ p[2] = b /\ p[3] = c
        /\ q \in Seq(C) /\ Len(q) = 2 /\ q[1] = e /\ q[2] = f
        /\ w \in Seq(C) /\ Len(w) = 5
        /\ w[1] = a /\ w[2] = b /\ w[3] = c /\ w[4] = e /\ w[5] = f
    BY <1>6, <1>7, <1>8
  <2> HIDE DEF p, q, w
  <2>2. \A j \in 1 .. Len(p) : w[j] = p[j]
    BY <2>1
  <2>3. \A j \in 1 .. Len(q) : w[Len(p) + j] = q[j]
    BY <2>1
  <2>4. Len(w) = Len(p) + Len(q)
    BY <2>1
  <2>5. p \in Seq(C) /\ q \in Seq(C) /\ w \in Seq(C)
    BY <2>1
  <2>6. p \o q = w
    BY ONLY <2>2, <2>3, <2>4, <2>5, InOne
  <2> QED
    BY <2>6 DEF p, q, w
<1> QED
  BY <1>9, <1>10, <1>11, <1>12, <1>13 DEF JoinsTo
-----------------------------------------------------------------------------
(* Powers of two and of ten, digits and numerals *)

TenTo[k \in Nat] == IF k = 0 THEN 1 ELSE 10 * TenTo[k - 1]
Tens == {TenTo[k] : k \in Nat}

LEMMA PowersOfTwo ==
  TwoTo[0] = 1 /\ \A k \in Nat : TwoTo[k] \in Nat \ {0} /\ TwoTo[k + 1] = 2 * TwoTo[k]
<1>1. TwoTo = CHOOSE f : IsPowers(f, 2)
  BY DEF TwoTo, IsPowers
<1>2. IsPowers(TwoTo, 2)
  BY <1>1, PowersExist
<1> QED
  BY <1>2, PowersFollow DEF Powers

LEMMA PowersOfTen ==
  TenTo[0] = 1 /\ \A k \in Nat : TenTo[k] \in Nat \ {0} /\ TenTo[k + 1] = 10 * TenTo[k]
<1>1. TenTo = CHOOSE f : IsPowers(f, 10)
  BY DEF TenTo, IsPowers
<1>2. IsPowers(TenTo, 10)
  BY <1>1, PowersExist
<1> QED
  BY <1>2, PowersFollow DEF Powers

\* The divisor: one, or ten times such a number.
LEMMA TensStep ==
  ASSUME NEW t \in Tens
  PROVE  /\ t \in Nat \ {0} /\ 10 * t \in Tens
         /\ t = 1 \/ \E u \in Tens : t = 10 * u
<1>1. PICK k \in Nat : t = TenTo[k]
  BY DEF Tens
<1>2. TenTo[k + 1] \in Tens /\ TenTo[k + 1] = 10 * t /\ t \in Nat \ {0}
  <2>1. k + 1 \in Nat
    OBVIOUS
  <2> QED
    BY <1>1, <2>1, PowersOfTen DEF Tens
<1>3. CASE k = 0
  BY <1>1, <1>2, <1>3, PowersOfTen
<1>4. CASE k # 0
  <2>1. k - 1 \in Nat /\ (k - 1) + 1 = k
    BY <1>4
  <2>2. TenTo[(k - 1) + 1] = 10 * TenTo[k - 1] /\ TenTo[k - 1] \in Tens
    BY ONLY <2>1, PowersOfTen DEF Tens
  <2> QED
    BY <1>1, <1>2, <2>1, <2>2
<1> QED
  BY <1>3, <1>4

\* A power of two is not a multiple of five.
LEMMA NoFives == \A k \in Nat : TwoTo[k] % 5 # 0
<1> DEFINE S == {k \in Nat : TwoTo[k] % 5 # 0}
<1>1. 0 \in S
  BY PowersOfTwo
<1>2. ASSUME NEW k \in S PROVE k + 1 \in S
  <2>1. PICK x \in Nat : x = TwoTo[k] /\ TwoTo[k + 1] = 2 * x
    BY PowersOfTwo
  <2>2. x % 5 # 0
    BY <2>1
  <2>3. (2 * x) % 5 # 0
    BY <2>2
  <2> QED
    BY <2>1, <2>3
<1>3. S \in SUBSET Nat
  OBVIOUS
<1> HIDE DEF S
<1>4. S = Nat
  BY <1>1, <1>2, <1>3, InductionOnNat
<1> QED
  BY <1>4 DEF S

\* Shifting by a and by b bits.
LEMMA TwoToSum == \A a, b \in Nat : TwoTo[a + b] = TwoTo[a] * TwoTo[b]
<1> SUFFICES ASSUME NEW a \in Nat PROVE \A b \in Nat : TwoTo[a + b] = TwoTo[a] * TwoTo[b]
  OBVIOUS
<1> DEFINE S == {b \in Nat : TwoTo[a + b] = TwoTo[a] * TwoTo[b]}
<1>1. 0 \in S
  <2>1. a + 0 = a /\ TwoTo[0] = 1 /\ TwoTo[a] \in Nat
    BY PowersOfTwo
  <2> QED
    BY <2>1
<1>2. ASSUME NEW b \in S PROVE b + 1 \in S
  <2>1. PICK x \in Nat : x = TwoTo[a]
    BY PowersOfTwo
  <2>2. PICK y \in Nat : y = TwoTo[b] /\ TwoTo[b + 1] = 2 * y
    BY PowersOfTwo
  <2>3. TwoTo[a + b] = x * y /\ a + b \in Nat /\ b \in Nat
    BY <2>1, <2>2
  <2>4. TwoTo[(a + b) + 1] = 2 * TwoTo[a + b] /\ (a + b) + 1 = a + (b + 1)
    <3>1. \A c \in Nat : TwoTo[c + 1] = 2 * TwoTo[c]
      BY ONLY PowersOfTwo
    <3>2. TwoTo[(a + b) + 1] = 2 * TwoTo[a + b]
      BY ONLY <2>3, <3>1
    <3>3. \A x1, x2 \in Nat : (x1 + x2) + 1 = x1 + (x2 + 1)
      BY ONLY TRUE
    <3> QED
      BY <2>3, <3>2, <3>3, Zenon
  <2>5. 2 * (x * y) = x * (2 * y)
    OBVIOUS
  <2> QED
    BY <2>1, <2>2, <2>3, <2>4, <2>5
<1>3. S \in SUBSET Nat
  OBVIOUS
<1> HIDE DEF S
<1>4. S = Nat
  BY <1>1, <1>2, <1>3, InductionOnNat
<1> QED
  BY <1>4 DEF S

\* A 32-bit int is wide enough for one digit.
LEMMA IntRange ==
  /\ INT_MAX + 1 = TwoTo[BITS - 1] /\ TwoTo[BITS] = 2 * (INT_MAX + 1)
  /\ INT_MAX \in Nat /\ INT_MAX >= 7 /\ INT_MIN = -(INT_MAX + 1)
  /\ INT_MIN \in Int /\ (INT_MAX + 1) % 5 # 0
<1>1. BITS \in Nat /\ BITS >= 4
  BY PrintfAssumption
<1>2. PICK b \in Nat : b = BITS - 4
  BY <1>1
<1>3. PICK x \in Nat \ {0} : x = TwoTo[b] /\ TwoTo[b + 1] = 2 * x
  BY PowersOfTwo
<1>4. TwoTo[(b + 1) + 1] = 2 * (2 * x) /\ TwoTo[((b + 1) + 1) + 1] = 2 * (2 * (2 * x))
  <2>1. b + 1 \in Nat /\ (b + 1) + 1 \in Nat
    OBVIOUS
  <2> QED
    BY <1>3, <2>1, PowersOfTwo
<1>5. ((b + 1) + 1) + 1 = BITS - 1 /\ BITS - 1 \in Nat /\ (BITS - 1) + 1 = BITS
  BY <1>1, <1>2
<1>6. TwoTo[BITS - 1] = 8 * x
  BY <1>4, <1>5
<1>7. TwoTo[BITS] = 2 * TwoTo[BITS - 1] /\ TwoTo[BITS - 1] % 5 # 0
  BY ONLY <1>5, PowersOfTwo, NoFives
<1> QED
  BY <1>6, <1>7 DEF INT_MIN, INT_MAX

LEMMA HexIsChar == \A x \in 0 .. 15 : Hex(x) \in Char
<1>1. DOMAIN HexDigits = 1 .. 16
  BY DEF HexDigits
<1>2. \A x \in 0 .. 15 : x + 1 \in DOMAIN HexDigits
  BY <1>1
<1>3. \A k \in DOMAIN HexDigits : HexDigits[k] \in Range(HexDigits)
  BY DEF Range
<1> QED
  BY <1>2, <1>3, MessagesAssumption DEF Hex

\* Numeral, by unrolling its recursion often enough, is what the recursion says.
LEMMA NumeralExists ==
  Numeral = [k \in Nat |-> IF k < 10 THEN <<Hex(k)>>
                           ELSE Numeral[k \div 10] \o <<Hex(k % 10)>>]
<1> DEFINE A == [Nat -> Seq(Char)]
           Unrolled(h) == [k \in Nat |-> IF k < 10 THEN <<Hex(k)>>
                                         ELSE h[k \div 10] \o <<Hex(k % 10)>>]
           F == [j \in Nat |-> [h \in A |-> Unrolled(h)]]
<1>1. \A k \in Nat : /\ k \div 10 \in Nat /\ k % 10 \in 0 .. 9
                     /\ k >= 10 => k \div 10 < k
  OBVIOUS
<1>2. ASSUME NEW h \in A PROVE Unrolled(h) \in A
  <2>1. ASSUME NEW k \in Nat
        PROVE  (IF k < 10 THEN <<Hex(k)>> ELSE h[k \div 10] \o <<Hex(k % 10)>>) \in Seq(Char)
    <3>1. CASE k < 10
      <4>1. k \in 0 .. 15
        BY <3>1
      <4>2. Hex(k) \in Char
        BY ONLY <4>1, HexIsChar
      <4> QED
        BY <3>1, <4>2
    <3>2. CASE ~ (k < 10)
      <4>0. k % 10 \in 0 .. 15
        OBVIOUS
      <4>1. Hex(k % 10) \in Char
        BY ONLY <4>0, HexIsChar
      <4>2. <<Hex(k % 10)>> \in Seq(Char) /\ h[k \div 10] \in Seq(Char)
        BY <1>1, <4>1
      <4>3. h[k \div 10] \o <<Hex(k % 10)>> \in Seq(Char)
        BY <4>2, ConcatProperties
      <4> QED
        BY <3>2, <4>3
    <3> QED
      BY <3>1, <3>2
  <2> QED
    BY <2>1
<1>3. IsStep(F, A)
  <2> HIDE DEF Unrolled, A
  <2> QED
    BY <1>2 DEF IsStep
<1>4. [k \in Nat |-> <<>>] \in A
  OBVIOUS
<1>5. PICK g : Iterates(g, [k \in Nat |-> <<>>], F, A)
  <2> HIDE DEF F, A
  <2> QED
    BY <1>3, <1>4, RecursionOnNat
<1>6. \A j \in Nat : g[j] \in A /\ g[j + 1] = Unrolled(g[j])
  <2>1. \A j \in Nat : g[j] \in A /\ g[j + 1] = F[j][g[j]]
    <3> HIDE DEF F, A
    <3> QED
      BY <1>5 DEF Iterates
  <2> HIDE DEF Unrolled, A
  <2> QED
    BY <2>1
<1>7. \A j, k \in Nat : g[j + 1][k] = IF k < 10 THEN <<Hex(k)>>
                                      ELSE g[j][k \div 10] \o <<Hex(k % 10)>>
  BY <1>6
<1> HIDE DEF A, F, Unrolled
\* Enough is once more than the number itself.
<1>8. \A j \in Nat : \A k \in 0 .. j : g[j + 1][k] = g[(j + 1) + 1][k]
  <2> DEFINE S == {j \in Nat : \A k \in 0 .. j : g[j + 1][k] = g[(j + 1) + 1][k]}
  <2>1. 0 \in S
    <3>1. g[0 + 1][0] = <<Hex(0)>> /\ g[(0 + 1) + 1][0] = <<Hex(0)>>
      <4>1. 0 \in Nat /\ 0 + 1 \in Nat /\ 0 < 10
        OBVIOUS
      <4> QED
        BY ONLY <1>7, <4>1
    <3> QED
      BY <3>1
  <2>2. ASSUME NEW j \in S PROVE j + 1 \in S
    <3>1. j \in Nat /\ j + 1 \in Nat /\ (j + 1) + 1 \in Nat
      OBVIOUS
    <3>2. ASSUME NEW k \in 0 .. j + 1
          PROVE  g[(j + 1) + 1][k] = g[((j + 1) + 1) + 1][k]
      <4>1. k \in Nat
        OBVIOUS
      <4>2. CASE k < 10
        <5>1. g[(j + 1) + 1][k] = <<Hex(k)>>
          BY <1>7, <3>1, <4>1, <4>2
        <5>2. g[((j + 1) + 1) + 1][k] = <<Hex(k)>>
          BY <1>7, <3>1, <4>1, <4>2
        <5> QED
          BY <5>1, <5>2
      <4>3. CASE ~ (k < 10)
        <5>1. k \div 10 \in 0 .. j
          BY <1>1, <4>1, <4>3
        <5>2. g[j + 1][k \div 10] = g[(j + 1) + 1][k \div 10]
          BY <5>1
        <5>3. g[(j + 1) + 1][k] = g[j + 1][k \div 10] \o <<Hex(k % 10)>>
          BY <1>7, <3>1, <4>1, <4>3
        <5>4. g[((j + 1) + 1) + 1][k] = g[(j + 1) + 1][k \div 10] \o <<Hex(k % 10)>>
          BY <1>7, <3>1, <4>1, <4>3
        <5> QED
          BY <5>2, <5>3, <5>4
      <4> QED
        BY <4>2, <4>3
    <3> QED
      BY <3>1, <3>2
  <2>3. S \in SUBSET Nat
    OBVIOUS
  <2> HIDE DEF S
  <2>4. S = Nat
    BY <2>1, <2>2, <2>3, InductionOnNat
  <2> QED
    BY <2>4 DEF S
<1>9. \A k, j \in Nat : g[(k + j) + 1][k] = g[k + 1][k]
  <2> SUFFICES ASSUME NEW k \in Nat PROVE \A j \in Nat : g[(k + j) + 1][k] = g[k + 1][k]
    OBVIOUS
  <2> DEFINE S == {j \in Nat : g[(k + j) + 1][k] = g[k + 1][k]}
  <2>1. 0 \in S
    <3>1. k + 0 = k
      OBVIOUS
    <3> QED
      BY <3>1
  <2>2. ASSUME NEW j \in S PROVE j + 1 \in S
    <3>1. k + j \in Nat /\ k \in 0 .. k + j /\ (k + j) + 1 = k + (j + 1) /\ j + 1 \in Nat
      OBVIOUS
    <3>2. g[(k + j) + 1][k] = g[((k + j) + 1) + 1][k]
      BY ONLY <1>8, <3>1
    <3> QED
      BY <3>1, <3>2
  <2>3. S \in SUBSET Nat
    OBVIOUS
  <2> HIDE DEF S
  <2>4. S = Nat
    BY <2>1, <2>2, <2>3, InductionOnNat
  <2> QED
    BY <2>4 DEF S
<1> DEFINE IsIt(f) == f = [k \in Nat |-> IF k < 10 THEN <<Hex(k)>>
                                         ELSE f[k \div 10] \o <<Hex(k % 10)>>]
           f0 == [k \in Nat |-> g[k + 1][k]]
<1>10. IsIt(f0)
  <2>1. ASSUME NEW k \in Nat
        PROVE  f0[k] = IF k < 10 THEN <<Hex(k)>> ELSE f0[k \div 10] \o <<Hex(k % 10)>>
    <3>1. f0[k] = IF k < 10 THEN <<Hex(k)>> ELSE g[k][k \div 10] \o <<Hex(k % 10)>>
      BY <1>7
    <3>2. ASSUME ~ (k < 10) PROVE g[k][k \div 10] = f0[k \div 10]
      <4>1. PICK e \in Nat : e = k \div 10
        BY <1>1
      <4>2. e < k
        BY <1>1, <3>2, <4>1
      <4>3. PICK j \in Nat : k = (e + j) + 1
        <5>1. k - e - 1 \in Nat /\ k = (e + (k - e - 1)) + 1
          BY <4>2
        <5> QED
          BY <5>1
      <4>4. g[(e + j) + 1][e] = g[e + 1][e]
        BY <1>9
      <4> QED
        BY <4>1, <4>3, <4>4
    <3> HIDE DEF f0
    <3> QED
      BY <3>1, <3>2
  <2> QED
    BY <2>1
<1>11. Numeral = CHOOSE f : IsIt(f)
  BY DEF Numeral
<1>12. IsIt(Numeral)
  <2> HIDE DEF IsIt, f0
  <2> QED
    BY <1>10, <1>11
<1> QED
  BY <1>12

\* One more digit, and digits are characters.
LEMMA NumeralSteps ==
  ASSUME NEW k \in Nat
  PROVE  /\ k < 10 => Numeral[k] = <<Hex(k)>>
         /\ k >= 10 => Numeral[k] = Numeral[k \div 10] \o <<Hex(k % 10)>>
         /\ Numeral[k] \in Seq(Char)
<1>1. \A j \in Nat : Numeral[j] = IF j < 10 THEN <<Hex(j)>>
                                  ELSE Numeral[j \div 10] \o <<Hex(j % 10)>>
  BY NumeralExists
<1> DEFINE S == {m \in Nat : \A j \in 0 .. m : Numeral[j] \in Seq(Char)}
<1>2. ASSUME NEW j \in Nat, j < 10 PROVE Numeral[j] \in Seq(Char)
  <2>1. j \in 0 .. 15
    BY <1>2
  <2>2. Hex(j) \in Char
    BY ONLY <2>1, HexIsChar
  <2>3. Numeral[j] = <<Hex(j)>>
    BY <1>1, <1>2
  <2> QED
    BY <2>2, <2>3
<1>3. 0 \in S
  BY <1>2
<1>4. ASSUME NEW m \in S PROVE m + 1 \in S
  <2>1. ASSUME NEW j \in 0 .. m + 1 PROVE Numeral[j] \in Seq(Char)
    <3>1. CASE j < 10
      BY <1>2, <3>1
    <3>2. CASE ~ (j < 10)
      <4>1. j \in Nat /\ j \div 10 \in 0 .. m /\ j % 10 \in 0 .. 15
        BY <3>2
      <4>2. Numeral[j \div 10] \in Seq(Char)
        BY <4>1
      <4>3. Hex(j % 10) \in Char
        BY <4>1, HexIsChar
      <4>4. Numeral[j] = Numeral[j \div 10] \o <<Hex(j % 10)>>
        BY <1>1, <3>2, <4>1
      <4>5. <<Hex(j % 10)>> \in Seq(Char)
        BY <4>3
      <4>6. Numeral[j \div 10] \o <<Hex(j % 10)>> \in Seq(Char)
        BY <4>2, <4>5, ConcatProperties
      <4> QED
        BY <4>4, <4>6
    <3> QED
      BY <3>1, <3>2
  <2> QED
    BY <2>1
<1>5. S \in SUBSET Nat
  OBVIOUS
<1> HIDE DEF S
<1>6. S = Nat
  BY <1>3, <1>4, <1>5, InductionOnNat
<1>7. k \in 0 .. k /\ k \in S
  BY <1>6
<1>8. Numeral[k] \in Seq(Char)
  BY <1>7 DEF S
<1>9. k < 10 => Numeral[k] = <<Hex(k)>>
  BY <1>1
<1>10. k >= 10 => Numeral[k] = Numeral[k \div 10] \o <<Hex(k % 10)>>
  <2>1. k >= 10 => ~ (k < 10)
    OBVIOUS
  <2> QED
    BY <1>1, <2>1
<1> QED
  BY <1>8, <1>9, <1>10

\* The digit of the hexadecimal loop is that of the unsigned number.
LEMMA HexDigit ==
  ASSUME NEW v \in Int, NEW j \in 0 .. BITS \div 4 - 1
  PROVE  ((v % TwoTo[BITS]) \div TwoTo[4 * j]) % 16 = (v \div TwoTo[j * 4]) % 16
<1>1. PICK N \in Nat : BITS = 4 * N /\ BITS \div 4 = N
  <2>1. BITS \div 4 \in Nat /\ BITS = 4 * (BITS \div 4)
    BY PrintfAssumption
  <2> QED
    BY <2>1
<1>2. PICK e \in Nat : BITS = (4 * j + 4) + e
  <2>1. BITS - (4 * j + 4) \in Nat /\ BITS = (4 * j + 4) + (BITS - (4 * j + 4))
    BY <1>1
  <2> QED
    BY <2>1
<1>3. 4 * j \in Nat /\ 4 * j + 4 \in Nat /\ j * 4 = 4 * j /\ 4 \in Nat
  OBVIOUS
<1>4. TwoTo[4] = 16
  <2>1. TwoTo[0 + 1] = 2 /\ TwoTo[1 + 1] = 2 * TwoTo[1] /\ TwoTo[2 + 1] = 2 * TwoTo[2]
        /\ TwoTo[3 + 1] = 2 * TwoTo[3]
    BY PowersOfTwo
  <2> QED
    BY <2>1
<1>5. PICK t \in Nat \ {0} : t = TwoTo[4 * j]
  BY <1>3, PowersOfTwo
<1>6. PICK m \in Nat \ {0} : m = TwoTo[e]
  BY PowersOfTwo
<1>7. TwoTo[BITS] = t * 16 * m
  <2>1. TwoTo[(4 * j + 4) + e] = TwoTo[4 * j + 4] * TwoTo[e]
    BY ONLY <1>3, TwoToSum, e \in Nat
  <2>2. TwoTo[4 * j + 4] = TwoTo[4 * j] * TwoTo[4]
    BY ONLY <1>3, TwoToSum
  <2>3. TwoTo[4 * j + 4] = t * 16
    BY <2>2, <1>4, <1>5
  <2> QED
    BY <1>2, <1>6, <2>1, <2>3
<1>8. ((v % (t * 16 * m)) \div t) % 16 = (v \div t) % 16
  <2>1. PICK b \in Nat \ {0} : b = 16
    OBVIOUS
  <2>2. ((v % (t * b * m)) \div t) % b = (v \div t) % b
    BY DigitOfRemainder
  <2> QED
    BY <2>1, <2>2
<1> QED
  BY <1>3, <1>5, <1>7, <1>8

\* The digits of w down to the place of t.
Leading(w, t) == IF w \div t = 0 THEN <<>> ELSE Numeral[w \div t]

LEMMA LeadingTypes ==
  ASSUME NEW w \in Nat, NEW t \in Nat \ {0}
  PROVE  w \div t \in Nat /\ Leading(w, t) \in Seq(Char)
<1>1. w \div t \in Nat
  BY DivMod
<1>2. Numeral[w \div t] \in Seq(Char)
  BY <1>1, NumeralSteps
<1> QED
  BY <1>1, <1>2 DEF Leading

\* One more place.
LEMMA NumeralPlace ==
  ASSUME NEW w \in Nat, NEW t \in Nat \ {0}
  PROVE  Numeral[w \div t] = Leading(w, 10 * t) \o <<Hex((w \div t) % 10)>>
<1>1. PICK q \in Nat : q = w \div t
  BY DivMod
<1>2. w \div (10 * t) = q \div 10
  <2>1. PICK b \in Nat \ {0} : b = 10
    OBVIOUS
  <2>2. (w \div t) \div b = w \div (b * t)
    BY QuotientOfQuotient
  <2> QED
    BY <1>1, <2>1, <2>2
<1>3. CASE q < 10
  <2>1. q \div 10 = 0 /\ q % 10 = q /\ q \in 0 .. 15
    BY <1>3
  <2>2. Leading(w, 10 * t) = <<>>
    BY <1>2, <2>1 DEF Leading
  <2>3. Hex(q) \in Char
    BY ONLY <2>1, HexIsChar
  <2>4. <<Hex(q)>> \in Seq(Char)
    BY <2>3
  <2>5. <<>> \o <<Hex(q)>> = <<Hex(q)>>
    BY <2>4, ConcatEmptySeq
  <2>6. Numeral[q] = <<Hex(q)>>
    BY <1>3, NumeralSteps
  <2> QED
    BY <1>1, <2>1, <2>2, <2>5, <2>6
<1>4. CASE ~ (q < 10)
  <2>1. q >= 10 /\ q \div 10 # 0
    BY <1>4
  <2>2. Leading(w, 10 * t) = Numeral[q \div 10]
    BY <1>2, <2>1 DEF Leading
  <2>3. Numeral[q] = Numeral[q \div 10] \o <<Hex(q % 10)>>
    BY <2>1, NumeralSteps
  <2> QED
    BY <1>1, <2>2, <2>3
<1> QED
  BY <1>3, <1>4

\* What has been printed of a number is the beginning of its numeral.
LEMMA LeadingIsPrefix ==
  ASSUME NEW w \in Nat, NEW t \in Tens
  PROVE  \E r \in Seq(Char) : Numeral[w] = Leading(w, t) \o r
<1>1. PICK k \in Nat : t = TenTo[k]
  BY DEF Tens
<1> DEFINE P(j) == w \div TenTo[j] # 0 =>
                     \E r \in Seq(Char) : Numeral[w] = Numeral[w \div TenTo[j]] \o r
           S == {j \in Nat : P(j)}
<1>2. 0 \in S
  <2>1. w \div TenTo[0] = w
    BY PowersOfTen
  <2>2. Numeral[w] \in Seq(Char)
    BY NumeralSteps
  <2>2a. <<>> \in Seq(Char)
    OBVIOUS
  <2>3. Numeral[w] = Numeral[w] \o <<>>
    BY <2>2, ConcatEmptySeq
  <2> QED
    BY <2>1, <2>2a, <2>3
<1>3. ASSUME NEW j \in S PROVE j + 1 \in S
  <2>0. j \in Nat /\ j + 1 \in Nat
    OBVIOUS
  <2>1. PICK u \in Nat \ {0} : u = TenTo[j]
    BY <2>0, PowersOfTen
  <2>2. TenTo[j + 1] = 10 * u /\ 10 * u \in Nat \ {0}
    BY <2>0, <2>1, PowersOfTen
  <2>3. ASSUME w \div (10 * u) # 0
        PROVE  \E r \in Seq(Char) : Numeral[w] = Numeral[w \div (10 * u)] \o r
    <3>1. PICK q \in Nat : q = w \div u
      BY DivMod
    <3>2. w \div (10 * u) = q \div 10
      <4>1. PICK b \in Nat \ {0} : b = 10
        OBVIOUS
      <4>2. (w \div u) \div b = w \div (b * u)
        BY QuotientOfQuotient
      <4> QED
        BY <3>1, <4>1, <4>2
    <3>3. q >= 10 /\ q # 0
      BY <2>3, <3>2
    <3>4. PICK r \in Seq(Char) : Numeral[w] = Numeral[q] \o r
      BY <2>1, <3>1, <3>3
    <3>5. Numeral[q] = Numeral[q \div 10] \o <<Hex(q % 10)>>
      BY <3>3, NumeralSteps
    <3>6. Numeral[q \div 10] \in Seq(Char)
      <4>1. q \div 10 \in Nat
        OBVIOUS
      <4> QED
        BY <4>1, NumeralSteps
    <3>7. q % 10 \in 0 .. 15
      OBVIOUS
    <3>8. Hex(q % 10) \in Char
      BY ONLY <3>7, HexIsChar
    <3>9. <<Hex(q % 10)>> \in Seq(Char)
      BY <3>8
    <3>10. <<Hex(q % 10)>> \o r \in Seq(Char)
      BY <3>9, ConcatProperties
    <3>11. Associates(Numeral[q \div 10], <<Hex(q % 10)>>, r)
      BY <3>6, <3>9, Associativity
    <3>12. Numeral[w] = Numeral[q \div 10] \o (<<Hex(q % 10)>> \o r)
      BY ONLY <3>4, <3>5, <3>11 DEF Associates
    <3> QED
      BY <3>2, <3>10, <3>12
  <2> QED
    BY <2>0, <2>2, <2>3
<1>4. S \in SUBSET Nat
  OBVIOUS
<1>5. P(k)
  <2> HIDE DEF P, S
  <2>1. S = Nat
    BY <1>2, <1>3, <1>4, InductionOnNat
  <2> QED
    BY <2>1 DEF S
<1>6. CASE w \div t # 0
  BY <1>1, <1>5, <1>6 DEF Leading
<1>7. CASE w \div t = 0
  <2>1. Numeral[w] \in Seq(Char)
    BY NumeralSteps
  <2>2. Numeral[w] = <<>> \o Numeral[w]
    BY <2>1, ConcatEmptySeq
  <2> QED
    BY <1>7, <2>1, <2>2 DEF Leading
<1> QED
  BY <1>6, <1>7
-----------------------------------------------------------------------------
(* Messages and their tokens *)

CharSeqs(m)  == [k \in DOMAIN m |-> m[k].chars]
ArgSeqs(m)   == [k \in DOMAIN m |-> m[k].args]
PrintSeqs(m) == [k \in DOMAIN m |-> m[k].prints]

Arg == [str : Seq(Char)] \cup [int : INT_MIN .. INT_MAX]

Sign(v) == IF v < 0 THEN <<"-">> ELSE <<>>
Magnitude(v) == IF v < 0 THEN -v ELSE v

LEMMA Magnitudes ==
  ASSUME NEW v \in INT_MIN .. INT_MAX
  PROVE  /\ Magnitude(v) \in 0 .. INT_MAX + 1 /\ v \in Int
         /\ v # INT_MIN => Magnitude(v) \in 0 .. INT_MAX
BY IntRange DEF Magnitude

\* What "%d" should print: a sign and the digits.
LEMMA SignedPrints ==
  ASSUME NEW v \in INT_MIN .. INT_MAX
  PROVE  /\ Sign(v) \in Seq(Char) /\ Numeral[Magnitude(v)] \in Seq(Char)
         /\ Signed(v).prints = Sign(v) \o Numeral[Magnitude(v)]
         /\ Signed(v).prints \in Seq(Char)
<1>1. Magnitude(v) \in Nat
  BY Magnitudes, IntRange
<1>2. Numeral[Magnitude(v)] \in Seq(Char)
  BY <1>1, NumeralSteps
<1>3. "-" \in Char
  BY MessagesAssumption
<1>4. Sign(v) \in Seq(Char)
  BY <1>3 DEF Sign
<1>5. Signed(v).prints = IF v < 0 THEN <<"-">> \o Numeral[-v] ELSE Numeral[v]
  BY DEF Signed
<1>6. Signed(v).prints = Sign(v) \o Numeral[Magnitude(v)]
  <2>1. CASE v < 0
    BY <1>5, <2>1 DEF Sign, Magnitude
  <2>2. CASE ~ (v < 0)
    <3>1. Signed(v).prints = Numeral[Magnitude(v)] /\ Sign(v) = <<>>
      BY <1>5, <2>2 DEF Sign, Magnitude
    <3> QED
      BY <1>2, <3>1, ConcatEmptySeq
  <2> QED
    BY <2>1, <2>2
<1>7. Sign(v) \o Numeral[Magnitude(v)] \in Seq(Char)
  BY <1>2, <1>4, ConcatProperties
<1> QED
  BY <1>2, <1>4, <1>6, <1>7

\* What "%x" should print has a fixed number of digits.
LEMMA BitsPrints ==
  ASSUME NEW v \in INT_MIN .. INT_MAX
  PROVE  /\ Bits(v).prints \in Seq(Char) /\ Len(Bits(v).prints) = BITS \div 4
         /\ BITS \div 4 \in Nat \ {0}
         /\ \A k \in 1 .. BITS \div 4 :
              Bits(v).prints[k] = Hex((v \div TwoTo[(BITS \div 4 - k) * 4]) % 16)
<1>1. BITS \div 4 \in Nat \ {0} /\ v \in Int
  BY PrintfAssumption, IntRange
<1>2. Bits(v).prints = [k \in 1 .. BITS \div 4 |->
                  Hex(((v % TwoTo[BITS]) \div TwoTo[4 * (BITS \div 4 - k)]) % 16)]
  BY DEF Bits
<1>3. ASSUME NEW k \in 1 .. BITS \div 4
      PROVE  /\ Bits(v).prints[k] = Hex((v \div TwoTo[(BITS \div 4 - k) * 4]) % 16)
             /\ Bits(v).prints[k] \in Char
  <2>1. PICK j \in 0 .. BITS \div 4 - 1 : j = BITS \div 4 - k
    <3>1. BITS \div 4 - k \in 0 .. BITS \div 4 - 1
      BY <1>1
    <3> QED
      BY <3>1
  <2>2. ((v % TwoTo[BITS]) \div TwoTo[4 * j]) % 16 = (v \div TwoTo[j * 4]) % 16
    BY <1>1, HexDigit
  <2>3. Bits(v).prints[k] = Hex((v \div TwoTo[j * 4]) % 16)
    BY <1>2, <2>1, <2>2
  <2>4. PICK t \in Nat \ {0} : t = TwoTo[j * 4]
    <3>1. j * 4 \in Nat
      BY <1>1
    <3> QED
      BY <3>1, PowersOfTwo
  <2>5. PICK x \in Int : x = v \div t
    BY <1>1, IntDivMod
  <2>6. x % 16 \in 0 .. 15
    OBVIOUS
  <2>7. Hex(x % 16) \in Char
    BY ONLY <2>6, HexIsChar
  <2> QED
    BY <2>1, <2>3, <2>4, <2>5, <2>7
<1>4. Bits(v).prints \in [1 .. BITS \div 4 -> Char]
  BY <1>2, <1>3
<1>5. Bits(v).prints \in Seq(Char) /\ Len(Bits(v).prints) = BITS \div 4
  BY <1>1, <1>4
<1> QED
  BY <1>1, <1>3, <1>5

LEMMA FieldTypes ==
  ASSUME NEW t, IsToken(t) \/ t = Dangling
  PROVE  /\ t.chars \in Seq(Char) /\ Len(t.chars) \in {1, 2}
         /\ t.args \in Seq(Arg)
         /\ t.prints \in Seq(Char)
<1>0. {"%", "s", "d", "x"} \subseteq Char /\ <<>> \in Seq(Arg)
  BY MessagesAssumption
<1>1. CASE t \in {Literal(c) : c \in Char \ {"%"}}
  <2>1. PICK c \in Char : t = Literal(c)
    BY <1>1
  <2>2. t.chars = <<c>> /\ t.args = <<>> /\ t.prints = <<c>>
    BY <2>1 DEF Literal
  <2> QED
    BY <1>0, <2>2
<1>2. CASE t \in {Escaped(c) : c \in Char \ {"s", "d", "x"}}
  <2>1. PICK c \in Char : t = Escaped(c)
    BY <1>2
  <2>2. t.chars = <<"%", c>> /\ t.args = <<>> /\ t.prints = <<c>>
    BY <2>1 DEF Escaped
  <2> QED
    BY <1>0, <2>2
<1>3. CASE t \in {Signed(v) : v \in INT_MIN .. INT_MAX}
  <2>1. PICK v \in INT_MIN .. INT_MAX : t = Signed(v)
    BY <1>3
  <2>2. t.chars = <<"%", "d">> /\ t.args = <<[int |-> v]>>
    BY <2>1 DEF Signed
  <2>3. [int |-> v] \in Arg
    BY DEF Arg
  <2>4. t.args \in Seq(Arg)
    BY <2>2, <2>3
  <2> QED
    BY <1>0, <2>1, <2>2, <2>4, SignedPrints
<1>4. CASE t \in {Bits(v) : v \in INT_MIN .. INT_MAX}
  <2>1. PICK v \in INT_MIN .. INT_MAX : t = Bits(v)
    BY <1>4
  <2>2. t.chars = <<"%", "x">> /\ t.args = <<[int |-> v]>>
    BY <2>1 DEF Bits
  <2>3. [int |-> v] \in Arg
    BY DEF Arg
  <2>4. t.args \in Seq(Arg)
    BY <2>2, <2>3
  <2> QED
    BY <1>0, <2>1, <2>2, <2>4, BitsPrints
<1>5. CASE t = Text(t.prints) /\ t.prints \in Seq(Char)
  <2>1. t.chars = <<"%", "s">> /\ t.args = <<[str |-> t.prints]>>
    BY <1>5 DEF Text
  <2>2. [str |-> t.prints] \in Arg
    BY <1>5 DEF Arg
  <2>3. t.args \in Seq(Arg)
    BY <2>1, <2>2
  <2> QED
    BY <1>0, <1>5, <2>1, <2>3
<1>6. CASE t = Dangling
  BY <1>0, <1>6 DEF Dangling
<1> QED
  BY <1>1, <1>2, <1>3, <1>4, <1>5, <1>6 DEF IsToken, SimpleTokens

\* A message by its fields.
LEMMA MessageTypes ==
  ASSUME NEW m, IsMessage(m)
  PROVE  /\ Len(m) \in Nat /\ DOMAIN m = 1 .. Len(m)
         /\ CharSeqs(m) \in Seq(Seq(Char)) /\ Len(CharSeqs(m)) = Len(m)
         /\ ArgSeqs(m) \in Seq(Seq(Arg)) /\ Len(ArgSeqs(m)) = Len(m)
         /\ PrintSeqs(m) \in Seq(Seq(Char)) /\ Len(PrintSeqs(m)) = Len(m)
         /\ CharsOf(m) = FlattenSeq(CharSeqs(m))
         /\ ArgsOf(m) = FlattenSeq(ArgSeqs(m))
         /\ PrintsOf(m) = FlattenSeq(PrintSeqs(m))
<1>1. Len(m) \in Nat /\ DOMAIN m = 1 .. Len(m)
  BY LenProperties DEF IsMessage
<1>2. \A k \in 1 .. Len(m) : IsToken(m[k]) \/ m[k] = Dangling
  BY <1>1 DEF IsMessage
<1>3. ASSUME NEW k \in 1 .. Len(m)
      PROVE  m[k].chars \in Seq(Char) /\ m[k].args \in Seq(Arg) /\ m[k].prints \in Seq(Char)
  BY <1>2, FieldTypes
<1>4. CharSeqs(m) \in [1 .. Len(m) -> Seq(Char)]
  BY <1>1, <1>3 DEF CharSeqs
<1>5. ArgSeqs(m) \in [1 .. Len(m) -> Seq(Arg)]
  BY <1>1, <1>3 DEF ArgSeqs
<1>6. PrintSeqs(m) \in [1 .. Len(m) -> Seq(Char)]
  BY <1>1, <1>3 DEF PrintSeqs
<1>7. CharsOf(m) = FlattenSeq(CharSeqs(m))
  BY DEF CharsOf, Joined, CharSeqs
<1>8. ArgsOf(m) = FlattenSeq(ArgSeqs(m))
  BY DEF ArgsOf, Joined, ArgSeqs
<1>9. PrintsOf(m) = FlattenSeq(PrintSeqs(m))
  BY DEF PrintsOf, Joined, PrintSeqs
<1>10. ASSUME NEW C, NEW N \in Nat, NEW q \in [1 .. N -> C]
       PROVE  q \in Seq(C) /\ Len(q) = N
  OBVIOUS
<1>11. CharSeqs(m) \in Seq(Seq(Char)) /\ Len(CharSeqs(m)) = Len(m)
  BY <1>1, <1>4, <1>10
<1>12. ArgSeqs(m) \in Seq(Seq(Arg)) /\ Len(ArgSeqs(m)) = Len(m)
  BY <1>1, <1>5, <1>10
<1>13. PrintSeqs(m) \in Seq(Seq(Char)) /\ Len(PrintSeqs(m)) = Len(m)
  BY <1>1, <1>6, <1>10
<1> QED
  BY <1>1, <1>7, <1>8, <1>9, <1>11, <1>12, <1>13

\* Where the characters of a token stand in the format.
TokenAt(m, k, p, cs) ==
  /\ p \in Nat /\ Len(cs) \in {1, 2}
  /\ Len(CharsOf(m)) \in Nat /\ p + Len(cs) <= Len(CharsOf(m))
  /\ Len(Joint(CharSeqs(m), k + 1)) = p + Len(cs)
  /\ \A j \in 1 .. Len(cs) : CharsOf(m)[p + j] = cs[j]

LEMMA Positions ==
  ASSUME NEW m, IsMessage(m), NEW k \in 0 .. Len(m) - 1
  PROVE  TokenAt(m, k, Len(Joint(CharSeqs(m), k)), m[k + 1].chars)
<1> SUFFICES ASSUME NEW p, p = Len(Joint(CharSeqs(m), k)), NEW cs, cs = m[k + 1].chars
             PROVE  TokenAt(m, k, p, cs)
  OBVIOUS
<1> DEFINE q == CharSeqs(m)
<1>1. /\ Len(m) \in Nat /\ q \in Seq(Seq(Char)) /\ Len(q) = Len(m) /\ DOMAIN m = 1 .. Len(m)
      /\ CharsOf(m) = FlattenSeq(q)
  BY MessageTypes
<1>2. k + 1 \in 1 .. Len(m) /\ k \in 0 .. Len(q) /\ k + 1 \in 0 .. Len(q) /\ k \in 0 .. Len(q) - 1
  BY <1>1
<1>3. q[k + 1] = cs /\ cs \in Seq(Char) /\ Len(cs) \in {1, 2}
  <2>1. IsToken(m[k + 1]) \/ m[k + 1] = Dangling
    BY <1>1, <1>2 DEF IsMessage
  <2> QED
    BY <1>1, <1>2, <2>1, FieldTypes DEF CharSeqs
<1> HIDE DEF q
<1>4. PICK a \in Seq(Char) : a = Joint(q, k)
  BY <1>1, <1>2, FlattenSteps
<1>5. Joint(q, k + 1) = a \o cs
  BY <1>1, <1>2, <1>3, <1>4, FlattenSteps
<1>6. PICK r \in Seq(Char) : FlattenSeq(q) = Joint(q, k + 1) \o r
  BY <1>1, <1>2, JointIsPrefix
<1>7. PICK b \in Seq(Char) : b = a \o cs
  BY <1>3, ConcatProperties
<1>8. /\ Len(b) = Len(a) + Len(cs)
      /\ \A j \in 1 .. Len(a) + Len(cs) : b[j] = IF j <= Len(a) THEN a[j] ELSE cs[j - Len(a)]
  BY <1>3, <1>7, ConcatProperties
<1>9. PICK w \in Seq(Char) : w = b \o r
  BY ConcatProperties
<1>10. /\ Len(w) = Len(b) + Len(r)
       /\ \A j \in 1 .. Len(b) + Len(r) : w[j] = IF j <= Len(b) THEN b[j] ELSE r[j - Len(b)]
  BY <1>9, ConcatProperties
<1>11. CharsOf(m) = w
  BY <1>1, <1>5, <1>6, <1>7, <1>9
<1>12. p = Len(a) /\ Len(a) \in Nat /\ Len(b) \in Nat /\ Len(r) \in Nat /\ Len(w) \in Nat
  BY <1>4, LenProperties DEF q
<1>13. ASSUME NEW j \in 1 .. Len(cs) PROVE w[p + j] = cs[j]
  <2>1. /\ p + j \in 1 .. Len(a) + Len(cs) /\ p + j \in 1 .. Len(b) + Len(r)
        /\ p + j <= Len(b) /\ ~ (p + j <= Len(a)) /\ (p + j) - Len(a) = j
    BY <1>3, <1>8, <1>12
  <2>2. w[p + j] = b[p + j]
    BY <1>10, <2>1
  <2>3. b[p + j] = cs[(p + j) - Len(a)]
    BY <1>8, <2>1
  <2> QED
    BY <2>1, <2>2, <2>3
<1>14. Len(Joint(CharSeqs(m), k + 1)) = p + Len(cs)
  BY <1>5, <1>7, <1>8, <1>12 DEF q
<1> QED
  BY <1>3, <1>8, <1>10, <1>11, <1>12, <1>13, <1>14 DEF TokenAt

\* The end of the format is past the last token, and nowhere else.
LEMMA EndPosition ==
  ASSUME NEW m, IsMessage(m)
  PROVE  /\ Len(CharsOf(m)) \in Nat
         /\ Len(Joint(CharSeqs(m), Len(m))) = Len(CharsOf(m))
         /\ Joint(PrintSeqs(m), Len(m)) = PrintsOf(m)
         /\ Joint(ArgSeqs(m), Len(m)) = ArgsOf(m)
         /\ Joint(CharSeqs(m), 0) = <<>> /\ Joint(PrintSeqs(m), 0) = <<>>
         /\ Joint(ArgSeqs(m), 0) = <<>>
         /\ CharsOf(m) \in Seq(Char) /\ ArgsOf(m) \in Seq(Arg) /\ PrintsOf(m) \in Seq(Char)
<1>1. ASSUME NEW C, NEW q \in Seq(Seq(C)), Len(q) = Len(m)
      PROVE  /\ Joint(q, Len(m)) = FlattenSeq(q) /\ Joint(q, 0) = <<>>
             /\ FlattenSeq(q) \in Seq(C)
  <2>1. Joint(q, Len(q)) = FlattenSeq(q) /\ Joint(q, 0) = <<>>
    BY FlattenSteps
  <2>2. Len(q) \in 0 .. Len(q)
    BY LenProperties
  <2>3. Joint(q, Len(q)) \in Seq(C)
    BY <2>2, FlattenSteps
  <2> QED
    BY <1>1, <2>1, <2>3
<1>2. /\ Joint(CharSeqs(m), Len(m)) = CharsOf(m) /\ Joint(CharSeqs(m), 0) = <<>>
      /\ CharsOf(m) \in Seq(Char)
  BY <1>1, MessageTypes
<1>3. /\ Joint(ArgSeqs(m), Len(m)) = ArgsOf(m) /\ Joint(ArgSeqs(m), 0) = <<>>
      /\ ArgsOf(m) \in Seq(Arg)
  BY <1>1, MessageTypes
<1>4. /\ Joint(PrintSeqs(m), Len(m)) = PrintsOf(m) /\ Joint(PrintSeqs(m), 0) = <<>>
      /\ PrintsOf(m) \in Seq(Char)
  BY <1>1, MessageTypes
<1>5. Len(CharsOf(m)) \in Nat
  BY <1>2, LenProperties
<1> QED
  BY <1>2, <1>3, <1>4, <1>5

\* One more token, for what is printed and for the arguments.
LEMMA TokenFields ==
  ASSUME NEW m, IsMessage(m), NEW k \in 0 .. Len(m) - 1
  PROVE  /\ k + 1 \in 1 .. Len(m) /\ k + 1 \in 0 .. Len(m) /\ k \in 0 .. Len(m)
         /\ IsToken(m[k + 1]) \/ (m[k + 1] = Dangling /\ k + 1 = Len(m))
         /\ Joint(PrintSeqs(m), k + 1) = Joint(PrintSeqs(m), k) \o m[k + 1].prints
         /\ Joint(ArgSeqs(m), k + 1) = Joint(ArgSeqs(m), k) \o m[k + 1].args
         /\ Joint(PrintSeqs(m), k) \in Seq(Char) /\ Joint(ArgSeqs(m), k) \in Seq(Arg)
         /\ Joint(PrintSeqs(m), k + 1) \in Seq(Char) /\ Joint(ArgSeqs(m), k + 1) \in Seq(Arg)
         /\ m[k + 1].prints \in Seq(Char) /\ m[k + 1].args \in Seq(Arg)
<1>1. Len(m) \in Nat /\ DOMAIN m = 1 .. Len(m)
  BY MessageTypes
<1>2. k + 1 \in 1 .. Len(m) /\ k + 1 \in 0 .. Len(m) /\ k \in 0 .. Len(m)
  BY <1>1
<1>3. IsToken(m[k + 1]) \/ (m[k + 1] = Dangling /\ k + 1 = Len(m))
  BY <1>1, <1>2 DEF IsMessage
<1>4. ASSUME NEW C, NEW q \in Seq(Seq(C)), Len(q) = Len(m)
      PROVE  /\ Joint(q, k + 1) = Joint(q, k) \o q[k + 1]
             /\ Joint(q, k) \in Seq(C) /\ Joint(q, k + 1) \in Seq(C)
  <2>1. k \in 0 .. Len(q) /\ k + 1 \in 0 .. Len(q) /\ k \in 0 .. Len(q) - 1
    BY <1>1, <1>4
  <2> QED
    BY <2>1, FlattenSteps
<1>5. PrintSeqs(m)[k + 1] = m[k + 1].prints /\ ArgSeqs(m)[k + 1] = m[k + 1].args
  BY <1>1, <1>2 DEF PrintSeqs, ArgSeqs
<1>6. /\ Joint(PrintSeqs(m), k + 1) = Joint(PrintSeqs(m), k) \o m[k + 1].prints
      /\ Joint(PrintSeqs(m), k) \in Seq(Char) /\ Joint(PrintSeqs(m), k + 1) \in Seq(Char)
  BY <1>4, <1>5, MessageTypes
<1>7. /\ Joint(ArgSeqs(m), k + 1) = Joint(ArgSeqs(m), k) \o m[k + 1].args
      /\ Joint(ArgSeqs(m), k) \in Seq(Arg) /\ Joint(ArgSeqs(m), k + 1) \in Seq(Arg)
  BY <1>4, <1>5, MessageTypes
<1>8. m[k + 1].prints \in Seq(Char) /\ m[k + 1].args \in Seq(Arg)
  BY <1>3, FieldTypes
<1> QED
  BY <1>2, <1>3, <1>6, <1>7, <1>8
-----------------------------------------------------------------------------
(* printf: the inductive invariant *)

\* The first k tokens have been read, and their arguments taken.
AtToken(k) == at = Len(Joint(CharSeqs(message), k)) + 1
ArgsFrom(k) == Joint(ArgSeqs(message), k) \o args = ArgsOf(message)

\* What the first k tokens should print has been printed, and more.
PrintedTokens(k) == ~ PrintsIntMin => out = Joint(PrintSeqs(message), k)
Printed(k, more) == ~ PrintsIntMin => out = Joint(PrintSeqs(message), k) \o more

Scans(k) == pc = "scan" /\ AtToken(k) /\ ArgsFrom(k) /\ PrintedTokens(k)

\* Within the token after the first k.
InToken(k, t) ==
  k < Len(message) /\ message[k + 1] = t /\ AtToken(k) /\ ArgsFrom(k + 1)

\* The negated INT_MIN may still be INT_MIN.
StillIntMin(v) == v = INT_MIN /\ val = INT_MIN /\ divisor = 1

FindsDivisor(k, v) ==
  /\ pc = "divisor"
  /\ InToken(k, Signed(v))
  /\ \/ /\ divisor \in Tens /\ (divisor = 1 \/ divisor <= val)
        /\ val = Magnitude(v)
        /\ Printed(k, Sign(v))
     \/ StillIntMin(v)

PutsDigits(k, v) ==
  /\ pc = "digits"
  /\ InToken(k, Signed(v))
  /\ \/ divisor = 0 /\ PrintedTokens(k + 1)
     \/ /\ divisor \in Tens /\ (divisor = 1 \/ divisor <= Magnitude(v))
        /\ val = Magnitude(v) % (10 * divisor)
        /\ Printed(k, Sign(v) \o Leading(Magnitude(v), 10 * divisor))
     \/ StillIntMin(v)

PutsHex(k) ==
  /\ pc = "hex" /\ val \in INT_MIN .. INT_MAX
  /\ InToken(k, Bits(val))
  /\ Printed(k, SubSeq(Bits(val).prints, 1, BITS \div 4 - 1 - i))

HasReturned ==
  pc = "return" /\ args = <<>> /\ (~ PrintsIntMin => out = PrintsOf(message))

Progress ==
  \/ \E k \in 0 .. Len(message) : Scans(k)
  \/ \E k \in 0 .. Len(message), v \in INT_MIN .. INT_MAX : FindsDivisor(k, v) \/ PutsDigits(k, v)
  \/ \E k \in 0 .. Len(message) : PutsHex(k)
  \/ HasReturned

PrintfInv == PrintfTypeOK /\ IsMessage(message) /\ args \in Seq(Arg) /\ Progress

\* The places of %d go up to the largest int, which is not a multiple of ten.
LEMMA DivisorIsInt ==
  ASSUME NEW t \in Tens, t <= INT_MAX + 1
  PROVE  t \in 1 .. INT_MAX
<1>1. t \in Nat \ {0}
  BY TensStep
<1>2. CASE t = 1
  BY <1>2, IntRange
<1>3. CASE t # 1
  <2>1. PICK u \in Tens : t = 10 * u
    BY <1>3, TensStep
  <2>2. u \in Nat
    BY TensStep
  <2>3. t % 5 = 0
    BY <2>1, <2>2
  <2>4. t # INT_MAX + 1
    BY <2>3, IntRange
  <2> QED
    BY <1>1, <2>4, IntRange
<1> QED
  BY <1>2, <1>3

\* A message that is called begins to be scanned.
LEMMA CallStarts ==
  ASSUME IsMessage(message), at = 1, args = ArgsOf(message), pc = "scan", out = <<>>,
         val \in INT_MIN .. INT_MAX + 1, divisor \in 0 .. INT_MAX, i \in -1 .. BITS \div 4 - 1
  PROVE  PrintfInv
<1>1. Len(message) \in Nat
  BY MessageTypes
<1>2. Joint(CharSeqs(message), 0) = <<>> /\ Len(<<>>) = 0
  BY EndPosition
<1>3. args \in Seq(Arg) /\ Joint(ArgSeqs(message), 0) \o args = ArgsOf(message)
  <2>1. ArgsOf(message) \in Seq(Arg) /\ Joint(ArgSeqs(message), 0) = <<>>
    BY EndPosition
  <2>2. <<>> \o ArgsOf(message) = ArgsOf(message)
    BY <2>1, ConcatEmptySeq
  <2> QED
    BY <2>1, <2>2
<1>4. Joint(PrintSeqs(message), 0) = <<>>
  BY EndPosition
<1>5. Scans(0)
  BY <1>2, <1>3, <1>4 DEF Scans, AtToken, ArgsFrom, PrintedTokens
<1>6. at \in 1 .. Len(format) + 1
  BY EndPosition DEF format
<1> QED
  BY <1>1, <1>3, <1>5, <1>6 DEF PrintfInv, PrintfTypeOK, Progress

\* Nothing has been called.
LEMMA IdleInv == PrintfIdle => PrintfInv
<1> SUFFICES ASSUME PrintfIdle PROVE PrintfInv
  OBVIOUS
<1>1. IsMessage(message)
  BY DEF PrintfIdle, IsMessage
<1>2. PrintsOf(message) = <<>>
  <2>1. Len(message) = 0 /\ Joint(PrintSeqs(message), 0) = <<>>
        /\ Joint(PrintSeqs(message), Len(message)) = PrintsOf(message)
    BY <1>1, EndPosition DEF PrintfIdle
  <2> QED
    BY <2>1
<1>3. at \in 1 .. Len(format) + 1
  BY <1>1, EndPosition DEF format, PrintfIdle
<1>4. HasReturned /\ args \in Seq(Arg)
  BY <1>2 DEF HasReturned, PrintfIdle
<1>5. 0 \in INT_MIN .. INT_MAX + 1 /\ 0 \in 0 .. INT_MAX /\ -1 \in -1 .. BITS \div 4 - 1
  BY IntRange, PrintfAssumption
<1> QED
  BY <1>1, <1>3, <1>4, <1>5 DEF PrintfInv, PrintfTypeOK, Progress, PrintfIdle

LEMMA ScansTokens ==
  ASSUME PrintfInv, pc = "scan"
  PROVE  \E k \in 0 .. Len(message) : Scans(k)
BY DEF PrintfInv, Progress, FindsDivisor, PutsDigits, PutsHex, HasReturned

\* The token that is scanned next.
LEMMA NextToken ==
  ASSUME PrintfInv, NEW k \in 0 .. Len(message), Scans(k), at <= Len(format),
         NEW t, t = message[k + 1]
  PROVE  /\ k \in 0 .. Len(message) - 1 /\ at \in Nat \ {0} /\ Len(format) \in Nat
         /\ Len(t.chars) \in {1, 2}
         /\ Len(Joint(CharSeqs(message), k + 1)) + 1 = at + Len(t.chars)
         /\ at + Len(t.chars) <= Len(format) + 1
         /\ \A j \in 1 .. Len(t.chars) : format[at + j - 1] = t.chars[j]
         /\ k + 1 = Len(message) => at + Len(t.chars) = Len(format) + 1
<1>1. IsMessage(message) /\ Len(message) \in Nat
  BY MessageTypes DEF PrintfInv
<1>2. PICK p : p = Len(Joint(CharSeqs(message), k))
  OBVIOUS
<1>3. at = p + 1
  BY <1>2 DEF Scans, AtToken
<1>4. Len(Joint(CharSeqs(message), Len(message))) = Len(format) /\ Len(format) \in Nat
  BY <1>1, EndPosition DEF format
<1>5. k # Len(message)
  BY <1>2, <1>3, <1>4
<1>6. k \in 0 .. Len(message) - 1
  BY <1>1, <1>5
<1>7. PICK cs : cs = message[k + 1].chars
  OBVIOUS
<1>7a. TokenAt(message, k, p, cs)
  <2>1. TokenAt(message, k, Len(Joint(CharSeqs(message), k)), message[k + 1].chars)
    BY <1>1, <1>6, Positions
  <2> QED
    BY <1>2, <1>7, <2>1
<1>8. /\ p \in Nat /\ Len(cs) \in {1, 2}
      /\ p + Len(cs) <= Len(format)
      /\ Len(Joint(CharSeqs(message), k + 1)) = p + Len(cs)
      /\ \A j \in 1 .. Len(cs) : format[p + j] = cs[j]
  BY <1>7a DEF TokenAt, format
<1>9. t.chars = cs
  BY <1>7
<1>10. \A j \in 1 .. Len(cs) : at + j - 1 = p + j
  BY <1>3, <1>8
<1>11. k + 1 = Len(message) => at + Len(cs) = Len(format) + 1
  BY <1>3, <1>4, <1>8
<1> QED
  BY <1>3, <1>4, <1>6, <1>8, <1>9, <1>10, <1>11
-----------------------------------------------------------------------------
(* printf: which token a step is about *)

\* Append as a concatenation.
LEMMA AppendedChar ==
  ASSUME NEW q \in Seq(Char), NEW c \in Char
  PROVE  Append(q, c) = q \o <<c>>
BY AppendIsConcat

\* Tokens by their first two characters.
LEMMA TokenByChars ==
  ASSUME NEW t, IsToken(t) \/ t = Dangling
  PROVE  /\ t.chars[1] # "%" => \E c \in Char : t = Literal(c)
         /\ t.chars[1] = "%" /\ Len(t.chars) = 1 => t = Dangling
         /\ t.chars[1] = "%" /\ Len(t.chars) = 2 =>
              \/ /\ t.chars[2] \in Char \ {"s", "d", "x"}
                 /\ t = Escaped(t.chars[2])
              \/ t.chars[2] = "s" /\ t = Text(t.prints) /\ t.prints \in Seq(Char)
              \/ t.chars[2] = "d" /\ \E v \in INT_MIN .. INT_MAX : t = Signed(v)
              \/ t.chars[2] = "x" /\ \E v \in INT_MIN .. INT_MAX : t = Bits(v)
<1>1. CASE t \in {Literal(c) : c \in Char \ {"%"}}
  <2>1. PICK c \in Char \ {"%"} : t = Literal(c)
    BY <1>1
  <2>2. t.chars = <<c>>
    BY <2>1 DEF Literal
  <2>3. t.chars[1] # "%"
    BY <2>2
  <2> QED
    BY <2>1, <2>3
<1>2. CASE t \in {Escaped(c) : c \in Char \ {"s", "d", "x"}}
  <2>1. PICK c \in Char \ {"s", "d", "x"} : t = Escaped(c)
    BY <1>2
  <2>2. t.chars = <<"%", c>>
    BY <2>1 DEF Escaped
  <2>3. t.chars[1] = "%" /\ t.chars[2] = c /\ Len(t.chars) = 2
    BY <2>2
  <2> QED
    BY <2>1, <2>3
<1>3. CASE t \in {Signed(v) : v \in INT_MIN .. INT_MAX}
  <2>1. PICK v \in INT_MIN .. INT_MAX : t = Signed(v)
    BY <1>3
  <2>2. t.chars = <<"%", "d">>
    BY <2>1 DEF Signed
  <2>3. t.chars[1] = "%" /\ t.chars[2] = "d" /\ Len(t.chars) = 2
    BY <2>2
  <2> QED
    BY <2>1, <2>3
<1>4. CASE t \in {Bits(v) : v \in INT_MIN .. INT_MAX}
  <2>1. PICK v \in INT_MIN .. INT_MAX : t = Bits(v)
    BY <1>4
  <2>2. t.chars = <<"%", "x">>
    BY <2>1 DEF Bits
  <2>3. t.chars[1] = "%" /\ t.chars[2] = "x" /\ Len(t.chars) = 2
    BY <2>2
  <2> QED
    BY <2>1, <2>3
<1>5. CASE t = Text(t.prints) /\ t.prints \in Seq(Char)
  <2>1. t.chars = <<"%", "s">>
    BY <1>5 DEF Text
  <2>2. t.chars[1] = "%" /\ t.chars[2] = "s" /\ Len(t.chars) = 2
    BY <2>1
  <2> QED
    BY <1>5, <2>2
<1>6. CASE t = Dangling
  <2>1. t.chars = <<"%">>
    BY <1>6 DEF Dangling
  <2>2. t.chars[1] = "%" /\ Len(t.chars) = 1
    BY <2>1
  <2> QED
    BY <1>6, <2>2
<1> QED
  BY <1>1, <1>2, <1>3, <1>4, <1>5, <1>6 DEF IsToken, SimpleTokens

\* The token of a specifier.
LEMMA SpecifierToken ==
  ASSUME PrintfInv, NEW k \in 0 .. Len(message), Scans(k), NEW c, Specifier(c)
  PROVE  /\ k \in 0 .. Len(message) - 1
         /\ at + 2 = Len(Joint(CharSeqs(message), k + 1)) + 1
         /\ at + 2 \in 1 .. Len(format) + 1 /\ at \in Nat
         /\ c \notin {"s", "d", "x"} => c \in Char /\ message[k + 1] = Escaped(c)
         /\ c = "s" => \E q \in Seq(Char) : message[k + 1] = Text(q)
         /\ c = "d" => \E v \in INT_MIN .. INT_MAX : message[k + 1] = Signed(v)
         /\ c = "x" => \E v \in INT_MIN .. INT_MAX : message[k + 1] = Bits(v)
<1>1. at <= Len(format) /\ format[at] = "%" /\ at < Len(format) /\ format[at + 1] = c
  BY DEF Specifier, Scanning
<1>2. PICK t : t = message[k + 1]
  OBVIOUS
<1>3. /\ k \in 0 .. Len(message) - 1 /\ at \in Nat \ {0} /\ Len(format) \in Nat
      /\ Len(t.chars) \in {1, 2}
      /\ Len(Joint(CharSeqs(message), k + 1)) + 1 = at + Len(t.chars)
      /\ at + Len(t.chars) <= Len(format) + 1
      /\ \A j \in 1 .. Len(t.chars) : format[at + j - 1] = t.chars[j]
      /\ k + 1 = Len(message) => at + Len(t.chars) = Len(format) + 1
  BY <1>1, <1>2, NextToken
<1>4. IsToken(t) \/ (t = Dangling /\ k + 1 = Len(message))
  BY <1>2, <1>3, TokenFields DEF PrintfInv
<1>5. t.chars[1] = "%"
  <2>1. PICK l : l = Len(t.chars)
    OBVIOUS
  <2>2. l \in {1, 2} /\ at \in Nat
    BY <1>3, <2>1
  <2>3. 1 \in 1 .. l /\ at + 1 - 1 = at
    BY ONLY <2>2
  <2> QED
    BY <1>1, <1>3, <2>1, <2>3
<1>6. Len(t.chars) = 2
  <2> SUFFICES ASSUME Len(t.chars) = 1 PROVE FALSE
    BY <1>3
  <2>1. t = Dangling
    BY <1>4, <1>5, TokenByChars
  <2>2. ~ IsToken(t)
    <3>1. t.chars = <<"%">> /\ t.prints = <<"%">>
      BY <2>1 DEF Dangling
    <3>2. \A q : Text(q).chars = <<"%", "s">>
      BY DEF Text
    <3>3. \A q : Signed(q).chars = <<"%", "d">> /\ Bits(q).chars = <<"%", "x">>
      BY DEF Signed, Bits
    <3>4. \A q : Literal(q).chars = <<q>> /\ Escaped(q).chars = <<"%", q>>
      BY DEF Literal, Escaped
    <3>5. \A q : <<"%">> # <<"%", q>> /\ (q # "%" => <<"%">> # <<q>>)
      OBVIOUS
    <3> QED
      BY <3>1, <3>2, <3>3, <3>4, <3>5 DEF IsToken, SimpleTokens
  <2>3. k + 1 = Len(message)
    BY <1>4, <2>2
  <2> QED
    BY <1>1, <1>3, <2>3
<1>7. t.chars[2] = c
  <2>1. 2 \in 1 .. Len(t.chars) /\ at + 2 - 1 = at + 1
    BY <1>3, <1>6
  <2> QED
    BY <1>1, <1>3, <2>1
<1>8. at + 2 = Len(Joint(CharSeqs(message), k + 1)) + 1 /\ at + 2 \in 1 .. Len(format) + 1
  BY <1>3, <1>6
<1>9. \/ c \in Char \ {"s", "d", "x"} /\ t = Escaped(c)
      \/ c = "s" /\ t = Text(t.prints) /\ t.prints \in Seq(Char)
      \/ c = "d" /\ \E v \in INT_MIN .. INT_MAX : t = Signed(v)
      \/ c = "x" /\ \E v \in INT_MIN .. INT_MAX : t = Bits(v)
  BY <1>4, <1>5, <1>6, <1>7, TokenByChars
<1> QED
  BY <1>2, <1>3, <1>8, <1>9

\* Its argument is the next.
LEMMA NextArgument ==
  ASSUME PrintfInv, NEW k \in 0 .. Len(message) - 1, ArgsFrom(k),
         NEW a, message[k + 1].args = <<a>>
  PROVE  /\ Head(args) = a /\ Tail(args) \in Seq(Arg)
         /\ Joint(ArgSeqs(message), k + 1) \o Tail(args) = ArgsOf(message)
<1>1. IsMessage(message) /\ args \in Seq(Arg)
  BY DEF PrintfInv
<1>2. PICK p \in Seq(Arg) : p = Joint(ArgSeqs(message), k)
  BY <1>1, TokenFields
<1>3. Joint(ArgSeqs(message), k + 1) = p \o <<a>> /\ <<a>> \in Seq(Arg)
      /\ k + 1 \in 0 .. Len(message)
  BY <1>1, <1>2, TokenFields
<1>4. a \in Arg
  <2>1. Len(<<a>>) = 1 /\ <<a>>[1] = a
    OBVIOUS
  <2> QED
    BY <1>3, <2>1, ElementOfSeq
<1>5. PICK r \in Seq(Arg) : ArgsOf(message) = Joint(ArgSeqs(message), k + 1) \o r
  <2>1. /\ ArgSeqs(message) \in Seq(Seq(Arg)) /\ Len(ArgSeqs(message)) = Len(message)
        /\ ArgsOf(message) = FlattenSeq(ArgSeqs(message))
    BY <1>1, MessageTypes
  <2> QED
    BY <1>3, <2>1, JointIsPrefix
<1>6. PICK w \in Seq(Arg) : w = <<a>> \o r
  BY <1>3, ConcatProperties
<1>7. Associates(p, <<a>>, r)
  BY <1>3, Associativity
<1>8. ArgsOf(message) = p \o w
  BY ONLY <1>3, <1>5, <1>6, <1>7 DEF Associates
<1>9. p \o args = p \o w
  BY <1>2, <1>8 DEF ArgsFrom
<1>10. args = w
  BY <1>1, <1>9, Cancel
<1>11. Head(w) = a /\ Tail(w) = r
  BY <1>4, <1>6, FirstAndRest
<1> QED
  BY <1>5, <1>10, <1>11

\* A token without arguments takes none, and is done when it is printed.
LEMMA NoArgument ==
  ASSUME PrintfInv, NEW k \in 0 .. Len(message) - 1, message[k + 1].args = <<>>
  PROVE  Joint(ArgSeqs(message), k + 1) = Joint(ArgSeqs(message), k)
<1>1. /\ Joint(ArgSeqs(message), k + 1) = Joint(ArgSeqs(message), k) \o <<>>
      /\ Joint(ArgSeqs(message), k) \in Seq(Arg)
  BY TokenFields DEF PrintfInv
<1> QED
  BY <1>1, ConcatEmptySeq

\* After a token comes the next, or the end.
LEMMA TokenDone ==
  ASSUME PrintfInv, NEW k \in 0 .. Len(message) - 1, message' = message,
         pc' = "scan", at' = Len(Joint(CharSeqs(message), k + 1)) + 1,
         at' \in 1 .. Len(format) + 1,
         args' \in Seq(Arg), Joint(ArgSeqs(message), k + 1) \o args' = ArgsOf(message),
         ~ PrintsIntMin => out' = Joint(PrintSeqs(message), k + 1),
         UNCHANGED <<val, divisor, i>>
  PROVE  PrintfInv'
<1>1. k + 1 \in 0 .. Len(message)
  BY MessageTypes DEF PrintfInv
<1>2. PrintfTypeOK' /\ IsMessage(message')
  BY DEF PrintfInv, PrintfTypeOK, format
<1>3. Scans(k + 1)'
  BY DEF Scans, AtToken, ArgsFrom, PrintedTokens, PrintsIntMin
<1>4. k + 1 \in 0 .. Len(message')
  BY <1>1
<1> QED
  BY <1>2, <1>3, <1>4 DEF PrintfInv, Progress

-----------------------------------------------------------------------------
(* printf: its steps *)

\* At the end of the format every token has been scanned.
LEMMA AtTheEnd ==
  ASSUME PrintfInv, NEW k \in 0 .. Len(message), Scans(k), at = Len(format) + 1
  PROVE  args = <<>> /\ (~ PrintsIntMin => out = PrintsOf(message))
<1>1. IsMessage(message) /\ args \in Seq(Arg)
  BY DEF PrintfInv
<1>2. PICK p : p = Len(Joint(CharSeqs(message), k))
  OBVIOUS
<1>3. at = p + 1
  BY <1>2 DEF Scans, AtToken
<1>4. k = Len(message)
  <2> SUFFICES ASSUME k # Len(message) PROVE FALSE
    OBVIOUS
  <2>1. k \in 0 .. Len(message) - 1
    BY <1>1, MessageTypes
  <2>2. PICK cs : cs = message[k + 1].chars
    OBVIOUS
  <2>3. TokenAt(message, k, p, cs)
    <3>1. TokenAt(message, k, Len(Joint(CharSeqs(message), k)), message[k + 1].chars)
      BY <1>1, <2>1, Positions
    <3> QED
      BY <1>2, <2>2, <3>1
  <2>4. p \in Nat /\ Len(cs) \in {1, 2} /\ Len(format) \in Nat /\ p + Len(cs) <= Len(format)
    BY <2>3 DEF TokenAt, format
  <2>5. PICK l : l = Len(cs)
    OBVIOUS
  <2>6. l \in {1, 2}
    BY <2>4, <2>5
  <2>7. p + l <= Len(format) /\ p + 1 = Len(format) + 1
    BY <1>3, <2>4, <2>5
  <2> QED
    BY ONLY <2>4, <2>6, <2>7
<1>5. /\ Joint(PrintSeqs(message), Len(message)) = PrintsOf(message)
      /\ Joint(ArgSeqs(message), Len(message)) = ArgsOf(message)
      /\ ArgsOf(message) \in Seq(Arg)
  BY <1>1, EndPosition
<1>6. ArgsOf(message) \o args = ArgsOf(message)
  BY <1>4, <1>5 DEF Scans, ArgsFrom
<1>7. ArgsOf(message) \o <<>> = ArgsOf(message) /\ <<>> \in Seq(Arg)
  BY <1>5, ConcatEmptySeq, EmptySeq
<1>8. args = <<>>
  BY <1>1, <1>5, <1>6, <1>7, Cancel
<1> QED
  BY <1>4, <1>5, <1>8 DEF Scans, PrintedTokens

LEMMA EndOfFormatInv == PrintfInv /\ EndOfFormat => PrintfInv'
<1> SUFFICES ASSUME PrintfInv, EndOfFormat PROVE PrintfInv'
  OBVIOUS
<1>1. PICK k \in 0 .. Len(message) : Scans(k)
  BY ScansTokens DEF EndOfFormat
<1>2. args = <<>> /\ (~ PrintsIntMin => out = PrintsOf(message))
  BY <1>1, AtTheEnd DEF EndOfFormat
<1>3. HasReturned'
  BY <1>2 DEF EndOfFormat, HasReturned, PrintsIntMin
<1>4. PrintfTypeOK' /\ IsMessage(message') /\ args' \in Seq(Arg)
  BY DEF PrintfInv, PrintfTypeOK, EndOfFormat, format
<1> QED
  BY <1>3, <1>4 DEF PrintfInv, Progress

\* A printed character completes a token that prints no more.
LEMMA OneCharacter ==
  ASSUME PrintfInv, NEW k \in 0 .. Len(message) - 1, Scans(k),
         NEW c \in Char, message[k + 1].prints = <<c>>
  PROVE  ~ PrintsIntMin => Append(out, c) = Joint(PrintSeqs(message), k + 1)
<1>1. /\ Joint(PrintSeqs(message), k + 1) = Joint(PrintSeqs(message), k) \o <<c>>
      /\ Joint(PrintSeqs(message), k) \in Seq(Char)
  BY TokenFields DEF PrintfInv
<1>2. PICK q \in Seq(Char) : q = Joint(PrintSeqs(message), k)
  BY <1>1
<1>3. Append(q, c) = q \o <<c>>
  BY AppendedChar
<1> QED
  BY <1>1, <1>2, <1>3 DEF Scans, PrintedTokens

LEMMA RegularCharacterInv == PrintfInv /\ RegularCharacter => PrintfInv'
<1> SUFFICES ASSUME PrintfInv, RegularCharacter PROVE PrintfInv'
  OBVIOUS
<1>1. PICK k \in 0 .. Len(message) : Scans(k)
  BY ScansTokens DEF RegularCharacter, Scanning
<1>2. at <= Len(format) /\ format[at] # "%"
  BY DEF RegularCharacter, Scanning
<1>3. PICK t : t = message[k + 1]
  OBVIOUS
<1>4. /\ k \in 0 .. Len(message) - 1 /\ at \in Nat \ {0} /\ Len(format) \in Nat
      /\ Len(t.chars) \in {1, 2}
      /\ Len(Joint(CharSeqs(message), k + 1)) + 1 = at + Len(t.chars)
      /\ at + Len(t.chars) <= Len(format) + 1
      /\ \A j \in 1 .. Len(t.chars) : format[at + j - 1] = t.chars[j]
  BY <1>1, <1>2, <1>3, NextToken
<1>5. IsToken(t) \/ t = Dangling
  BY <1>3, <1>4, TokenFields DEF PrintfInv
<1>6. t.chars[1] = format[at]
  <2>1. PICK l : l = Len(t.chars)
    OBVIOUS
  <2>2. l \in {1, 2} /\ at \in Nat
    BY <1>4, <2>1
  <2>3. 1 \in 1 .. l /\ at + 1 - 1 = at
    BY ONLY <2>2
  <2> QED
    BY <1>4, <2>1, <2>3
<1>7. PICK c \in Char : t = Literal(c)
  BY <1>2, <1>5, <1>6, TokenByChars
<1>8. t.chars = <<c>> /\ t.args = <<>> /\ t.prints = <<c>> /\ Len(t.chars) = 1 /\ t.chars[1] = c
  <2>1. t.chars = <<c>> /\ t.args = <<>> /\ t.prints = <<c>>
    BY <1>7 DEF Literal
  <2> QED
    BY <2>1
<1>9. Joint(ArgSeqs(message), k + 1) = Joint(ArgSeqs(message), k)
  BY <1>3, <1>4, <1>8, NoArgument
<1>10. ~ PrintsIntMin => Append(out, c) = Joint(PrintSeqs(message), k + 1)
  BY <1>1, <1>3, <1>4, <1>8, OneCharacter
<1>11. at + 1 = Len(Joint(CharSeqs(message), k + 1)) + 1 /\ at + 1 \in 1 .. Len(format) + 1
  BY <1>4, <1>8
<1>12. /\ message' = message /\ pc' = "scan" /\ at' = at + 1
       /\ out' = Append(out, c) /\ args' = args /\ UNCHANGED <<val, divisor, i>>
  BY <1>6, <1>8 DEF RegularCharacter, Scanning, Put
<1>13. args' \in Seq(Arg) /\ Joint(ArgSeqs(message), k + 1) \o args' = ArgsOf(message)
  BY <1>1, <1>9, <1>12 DEF PrintfInv, Scans, ArgsFrom
<1> QED
  BY <1>4, <1>10, <1>11, <1>12, <1>13, TokenDone

LEMMA PercentAtEndInv == PrintfInv /\ PercentAtEnd => PrintfInv'
<1> SUFFICES ASSUME PrintfInv, PercentAtEnd PROVE PrintfInv'
  OBVIOUS
<1>1. PICK k \in 0 .. Len(message) : Scans(k)
  BY ScansTokens DEF PercentAtEnd, Scanning
<1>2. at <= Len(format) /\ format[at] = "%" /\ at = Len(format)
  BY DEF PercentAtEnd, Scanning
<1>3. PICK t : t = message[k + 1]
  OBVIOUS
<1>4. /\ k \in 0 .. Len(message) - 1 /\ at \in Nat \ {0} /\ Len(format) \in Nat
      /\ Len(t.chars) \in {1, 2}
      /\ Len(Joint(CharSeqs(message), k + 1)) + 1 = at + Len(t.chars)
      /\ at + Len(t.chars) <= Len(format) + 1
      /\ \A j \in 1 .. Len(t.chars) : format[at + j - 1] = t.chars[j]
  BY <1>1, <1>2, <1>3, NextToken
<1>5. IsToken(t) \/ t = Dangling
  BY <1>3, <1>4, TokenFields DEF PrintfInv
<1>6. t.chars[1] = "%" /\ Len(t.chars) = 1
  <2>1. PICK l : l = Len(t.chars)
    OBVIOUS
  <2>2. l \in {1, 2} /\ at \in Nat /\ at + l <= at + 1
    BY <1>2, <1>4, <2>1
  <2>3. 1 \in 1 .. l /\ at + 1 - 1 = at /\ l = 1
    BY ONLY <2>2
  <2> QED
    BY <1>2, <1>4, <2>1, <2>3
<1>7. t = Dangling
  BY <1>5, <1>6, TokenByChars
<1>8. t.args = <<>> /\ t.prints = <<"%">> /\ "%" \in Char
  BY <1>7, MessagesAssumption DEF Dangling
<1>9. k + 1 = Len(message)
  <2>1. Len(Joint(CharSeqs(message), k + 1)) = Len(format)
    BY <1>2, <1>4, <1>6
  <2> SUFFICES ASSUME k + 1 # Len(message) PROVE FALSE
    OBVIOUS
  <2>2. k + 1 \in 0 .. Len(message) - 1
    BY <1>4, MessageTypes DEF PrintfInv
  <2>3. PICK cs : cs = message[k + 1 + 1].chars
    OBVIOUS
  <2>4. TokenAt(message, k + 1, Len(Joint(CharSeqs(message), k + 1)), message[k + 1 + 1].chars)
    BY <2>2, Positions DEF PrintfInv
  <2>5. TokenAt(message, k + 1, Len(format), cs)
    BY <2>1, <2>3, <2>4
  <2>6. Len(cs) \in {1, 2} /\ Len(format) \in Nat /\ Len(format) + Len(cs) <= Len(format)
    BY <2>5 DEF TokenAt, format
  <2> QED
    BY <2>6
<1>10. ~ PrintsIntMin => Append(out, "%") = Joint(PrintSeqs(message), k + 1)
  BY <1>1, <1>3, <1>4, <1>8, OneCharacter
<1>11. /\ Joint(PrintSeqs(message), Len(message)) = PrintsOf(message)
       /\ Joint(ArgSeqs(message), Len(message)) = ArgsOf(message)
       /\ ArgsOf(message) \in Seq(Arg) /\ args \in Seq(Arg)
  BY EndPosition DEF PrintfInv
<1>12. Joint(ArgSeqs(message), k + 1) = Joint(ArgSeqs(message), k)
  BY <1>3, <1>4, <1>8, NoArgument
<1>13. ArgsOf(message) \o args = ArgsOf(message)
  BY <1>1, <1>9, <1>11, <1>12 DEF Scans, ArgsFrom
<1>14. ArgsOf(message) \o <<>> = ArgsOf(message) /\ <<>> \in Seq(Arg)
  BY <1>11, ConcatEmptySeq, EmptySeq
<1>15. args = <<>>
  BY <1>11, <1>13, <1>14, Cancel
<1>16. HasReturned'
  BY <1>9, <1>10, <1>11, <1>15 DEF HasReturned, PercentAtEnd, Put, PrintsIntMin
<1>17. PrintfTypeOK' /\ IsMessage(message') /\ args' \in Seq(Arg)
  BY DEF PrintfInv, PrintfTypeOK, PercentAtEnd, format
<1> QED
  BY <1>16, <1>17 DEF PrintfInv, Progress

LEMMA OtherSpecifierInv == PrintfInv /\ OtherSpecifier => PrintfInv'
<1> SUFFICES ASSUME PrintfInv, OtherSpecifier PROVE PrintfInv'
  OBVIOUS
<1>1. PICK c : /\ c \notin {"s", "d", "x"} /\ Specifier(c) /\ Put(c) /\ at' = at + 2
               /\ UNCHANGED <<message, args, pc, val, divisor, i>>
  BY DEF OtherSpecifier
<1>2. PICK k \in 0 .. Len(message) : Scans(k)
  BY <1>1, ScansTokens DEF Specifier, Scanning
<1>3. /\ k \in 0 .. Len(message) - 1
      /\ at + 2 = Len(Joint(CharSeqs(message), k + 1)) + 1
      /\ at + 2 \in 1 .. Len(format) + 1
      /\ c \in Char /\ message[k + 1] = Escaped(c)
  BY <1>1, <1>2, SpecifierToken
<1>4. message[k + 1].args = <<>> /\ message[k + 1].prints = <<c>>
  BY <1>3 DEF Escaped
<1>5. Joint(ArgSeqs(message), k + 1) = Joint(ArgSeqs(message), k)
  BY <1>3, <1>4, NoArgument
<1>6. ~ PrintsIntMin => Append(out, c) = Joint(PrintSeqs(message), k + 1)
  BY <1>2, <1>3, <1>4, OneCharacter
<1>7. args' \in Seq(Arg) /\ Joint(ArgSeqs(message), k + 1) \o args' = ArgsOf(message)
  BY <1>1, <1>2, <1>5 DEF PrintfInv, Scans, ArgsFrom
<1>8. message' = message /\ pc' = "scan" /\ UNCHANGED <<val, divisor, i>> /\ out' = Append(out, c)
  BY <1>1 DEF Specifier, Scanning, Put
<1> QED
  BY <1>1, <1>3, <1>6, <1>7, <1>8, TokenDone

LEMMA StringSpecifierInv == PrintfInv /\ StringSpecifier => PrintfInv'
<1> SUFFICES ASSUME PrintfInv, StringSpecifier PROVE PrintfInv'
  OBVIOUS
<1>1. Specifier("s")
  BY DEF StringSpecifier
<1>2. PICK k \in 0 .. Len(message) : Scans(k)
  BY <1>1, ScansTokens DEF Specifier, Scanning
<1>3. /\ k \in 0 .. Len(message) - 1
      /\ at + 2 = Len(Joint(CharSeqs(message), k + 1)) + 1
      /\ at + 2 \in 1 .. Len(format) + 1
      /\ \E q \in Seq(Char) : message[k + 1] = Text(q)
  BY <1>1, <1>2, SpecifierToken
<1>4. PICK q \in Seq(Char) : message[k + 1] = Text(q)
  BY <1>3
<1>5. message[k + 1].args = <<[str |-> q]>> /\ message[k + 1].prints = q
  BY <1>4 DEF Text
<1>6. /\ Head(args) = [str |-> q] /\ Tail(args) \in Seq(Arg)
      /\ Joint(ArgSeqs(message), k + 1) \o Tail(args) = ArgsOf(message)
  BY <1>2, <1>3, <1>5, NextArgument DEF Scans
<1>7. Head(args).str = q
  BY <1>6
<1>8. Joint(PrintSeqs(message), k + 1) = Joint(PrintSeqs(message), k) \o q
  BY <1>3, <1>5, TokenFields DEF PrintfInv
<1>9. /\ message' = message /\ pc' = "scan" /\ UNCHANGED <<val, divisor, i>>
      /\ out' = out \o q /\ args' = Tail(args) /\ at' = at + 2
  BY <1>1, <1>7 DEF StringSpecifier, Specifier, Scanning
<1>10. ~ PrintsIntMin => out' = Joint(PrintSeqs(message), k + 1)
  BY <1>2, <1>8, <1>9 DEF Scans, PrintedTokens
<1> QED
  BY <1>3, <1>6, <1>9, <1>10, TokenDone

LEMMA DecimalSpecifierInv == PrintfInv /\ DecimalSpecifier => PrintfInv'
<1> SUFFICES ASSUME PrintfInv, DecimalSpecifier PROVE PrintfInv'
  OBVIOUS
<1>1. Specifier("d")
  BY DEF DecimalSpecifier
<1>2. PICK k \in 0 .. Len(message) : Scans(k)
  BY <1>1, ScansTokens DEF Specifier, Scanning
<1>3. k \in 0 .. Len(message) - 1 /\ \E v \in INT_MIN .. INT_MAX : message[k + 1] = Signed(v)
  BY <1>1, <1>2, SpecifierToken
<1>4. PICK v \in INT_MIN .. INT_MAX : message[k + 1] = Signed(v)
  BY <1>3
<1>5. message[k + 1].args = <<[int |-> v]>>
  BY <1>4 DEF Signed
<1>6. /\ Head(args) = [int |-> v] /\ Tail(args) \in Seq(Arg)
      /\ Joint(ArgSeqs(message), k + 1) \o Tail(args) = ArgsOf(message)
  BY <1>2, <1>3, <1>5, NextArgument DEF Scans
<1>7. Head(args).int = v
  BY <1>6
<1>8. /\ UNCHANGED <<message, at, i>> /\ pc' = "divisor" /\ divisor' = 1 /\ args' = Tail(args)
      /\ IF v < 0 THEN Put("-") /\ val' \in Negated(v) ELSE val' = v /\ UNCHANGED out
  BY <1>7 DEF DecimalSpecifier
<1>9. v \in Int /\ Len(message) \in Nat
  BY IntRange, MessageTypes DEF PrintfInv
<1>10. InToken(k, Signed(v))'
  <2>1. k < Len(message)
    BY <1>3, <1>9
  <2>2. AtToken(k)' /\ ArgsFrom(k + 1)'
    BY <1>2, <1>6, <1>8 DEF Scans, AtToken, ArgsFrom
  <2> QED
    BY <1>4, <1>8, <2>1, <2>2 DEF InToken
<1>11. Printed(k, Sign(v))'
  <2>1. /\ Joint(PrintSeqs(message), k) \in Seq(Char)
    BY <1>3, TokenFields DEF PrintfInv
  <2>2. PICK q \in Seq(Char) : q = Joint(PrintSeqs(message), k)
    BY <2>1
  <2>3. "-" \in Char
    BY MessagesAssumption
  <2>4. Append(q, "-") = q \o <<"-">> /\ q \o <<>> = q
    BY <2>3, AppendedChar, ConcatEmptySeq
  <2> QED
    BY <1>2, <1>8, <2>2, <2>4 DEF Printed, PrintedTokens, Scans, Put, Sign, PrintsIntMin
<1>12. 1 \in Tens
  <2>1. TenTo[0] = 1 /\ 0 \in Nat
    BY PowersOfTen
  <2> QED
    BY <2>1 DEF Tens
<1>13. (val' = Magnitude(v)) \/ (v = INT_MIN /\ val' = INT_MIN)
  BY <1>8, <1>9, IntRange DEF Negated, Magnitude
<1>14. FindsDivisor(k, v)'
  BY <1>8, <1>10, <1>11, <1>12, <1>13 DEF FindsDivisor, StillIntMin
<1>15. val' \in INT_MIN .. INT_MAX + 1 /\ divisor' \in 0 .. INT_MAX
  BY <1>8, <1>13, Magnitudes, IntRange
<1>16. PrintfTypeOK' /\ IsMessage(message') /\ args' \in Seq(Arg)
  BY <1>6, <1>8, <1>15 DEF PrintfInv, PrintfTypeOK, format
<1>17. k \in 0 .. Len(message')
  BY <1>8
<1> QED
  BY <1>14, <1>16, <1>17 DEF PrintfInv, Progress

LEMMA FindsADivisor ==
  ASSUME PrintfInv, pc = "divisor"
  PROVE  \E k \in 0 .. Len(message), v \in INT_MIN .. INT_MAX : FindsDivisor(k, v)
BY DEF PrintfInv, Progress, Scans, PutsDigits, PutsHex, HasReturned

LEMMA PutsItsDigits ==
  ASSUME PrintfInv, pc = "digits"
  PROVE  \E k \in 0 .. Len(message), v \in INT_MIN .. INT_MAX : PutsDigits(k, v)
BY DEF PrintfInv, Progress, Scans, FindsDivisor, PutsHex, HasReturned

LEMMA GrowDivisorInv == PrintfInv /\ GrowDivisor => PrintfInv'
<1> SUFFICES ASSUME PrintfInv, GrowDivisor PROVE PrintfInv'
  OBVIOUS
<1>1. PICK k \in 0 .. Len(message), v \in INT_MIN .. INT_MAX : FindsDivisor(k, v)
  BY FindsADivisor DEF GrowDivisor
<1>2. /\ pc = "divisor" /\ UNCHANGED <<message, at, args, val, i, out>>
      /\ IF DivisorFound THEN pc' = "digits" /\ UNCHANGED divisor
                         ELSE divisor' = divisor * 10 /\ UNCHANGED pc
  BY DEF GrowDivisor
<1>3. InToken(k, Signed(v))' /\ IsMessage(message') /\ args' \in Seq(Arg) /\ k \in 0 .. Len(message')
  BY <1>1, <1>2 DEF FindsDivisor, InToken, AtToken, ArgsFrom, PrintfInv
<1>4. INT_MIN \in Int /\ INT_MIN < 0 /\ INT_MAX \in Nat
  BY IntRange
<1>5. CASE StillIntMin(v)
  <2>1. DivisorFound
    BY <1>4, <1>5 DEF StillIntMin, DivisorFound
  <2>2. PutsDigits(k, v)'
    BY <1>2, <1>3, <1>5, <2>1 DEF PutsDigits, StillIntMin
  <2>3. PrintfTypeOK'
    BY <1>2, <2>1 DEF PrintfInv, PrintfTypeOK, format
  <2> QED
    BY <1>3, <2>2, <2>3 DEF PrintfInv, Progress
<1>6. CASE ~ StillIntMin(v)
  <2>1. /\ divisor \in Tens /\ (divisor = 1 \/ divisor <= val)
        /\ val = Magnitude(v) /\ Printed(k, Sign(v))
    BY <1>1, <1>6 DEF FindsDivisor
  <2>2. divisor \in Nat \ {0} /\ 10 * divisor \in Tens
    BY <2>1, TensStep
  <2>3. PICK w \in Nat : w = val
    BY <1>4, <2>1, Magnitudes
  <2>3a. w <= INT_MAX + 1
    BY <1>4, <2>1, <2>3, Magnitudes
  <2>4. PICK t \in Nat \ {0} : t = divisor
    BY <2>2
  <2>5. w = t * (w \div t) + (w % t) /\ w % t \in 0 .. t - 1 /\ w \div t \in Nat
    BY DivMod
  <2>6. CASE DivisorFound
    <3>1. w \div t < 10
      BY <2>3, <2>4, <2>6 DEF DivisorFound
    <3>2. w < 10 * t
      <4>1. PICK a \in 0 .. 9 : a = w \div t
        BY <2>5, <3>1
      <4>2. PICK r \in 0 .. t - 1 : r = w % t
        BY <2>5
      <4>3. w = a * t + r
        BY <2>5, <4>1, <4>2
      <4>4. a * t <= 9 * t
        BY <4>1
      <4> QED
        BY <4>2, <4>3, <4>4
    <3>3. w % (10 * t) = w /\ w \div (10 * t) = 0
      BY <3>2
    <3>4. Leading(w, 10 * t) = <<>>
      BY <3>3 DEF Leading
    <3>5. Sign(v) \o <<>> = Sign(v)
      BY SignedPrints, ConcatEmptySeq
    <3>6. Printed(k, Sign(v) \o Leading(w, 10 * t))'
      BY <1>2, <2>1, <3>4, <3>5 DEF Printed, PrintsIntMin
    <3>7. divisor' = t /\ val' = w /\ w = Magnitude(v) /\ pc' = "digits"
      BY <1>2, <2>1, <2>3, <2>4, <2>6
    <3>8. t \in Tens /\ (t = 1 \/ t <= w)
      BY <2>1, <2>3, <2>4
    <3>9. PutsDigits(k, v)'
      BY <1>3, <3>3, <3>6, <3>7, <3>8 DEF PutsDigits
    <3>10. PrintfTypeOK'
      BY <1>2, <2>6 DEF PrintfInv, PrintfTypeOK, format
    <3> QED
      BY <1>3, <3>9, <3>10 DEF PrintfInv, Progress
  <2>7. CASE ~ DivisorFound
    <3>1. w \div t >= 10
      BY <2>3, <2>4, <2>5, <2>7 DEF DivisorFound
    <3>2. 10 * t <= w
      <4>1. PICK a \in Nat : a = w \div t
        BY <2>5
      <4>2. PICK r \in 0 .. t - 1 : r = w % t
        BY <2>5
      <4>3. w = a * t + r /\ a >= 10
        BY <2>5, <3>1, <4>1, <4>2
      <4>4. a * t >= 10 * t
        BY <4>3
      <4> QED
        BY <4>2, <4>3, <4>4
    <3>3. divisor' = 10 * t /\ val' = w /\ pc' = "divisor" /\ out' = out /\ message' = message
      BY <1>2, <2>3, <2>4, <2>7
    <3>4. 10 * t \in Tens /\ 10 * t <= INT_MAX + 1
      BY <1>4, <2>2, <2>3a, <2>4, <3>2
    <3>5. 10 * t \in 1 .. INT_MAX
      BY <3>4, DivisorIsInt
    <3>6. Printed(k, Sign(v))'
      BY <2>1, <3>3 DEF Printed, PrintsIntMin
    <3>7. FindsDivisor(k, v)'
      BY <1>3, <2>1, <2>3, <3>2, <3>3, <3>4, <3>6 DEF FindsDivisor
    <3>8. PrintfTypeOK'
      BY <1>2, <2>7, <3>3, <3>5 DEF PrintfInv, PrintfTypeOK, format
    <3> QED
      BY <1>3, <3>7, <3>8 DEF PrintfInv, Progress
  <2> QED
    BY <2>6, <2>7
<1> QED
  BY <1>5, <1>6

LEMMA PrintedMore ==
  ASSUME PrintfInv, NEW k \in 0 .. Len(message) - 1, NEW q \in Seq(Char), NEW c \in Char,
         Printed(k, q), message' = message, out' = Append(out, c)
  PROVE  Printed(k, q \o <<c>>)'
<1>1. Joint(PrintSeqs(message), k) \in Seq(Char)
  BY TokenFields DEF PrintfInv
<1>2. PICK p \in Seq(Char) : p = Joint(PrintSeqs(message), k)
  BY <1>1
<1>3. PICK w \in Seq(Char) : w = p \o q
  BY ConcatProperties
<1>4. Append(w, c) = w \o <<c>>
  BY AppendedChar
<1>5. <<c>> \in Seq(Char)
  OBVIOUS
<1>6. Associates(p, q, <<c>>)
  BY <1>5, Associativity
<1>7. Append(p \o q, c) = p \o (q \o <<c>>)
  BY ONLY <1>3, <1>4, <1>6 DEF Associates
<1> QED
  BY <1>2, <1>7 DEF Printed, PrintsIntMin

\* The token that is left once it has been printed.
LEMMA TokenEnd ==
  ASSUME PrintfInv, NEW k \in 0 .. Len(message), NEW t, InToken(k, t), Len(t.chars) = 2
  PROVE  /\ k \in 0 .. Len(message) - 1
         /\ at + 2 = Len(Joint(CharSeqs(message), k + 1)) + 1
         /\ at + 2 \in 1 .. Len(format) + 1
<1>1. IsMessage(message) /\ Len(message) \in Nat
  BY MessageTypes DEF PrintfInv
<1>2. k \in 0 .. Len(message) - 1 /\ message[k + 1] = t
  BY <1>1 DEF InToken
<1>3. PICK p : p = Len(Joint(CharSeqs(message), k))
  OBVIOUS
<1>4. PICK cs : cs = message[k + 1].chars
  OBVIOUS
<1>5. TokenAt(message, k, p, cs)
  <2>1. TokenAt(message, k, Len(Joint(CharSeqs(message), k)), message[k + 1].chars)
    BY <1>1, <1>2, Positions
  <2> QED
    BY <1>3, <1>4, <2>1
<1>6. Len(cs) = 2 /\ at = p + 1
  BY <1>2, <1>3, <1>4 DEF InToken, AtToken
<1>7. /\ p \in Nat /\ Len(format) \in Nat /\ p + 2 <= Len(format)
      /\ Len(Joint(CharSeqs(message), k + 1)) = p + 2
  BY <1>5, <1>6 DEF TokenAt, format
<1> QED
  BY <1>2, <1>6, <1>7

LEMMA PutDigitInv == PrintfInv /\ PutDigit => PrintfInv'
<1> SUFFICES ASSUME PrintfInv, PutDigit PROVE PrintfInv'
  OBVIOUS
<1>1. PICK k \in 0 .. Len(message), v \in INT_MIN .. INT_MAX : PutsDigits(k, v)
  BY PutsItsDigits DEF PutDigit
<1>2. /\ pc = "digits" /\ divisor > 0 /\ UNCHANGED <<message, at, args, pc, i>>
      /\ out' = Append(out, Decimal(val \div divisor))
      /\ val' = val % divisor /\ divisor' = divisor \div 10
  BY DEF PutDigit, Put
<1>3. InToken(k, Signed(v))' /\ IsMessage(message') /\ args' \in Seq(Arg) /\ k \in 0 .. Len(message')
  BY <1>1, <1>2 DEF PutsDigits, InToken, AtToken, ArgsFrom, PrintfInv
<1>4. INT_MIN \in Int /\ INT_MIN < 0 /\ INT_MAX \in Nat
  BY IntRange
<1>5. k \in 0 .. Len(message) - 1 /\ message[k + 1] = Signed(v)
  BY <1>1, MessageTypes DEF PutsDigits, InToken, PrintfInv
<1>6. CASE StillIntMin(v)
  <2>1. val' = 0 /\ divisor' = 0
    BY <1>2, <1>4, <1>6 DEF StillIntMin
  <2>2. PrintsIntMin
    <3>1. k + 1 \in DOMAIN message
      BY <1>5, MessageTypes DEF PrintfInv
    <3> QED
      BY <1>5, <1>6, <3>1 DEF PrintsIntMin, StillIntMin
  <2>3. PrintsIntMin'
    BY <1>2, <2>2 DEF PrintsIntMin
  <2>4. PutsDigits(k, v)'
    BY <1>2, <1>3, <2>1, <2>3 DEF PutsDigits, PrintedTokens
  <2>5. PrintfTypeOK'
    BY <1>2, <1>4, <2>1 DEF PrintfInv, PrintfTypeOK, format
  <2> QED
    BY <1>3, <2>4, <2>5 DEF PrintfInv, Progress
<1>7. CASE ~ StillIntMin(v)
  <2>1. /\ divisor \in Tens /\ (divisor = 1 \/ divisor <= Magnitude(v))
        /\ val = Magnitude(v) % (10 * divisor)
        /\ Printed(k, Sign(v) \o Leading(Magnitude(v), 10 * divisor))
    BY <1>1, <1>2, <1>7 DEF PutsDigits
  <2>2. PICK w \in Nat : w = Magnitude(v)
    BY <1>4, Magnitudes
  <2>3. PICK t \in Nat \ {0} : t = divisor
    BY <2>1, TensStep
  <2>4. t \in Tens /\ (t = 1 \/ t <= w) /\ val = w % (10 * t) /\ divisor = t
        /\ Printed(k, Sign(v) \o Leading(w, 10 * t))
    BY <2>1, <2>2, <2>3
  <2>5. PICK c \in 0 .. 9 : c = (w \div t) % 10
    OBVIOUS
  <2>6. val \div t = c /\ val % t = w % t
    BY <2>4, <2>5, RemainderDigit
  <2>7. Decimal(val \div divisor) = Hex(c)
    BY <2>4, <2>6 DEF Decimal
  <2>8. PICK d1 \in Char : d1 = Hex(c)
    <3>1. c \in 0 .. 15
      OBVIOUS
    <3> QED
      BY ONLY <3>1, HexIsChar
  <2>9. PICK A1 \in Seq(Char) : A1 = Sign(v)
    BY SignedPrints
  <2>10. PICK L1 \in Seq(Char) : L1 = Leading(w, 10 * t)
    <3>1. 10 * t \in Nat \ {0}
      OBVIOUS
    <3> QED
      BY <3>1, LeadingTypes
  <2>11. PICK q \in Seq(Char) : q = A1 \o L1
    BY ConcatProperties
  <2>12. Printed(k, q)
    BY <2>4, <2>9, <2>10, <2>11
  <2>13. message' = message /\ out' = Append(out, d1)
    BY <1>2, <2>7, <2>8
  <2>14. Printed(k, q \o <<d1>>)'
    BY <1>5, <2>12, <2>13, PrintedMore
  <2>15. q \o <<d1>> = Sign(v) \o Numeral[w \div t]
    <3>1. Numeral[w \div t] = L1 \o <<d1>>
      BY <2>5, <2>8, <2>10, NumeralPlace
    <3>2. <<d1>> \in Seq(Char)
      OBVIOUS
    <3>3. Associates(A1, L1, <<d1>>)
      BY <3>2, Associativity
    <3> QED
      BY ONLY <2>9, <2>11, <3>1, <3>3 DEF Associates
  <2>16. Printed(k, Sign(v) \o Numeral[w \div t])'
    BY <2>14, <2>15
  <2>17. val' = w % t /\ divisor' = t \div 10 /\ w % t \in Nat /\ w % t <= w /\ w \div t \in Nat
    <3>1. PICK b1 \in Nat : b1 = w \div t
      BY DivMod
    <3>2. PICK e1 \in 0 .. t - 1 : e1 = w % t
      BY DivMod
    <3>3. w = t * b1 + e1
      BY <3>1, <3>2, DivMod
    <3>4. t * b1 \in Nat
      BY ProductOfNat
    <3>5. e1 <= w /\ e1 \in Nat
      BY <3>3, <3>4
    <3> QED
      BY <1>2, <2>4, <2>6, <3>1, <3>2, <3>5
  <2>18. val' \in INT_MIN .. INT_MAX + 1 /\ divisor' \in 0 .. INT_MAX
    <3>1. t \in 0 .. INT_MAX
      BY <1>4, <2>4 DEF PrintfInv, PrintfTypeOK
    <3>2. t \div 10 \in 0 .. t
      OBVIOUS
    <3>3. w <= INT_MAX + 1
      BY <1>4, <2>2, Magnitudes
    <3> QED
      BY <1>4, <2>17, <3>1, <3>2, <3>3
  <2>19. PrintfTypeOK'
    BY <1>2, <2>18 DEF PrintfInv, PrintfTypeOK, format
  <2>20. CASE t = 1
    <3>1. divisor' = 0
      BY <2>17, <2>20
    <3>2. w \div t = w
      BY <2>20
    <3>3. Signed(v).prints = Sign(v) \o Numeral[w]
      BY <2>2, SignedPrints
    <3>4. Joint(PrintSeqs(message), k + 1) = Joint(PrintSeqs(message), k) \o (Sign(v) \o Numeral[w])
      BY <1>5, <3>3, TokenFields DEF PrintfInv
    <3>5. PrintedTokens(k + 1)'
      BY <1>2, <2>16, <3>2, <3>4 DEF Printed, PrintedTokens
    <3>6. PutsDigits(k, v)'
      BY <1>2, <1>3, <3>1, <3>5 DEF PutsDigits
    <3> QED
      BY <1>3, <2>19, <3>6 DEF PrintfInv, Progress
  <2>21. CASE t # 1
    <3>1. PICK u \in Tens : t = 10 * u
      BY <2>4, <2>21, TensStep
    <3>2. u \in Nat \ {0} /\ t \div 10 = u
      BY <3>1, TensStep
    <3>3. w \div t # 0
      <4>1. t <= w
        BY <2>4, <2>21
      <4> SUFFICES ASSUME w \div t = 0 PROVE FALSE
        OBVIOUS
      <4>2. w = t * 0 + (w % t) /\ w % t \in 0 .. t - 1
        BY DivMod
      <4> QED
        BY <4>1, <4>2
    <3>4. Leading(w, 10 * u) = Numeral[w \div t]
      BY <3>1, <3>3 DEF Leading
    <3>5. /\ divisor' = u /\ val' = w % (10 * u) /\ u <= w
          /\ Printed(k, Sign(v) \o Leading(w, 10 * u))'
      BY <2>4, <2>16, <2>17, <2>21, <3>1, <3>2, <3>4
    <3>6. PutsDigits(k, v)'
      BY <1>2, <1>3, <2>2, <3>5 DEF PutsDigits
    <3> QED
      BY <1>3, <2>19, <3>6 DEF PrintfInv, Progress
  <2> QED
    BY <2>20, <2>21
<1> QED
  BY <1>6, <1>7

LEMMA LastDigitPutInv == PrintfInv /\ LastDigitPut => PrintfInv'
<1> SUFFICES ASSUME PrintfInv, LastDigitPut PROVE PrintfInv'
  OBVIOUS
<1>1. PICK k \in 0 .. Len(message), v \in INT_MIN .. INT_MAX : PutsDigits(k, v)
  BY PutsItsDigits DEF LastDigitPut
<1>2. /\ divisor = 0 /\ at' = at + 2 /\ pc' = "scan"
      /\ UNCHANGED <<message, args, val, divisor, i, out>>
  BY DEF LastDigitPut
<1>3. 0 \notin Tens
  BY TensStep
<1>4. InToken(k, Signed(v)) /\ PrintedTokens(k + 1)
  BY <1>1, <1>2, <1>3 DEF PutsDigits, StillIntMin
<1>5. Len(Signed(v).chars) = 2
  <2>1. Signed(v).chars = <<"%", "d">>
    BY DEF Signed
  <2> QED
    BY <2>1
<1>6. /\ k \in 0 .. Len(message) - 1
      /\ at + 2 = Len(Joint(CharSeqs(message), k + 1)) + 1
      /\ at + 2 \in 1 .. Len(format) + 1
  BY <1>4, <1>5, TokenEnd
<1>7. args' \in Seq(Arg) /\ Joint(ArgSeqs(message), k + 1) \o args' = ArgsOf(message)
  BY <1>2, <1>4 DEF PrintfInv, InToken, ArgsFrom
<1>8. ~ PrintsIntMin => out' = Joint(PrintSeqs(message), k + 1)
  BY <1>2, <1>4 DEF PrintedTokens
<1> QED
  BY <1>2, <1>6, <1>7, <1>8, TokenDone

LEMMA HexSpecifierInv == PrintfInv /\ HexSpecifier => PrintfInv'
<1> SUFFICES ASSUME PrintfInv, HexSpecifier PROVE PrintfInv'
  OBVIOUS
<1>1. Specifier("x")
  BY DEF HexSpecifier
<1>2. PICK k \in 0 .. Len(message) : Scans(k)
  BY <1>1, ScansTokens DEF Specifier, Scanning
<1>3. k \in 0 .. Len(message) - 1 /\ \E v \in INT_MIN .. INT_MAX : message[k + 1] = Bits(v)
  BY <1>1, <1>2, SpecifierToken
<1>4. PICK v \in INT_MIN .. INT_MAX : message[k + 1] = Bits(v)
  BY <1>3
<1>5. message[k + 1].args = <<[int |-> v]>>
  BY <1>4 DEF Bits
<1>6. /\ Head(args) = [int |-> v] /\ Tail(args) \in Seq(Arg)
      /\ Joint(ArgSeqs(message), k + 1) \o Tail(args) = ArgsOf(message)
  BY <1>2, <1>3, <1>5, NextArgument DEF Scans
<1>7. Head(args).int = v
  BY <1>6
<1>8. /\ UNCHANGED <<message, at, divisor, out>> /\ pc' = "hex" /\ args' = Tail(args)
      /\ val' = v /\ i' = BITS \div 4 - 1
  BY <1>7 DEF HexSpecifier
<1>9. k < Len(message)
  BY <1>3, MessageTypes DEF PrintfInv
<1>10. AtToken(k)' /\ ArgsFrom(k + 1)'
  BY <1>2, <1>6, <1>8 DEF Scans, AtToken, ArgsFrom
<1>11. InToken(k, Bits(val))'
  BY <1>4, <1>8, <1>9, <1>10 DEF InToken, Bits
<1>12. BITS \div 4 \in Nat \ {0}
  BY BitsPrints
<1>13. BITS \div 4 - 1 - i' = 0
  BY <1>8, <1>12
<1>14. Printed(k, SubSeq(Bits(val).prints, 1, BITS \div 4 - 1 - i))'
  <2>1. Joint(PrintSeqs(message), k) \in Seq(Char)
    BY <1>3, TokenFields DEF PrintfInv
  <2>2. PICK q \in Seq(Char) : q = Joint(PrintSeqs(message), k)
    BY <2>1
  <2>3. SubSeq(Bits(v).prints, 1, 0) = <<>> /\ q \o <<>> = q
    BY BitsPrints, WholeSeq, ConcatEmptySeq
  <2>4. Bits(val)' = Bits(v)
    BY <1>8 DEF Bits
  <2>5. SubSeq(Bits(val).prints, 1, BITS \div 4 - 1 - i)' = <<>>
    BY <1>13, <2>3, <2>4
  <2> QED
    BY <1>2, <1>8, <2>2, <2>3, <2>5 DEF Printed, PrintedTokens, Scans, PrintsIntMin
<1>15. PutsHex(k)'
  BY <1>8, <1>11, <1>14 DEF PutsHex
<1>16. val' \in INT_MIN .. INT_MAX + 1 /\ i' \in -1 .. BITS \div 4 - 1
  BY <1>8, <1>12, IntRange
<1>17. PrintfTypeOK' /\ IsMessage(message') /\ args' \in Seq(Arg)
  BY <1>6, <1>8, <1>16 DEF PrintfInv, PrintfTypeOK, format
<1>18. k \in 0 .. Len(message')
  BY <1>8
<1> QED
  BY <1>15, <1>17, <1>18 DEF PrintfInv, Progress

LEMMA PutsItsHex ==
  ASSUME PrintfInv, pc = "hex"
  PROVE  \E k \in 0 .. Len(message) : PutsHex(k)
BY DEF PrintfInv, Progress, Scans, FindsDivisor, PutsDigits, HasReturned

LEMMA PutHexDigitInv == PrintfInv /\ PutHexDigit => PrintfInv'
<1> SUFFICES ASSUME PrintfInv, PutHexDigit PROVE PrintfInv'
  OBVIOUS
<1>1. PICK k \in 0 .. Len(message) : PutsHex(k)
  BY PutsItsHex DEF PutHexDigit
<1>2. /\ pc = "hex" /\ i >= 0 /\ UNCHANGED <<message, at, args, pc, val, divisor>>
      /\ out' = Append(out, Hex((val \div TwoTo[i * 4]) % 16)) /\ i' = i - 1
  BY DEF PutHexDigit, Put
<1>3. PICK v \in INT_MIN .. INT_MAX : v = val
  BY <1>1 DEF PutsHex
<1>4. PICK N \in Nat \ {0} : N = BITS \div 4
  BY BitsPrints
<1>5. PICK j \in 0 .. N - 1 : j = i
  BY <1>2, <1>4 DEF PrintfInv, PrintfTypeOK
<1>6. PICK w \in Seq(Char) : w = Bits(v).prints
  BY BitsPrints
<1>7. Len(w) = N /\ \A h \in 1 .. N : w[h] = Hex((v \div TwoTo[(N - h) * 4]) % 16)
  BY <1>4, <1>6, BitsPrints
<1>8. N - 1 - j \in 0 .. Len(w) - 1 /\ N - j \in 1 .. N /\ N - (N - j) = j /\ N - 1 - j + 1 = N - j
  BY <1>5, <1>7
<1>9. w[N - j] = Hex((v \div TwoTo[j * 4]) % 16)
  <2>1. w[N - j] = Hex((v \div TwoTo[(N - (N - j)) * 4]) % 16)
    BY ONLY <1>7, <1>8
  <2> QED
    BY <1>8, <2>1
<1>10. PICK a \in Seq(Char) : a = SubSeq(w, 1, N - 1 - j)
  BY <1>8, BeginningGrows
<1>11. a \o <<w[N - j]>> = SubSeq(w, 1, N - j)
  <2>1. PICK m \in 0 .. Len(w) - 1 : m = N - 1 - j
    BY <1>8
  <2>2. SubSeq(w, 1, m) \o <<w[m + 1]>> = SubSeq(w, 1, m + 1)
    BY BeginningGrows
  <2> QED
    BY <1>8, <1>10, <2>1, <2>2
<1>12. PICK c \in Char : c = w[N - j]
  BY <1>7, <1>8, ElementOfSeq
<1>13. out' = Append(out, c) /\ message' = message
  BY <1>2, <1>3, <1>5, <1>9, <1>12
<1>14. Printed(k, a) /\ k \in 0 .. Len(message) - 1
  <2>1. Printed(k, SubSeq(Bits(val).prints, 1, BITS \div 4 - 1 - i)) /\ k < Len(message)
    BY <1>1 DEF PutsHex, InToken
  <2> QED
    BY <1>3, <1>4, <1>5, <1>6, <1>10, <2>1, MessageTypes DEF PrintfInv
<1>15. Printed(k, a \o <<c>>)'
  BY <1>13, <1>14, PrintedMore
<1>16. Printed(k, SubSeq(Bits(val).prints, 1, BITS \div 4 - 1 - i))'
  <2>1. Bits(val)' = Bits(v)
    BY <1>2, <1>3 DEF Bits
  <2>2. BITS \div 4 - 1 - i' = N - j
    BY <1>2, <1>4, <1>5
  <2>3. SubSeq(Bits(val).prints, 1, BITS \div 4 - 1 - i)' = a \o <<c>>
    BY <1>6, <1>11, <1>12, <2>1, <2>2
  <2> QED
    BY <1>15, <2>3 DEF Printed
<1>17. InToken(k, Bits(val))'
  BY <1>1, <1>2 DEF PutsHex, InToken, AtToken, ArgsFrom, Bits
<1>18. PutsHex(k)'
  BY <1>2, <1>3, <1>16, <1>17 DEF PutsHex
<1>19. i' \in -1 .. BITS \div 4 - 1
  BY <1>2, <1>4, <1>5
<1>20. PrintfTypeOK' /\ IsMessage(message') /\ args' \in Seq(Arg) /\ k \in 0 .. Len(message')
  BY <1>2, <1>19 DEF PrintfInv, PrintfTypeOK, format
<1> QED
  BY <1>18, <1>20 DEF PrintfInv, Progress

LEMMA LastHexDigitPutInv == PrintfInv /\ LastHexDigitPut => PrintfInv'
<1> SUFFICES ASSUME PrintfInv, LastHexDigitPut PROVE PrintfInv'
  OBVIOUS
<1>1. PICK k \in 0 .. Len(message) : PutsHex(k)
  BY PutsItsHex DEF LastHexDigitPut
<1>2. /\ i < 0 /\ at' = at + 2 /\ pc' = "scan"
      /\ UNCHANGED <<message, args, val, divisor, i, out>>
  BY DEF LastHexDigitPut
<1>3. PICK v \in INT_MIN .. INT_MAX : v = val
  BY <1>1 DEF PutsHex
<1>4. InToken(k, Bits(v)) /\ Printed(k, SubSeq(Bits(v).prints, 1, BITS \div 4 - 1 - i))
  BY <1>1, <1>3 DEF PutsHex
<1>5. Len(Bits(v).chars) = 2
  <2>1. Bits(v).chars = <<"%", "x">>
    BY DEF Bits
  <2> QED
    BY <2>1
<1>6. /\ k \in 0 .. Len(message) - 1
      /\ at + 2 = Len(Joint(CharSeqs(message), k + 1)) + 1
      /\ at + 2 \in 1 .. Len(format) + 1
  BY <1>4, <1>5, TokenEnd
<1>7. args' \in Seq(Arg) /\ Joint(ArgSeqs(message), k + 1) \o args' = ArgsOf(message)
  BY <1>2, <1>4 DEF PrintfInv, InToken, ArgsFrom
<1>8. BITS \div 4 - 1 - i = BITS \div 4
  <2>1. BITS \div 4 \in Nat \ {0}
    BY BitsPrints
  <2>2. i = -1
    BY <1>2, <2>1 DEF PrintfInv, PrintfTypeOK
  <2> QED
    BY <2>1, <2>2
<1>9. SubSeq(Bits(v).prints, 1, BITS \div 4) = Bits(v).prints
  BY BitsPrints, WholeSeq
<1>10. Joint(PrintSeqs(message), k + 1) = Joint(PrintSeqs(message), k) \o Bits(v).prints
  BY <1>4, <1>6, TokenFields DEF PrintfInv, InToken
<1>11. ~ PrintsIntMin => out' = Joint(PrintSeqs(message), k + 1)
  BY <1>2, <1>4, <1>8, <1>9, <1>10 DEF Printed
<1> QED
  BY <1>2, <1>6, <1>7, <1>11, TokenDone

LEMMA PrintfStutters == PrintfInv /\ UNCHANGED vars => PrintfInv'
<1> SUFFICES ASSUME PrintfInv, UNCHANGED vars PROVE PrintfInv'
  OBVIOUS
<1>1. UNCHANGED <<message, at, args, pc, val, divisor, i, out>>
  BY DEF vars
<1>2. PrintfTypeOK' /\ IsMessage(message') /\ args' \in Seq(Arg)
  BY <1>1 DEF PrintfInv, PrintfTypeOK, format
<1>3. Progress'
  BY <1>1 DEF PrintfInv, Progress, Scans, FindsDivisor, PutsDigits, PutsHex, HasReturned,
     AtToken, ArgsFrom, PrintedTokens, Printed, InToken, StillIntMin, PrintsIntMin, Bits
<1> QED
  BY <1>2, <1>3 DEF PrintfInv

LEMMA PrintfSteps == PrintfInv /\ [Next]_vars => PrintfInv'
BY EndOfFormatInv, RegularCharacterInv, PercentAtEndInv, OtherSpecifierInv, StringSpecifierInv,
   DecimalSpecifierInv, GrowDivisorInv, PutDigitInv, LastDigitPutInv, HexSpecifierInv,
   PutHexDigitInv, LastHexDigitPutInv, PrintfStutters DEF Next
-----------------------------------------------------------------------------
(* printf: what has been printed *)

\* p is the beginning of w.
Begins(p, w) == p \in Seq(Char) /\ \E r \in Seq(Char) : w = p \o r

LEMMA BeginsIsPrefix ==
  ASSUME NEW p, NEW w, Begins(p, w)
  PROVE  IsPrefix(p, w)
BY PrefixOfConcat DEF Begins

LEMMA BeginsRules ==
  /\ \A w \in Seq(Char) : Begins(w, w) /\ Begins(<<>>, w)
  /\ \A w, v \in Seq(Char) : Begins(w, w \o v)
<1>1. ASSUME NEW w \in Seq(Char) PROVE Begins(w, w) /\ Begins(<<>>, w)
  <2>1. w \o <<>> = w /\ <<>> \o w = w
    BY ConcatEmptySeq
  <2>2. <<>> \in Seq(Char)
    OBVIOUS
  <2> QED
    BY <2>1, <2>2 DEF Begins
<1>2. ASSUME NEW w \in Seq(Char), NEW v \in Seq(Char) PROVE Begins(w, w \o v)
  BY DEF Begins
<1> QED
  BY <1>1, <1>2

LEMMA BeginsTrans ==
  ASSUME NEW p, NEW w, NEW z, Begins(p, w), Begins(w, z)
  PROVE  Begins(p, z)
<1>1. PICK a \in Seq(Char) : p \in Seq(Char) /\ w = p \o a
  BY DEF Begins
<1>2. PICK b \in Seq(Char) : z = w \o b
  BY DEF Begins
<1>3. Associates(p, a, b)
  BY <1>1, Associativity
<1>4. a \o b \in Seq(Char)
  BY ConcatProperties
<1>5. z = p \o (a \o b)
  BY ONLY <1>1, <1>2, <1>3 DEF Associates
<1> QED
  BY <1>1, <1>4, <1>5 DEF Begins

LEMMA BeginsAfter ==
  ASSUME NEW q \in Seq(Char), NEW p, NEW w, Begins(p, w)
  PROVE  Begins(q \o p, q \o w)
<1>1. PICK a \in Seq(Char) : p \in Seq(Char) /\ w = p \o a
  BY DEF Begins
<1>2. Associates(q, p, a)
  BY <1>1, Associativity
<1>3. q \o p \in Seq(Char)
  BY <1>1, ConcatProperties
<1>4. q \o w = (q \o p) \o a
  BY ONLY <1>1, <1>2 DEF Associates
<1> QED
  BY <1>3, <1>4 DEF Begins

\* The beginning of a token completes to the whole message.
LEMMA BeginningOfMessage ==
  ASSUME IsMessage(message), NEW k \in 0 .. Len(message) - 1,
         NEW q \in Seq(Char), NEW r \in Seq(Char), message[k + 1].prints = q \o r,
         out = Joint(PrintSeqs(message), k) \o q
  PROVE  Begins(out, PrintsOf(message))
<1>1. PICK p \in Seq(Char) : p = Joint(PrintSeqs(message), k)
  BY TokenFields
<1>2. Joint(PrintSeqs(message), k + 1) = p \o (q \o r) /\ k + 1 \in 0 .. Len(message)
  BY <1>1, TokenFields
<1>2a. /\ PrintSeqs(message) \in Seq(Seq(Char)) /\ Len(PrintSeqs(message)) = Len(message)
      /\ PrintsOf(message) = FlattenSeq(PrintSeqs(message))
  BY MessageTypes
<1>3. PICK e \in Seq(Char) : PrintsOf(message) = Joint(PrintSeqs(message), k + 1) \o e
  BY <1>2, <1>2a, JointIsPrefix
<1>4. PICK a \in Seq(Char) : a = p \o q
  BY ConcatProperties
<1>5. Associates(p, q, r)
  BY Associativity
<1>6. Associates(a, r, e)
  BY Associativity
<1>7. PICK f \in Seq(Char) : f = r \o e
  BY ConcatProperties
<1>8. PrintsOf(message) = a \o f
  BY ONLY <1>2, <1>3, <1>4, <1>5, <1>6, <1>7 DEF Associates
<1> QED
  BY <1>1, <1>4, <1>8 DEF Begins

\* Whole tokens are a beginning too.
LEMMA WholeTokens ==
  ASSUME IsMessage(message), NEW k \in 0 .. Len(message), out = Joint(PrintSeqs(message), k)
  PROVE  Begins(out, PrintsOf(message))
<1>0. /\ PrintSeqs(message) \in Seq(Seq(Char)) /\ Len(PrintSeqs(message)) = Len(message)
      /\ PrintsOf(message) = FlattenSeq(PrintSeqs(message))
  BY MessageTypes
<1>1. PICK r \in Seq(Char) : PrintsOf(message) = Joint(PrintSeqs(message), k) \o r
  <2>1. k \in 0 .. Len(PrintSeqs(message))
    BY <1>0
  <2>2. \E r \in Seq(Char) : FlattenSeq(PrintSeqs(message)) = Joint(PrintSeqs(message), k) \o r
    BY <1>0, <2>1, JointIsPrefix
  <2> QED
    BY <1>0, <2>2
<1>2. Joint(PrintSeqs(message), k) \in Seq(Char)
  BY MessageTypes, FlattenSteps
<1>3. PICK p \in Seq(Char) : p = Joint(PrintSeqs(message), k)
  BY <1>2
<1> QED
  BY <1>1, <1>3 DEF Begins

LEMMA InvGivesPrefix ==
  ASSUME PrintfInv, ~ PrintsIntMin
  PROVE  Begins(out, PrintsOf(message))
<1>1. IsMessage(message) /\ Len(message) \in Nat
  BY MessageTypes DEF PrintfInv
<1>2. CASE \E k \in 0 .. Len(message) : Scans(k)
  <2>1. PICK k \in 0 .. Len(message) : Scans(k)
    BY <1>2
  <2> QED
    BY <1>1, <2>1, WholeTokens DEF Scans, PrintedTokens
<1>3. ASSUME NEW k \in 0 .. Len(message), NEW v \in INT_MIN .. INT_MAX, InToken(k, Signed(v))
      PROVE  /\ ~ StillIntMin(v) /\ k \in 0 .. Len(message) - 1 /\ k + 1 \in 0 .. Len(message)
             /\ message[k + 1].prints = Sign(v) \o Numeral[Magnitude(v)]
             /\ Sign(v) \in Seq(Char) /\ Numeral[Magnitude(v)] \in Seq(Char)
             /\ Magnitude(v) \in Nat
  <2>1. k \in 0 .. Len(message) - 1 /\ k + 1 \in 0 .. Len(message) /\ message[k + 1] = Signed(v)
    BY <1>1, <1>3 DEF InToken
  <2>2. k + 1 \in DOMAIN message
    BY <1>1, <2>1, MessageTypes
  <2>3. ~ StillIntMin(v)
    BY <2>1, <2>2 DEF StillIntMin, PrintsIntMin
  <2>4. Magnitude(v) \in Nat
    BY Magnitudes, IntRange
  <2> QED
    BY <2>1, <2>3, <2>4, SignedPrints
<1>4. CASE \E k \in 0 .. Len(message), v \in INT_MIN .. INT_MAX : FindsDivisor(k, v)
  <2>1. PICK k \in 0 .. Len(message), v \in INT_MIN .. INT_MAX : FindsDivisor(k, v)
    BY <1>4
  <2>2. InToken(k, Signed(v))
    BY <2>1 DEF FindsDivisor
  <2>3. out = Joint(PrintSeqs(message), k) \o Sign(v)
    BY <1>3, <2>1, <2>2 DEF FindsDivisor, Printed
  <2> QED
    BY <1>1, <1>3, <2>2, <2>3, BeginningOfMessage
<1>5. CASE \E k \in 0 .. Len(message), v \in INT_MIN .. INT_MAX : PutsDigits(k, v)
  <2>1. PICK k \in 0 .. Len(message), v \in INT_MIN .. INT_MAX : PutsDigits(k, v)
    BY <1>5
  <2>2. InToken(k, Signed(v))
    BY <2>1 DEF PutsDigits
  <2>3. CASE PrintedTokens(k + 1)
    BY <1>1, <1>3, <2>2, <2>3, WholeTokens DEF PrintedTokens
  <2>4. CASE ~ PrintedTokens(k + 1)
    <3>1. /\ divisor \in Tens
          /\ Printed(k, Sign(v) \o Leading(Magnitude(v), 10 * divisor))
      BY <1>3, <2>1, <2>2, <2>4 DEF PutsDigits
    <3>2. PICK t \in Tens : t = 10 * divisor
      BY <3>1, TensStep
    <3>3. PICK w \in Nat : w = Magnitude(v)
      BY <1>3, <2>2
    <3>4. PICK r \in Seq(Char) : Numeral[w] = Leading(w, t) \o r
      BY LeadingIsPrefix
    <3>5. PICK a \in Seq(Char) : a = Sign(v)
      BY SignedPrints
    <3>6. PICK l \in Seq(Char) : l = Leading(w, t)
      BY TensStep, LeadingTypes
    <3>7. PICK q \in Seq(Char) : q = a \o l
      BY ConcatProperties
    <3>8. Associates(a, l, r)
      BY Associativity
    <3>9. a \o Numeral[w] = q \o r
      BY ONLY <3>4, <3>6, <3>7, <3>8 DEF Associates
    <3>10. message[k + 1].prints = q \o r
      BY <1>3, <2>2, <3>3, <3>5, <3>9
    <3>11. out = Joint(PrintSeqs(message), k) \o q
      BY <3>1, <3>2, <3>3, <3>5, <3>6, <3>7 DEF Printed
    <3>12. k \in 0 .. Len(message) - 1
      BY <1>3, <2>2
    <3> QED
      BY <1>1, <3>10, <3>11, <3>12, BeginningOfMessage
  <2> QED
    BY <2>3, <2>4
<1>6. CASE \E k \in 0 .. Len(message) : PutsHex(k)
  <2>1. PICK k \in 0 .. Len(message) : PutsHex(k)
    BY <1>6
  <2>2. val \in INT_MIN .. INT_MAX /\ k \in 0 .. Len(message) - 1 /\ message[k + 1] = Bits(val)
    BY <1>1, <2>1 DEF PutsHex, InToken
  <2>3. PICK w \in Seq(Char) : w = Bits(val).prints
    BY <2>2, BitsPrints
  <2>4. Len(w) = BITS \div 4 /\ BITS \div 4 \in Nat \ {0}
    BY <2>2, <2>3, BitsPrints
  <2>5. PICK m \in 0 .. Len(w) : m = BITS \div 4 - 1 - i
    BY <2>4 DEF PrintfInv, PrintfTypeOK
  <2>6. SubSeq(w, 1, m) \in Seq(Char) /\ \E r \in Seq(Char) : w = SubSeq(w, 1, m) \o r
    BY BeginningOfSeq
  <2>7. PICK q \in Seq(Char) : q = SubSeq(w, 1, m)
    BY <2>6
  <2>8. PICK r \in Seq(Char) : w = q \o r
    BY <2>6, <2>7
  <2>9. out = Joint(PrintSeqs(message), k) \o q
    BY <2>1, <2>3, <2>5, <2>7 DEF PutsHex, Printed
  <2>10. message[k + 1].prints = q \o r
    BY <2>2, <2>3, <2>8
  <2> QED
    BY <1>1, <2>2, <2>9, <2>10, BeginningOfMessage
<1>7. CASE HasReturned
  <2>1. /\ out = Joint(PrintSeqs(message), Len(message)) /\ Len(message) \in 0 .. Len(message)
    BY <1>1, <1>7, EndPosition DEF HasReturned
  <2> QED
    BY <1>1, <2>1, WholeTokens
<1> QED
  BY <1>2, <1>4, <1>5, <1>6, <1>7 DEF PrintfInv, Progress

LEMMA InvGivesOutput == PrintfInv => OutputCorrect
<1> SUFFICES ASSUME PrintfInv, ~ PrintsIntMin PROVE PrintsMessage
  BY DEF OutputCorrect
<1>1. IsPrefix(out, PrintsOf(message))
  BY InvGivesPrefix, BeginsIsPrefix
<1>2. pc = "return" => out = PrintsOf(message) /\ args = <<>>
  BY DEF PrintfInv, Progress, Scans, FindsDivisor, PutsDigits, PutsHex, HasReturned
<1> QED
  BY <1>1, <1>2 DEF PrintsMessage
-----------------------------------------------------------------------------
(* What the kernels print *)

\* The addresses that the memory kernel prints.
RamOK ==
  /\ paddr0 \in 0 .. TwoTo[BITS] - 1
  /\ paddr1 \in 0 .. TwoTo[BITS] - 1
  /\ next_paddr \in 0 .. TwoTo[BITS] - 1

OutputInv == PrintfInv /\ RamOK

LEMMA AddressIsInt ==
  ASSUME NEW u \in 0 .. TwoTo[BITS] - 1
  PROVE  AsInt(u) \in INT_MIN .. INT_MAX
BY IntRange DEF AsInt

LEMMA TokensMakeMessage ==
  ASSUME NEW C, \A t \in C : IsToken(t), NEW m \in Seq(C)
  PROVE  IsMessage(m)
<1>1. Len(m) \in Nat /\ DOMAIN m = 1 .. Len(m) /\ \A k \in 1 .. Len(m) : m[k] \in C
  BY LenProperties, ElementOfSeq
<1>2. \A k \in DOMAIN m : m[k] \in Range(m)
  BY DEF Range
<1>3. m \in Seq(Range(m))
  BY <1>1, <1>2
<1> QED
  BY <1>1, <1>3 DEF IsMessage

LEMMA KernelTokens ==
  /\ \A c \in Char \ {"%"} : IsToken(Literal(c))
  /\ \A c \in Char : IsToken(Text(<<c>>))
  /\ \A v \in INT_MIN .. INT_MAX : IsToken(Signed(v)) /\ IsToken(Bits(v))
<1>1. ASSUME NEW c \in Char PROVE IsToken(Text(<<c>>))
  <2>1. <<c>> \in Seq(Char)
    OBVIOUS
  <2>2. Text(<<c>>).prints = <<c>>
    BY DEF Text
  <2> QED
    BY <2>1, <2>2 DEF IsToken
<1>2. \A c \in Char \ {"%"} : IsToken(Literal(c))
  BY DEF IsToken, SimpleTokens
<1>3. \A v \in INT_MIN .. INT_MAX : IsToken(Signed(v)) /\ IsToken(Bits(v))
  BY DEF IsToken, SimpleTokens
<1> QED
  BY <1>1, <1>2, <1>3

LEMMA PanicMessages ==
  ASSUME NEW C, \A t \in C : IsToken(t), NEW m \in Seq(C)
  PROVE  IsMessage(PANIC(m).message)
<1>1. PICK D : D = C \cup {Literal("P"), Text(<<"k">>)}
  OBVIOUS
<1>2. {"P", "k"} \subseteq Char \ {"%"}
  BY KernelsAssumption
<1>3. \A t \in D : IsToken(t)
  BY <1>1, <1>2, KernelTokens
<1>4. m \in Seq(D)
  BY <1>1
<1>5. PICK a \in Seq(D) : a = <<Literal("P"), Text(<<"k">>)>>
  <2>1. PICK t \in D : t = Literal("P")
    BY <1>1
  <2>2. PICK u \in D : u = Text(<<"k">>)
    BY <1>1
  <2>3. <<t, u>> \in Seq(D)
    OBVIOUS
  <2> QED
    BY <2>1, <2>2, <2>3
<1>6. a \o m \in Seq(D)
  BY <1>4, ConcatProperties
<1>7. IsMessage(a \o m)
  BY <1>3, <1>6, TokensMakeMessage
<1> QED
  BY <1>5, <1>7 DEF PANIC

\* Whatever a kernel prints is a message.
LEMMA StatementMessages ==
  ASSUME RamOK, kernel \in {"simple", "output", "panic", "exception", "memory"},
         line \in DOMAIN kernel_main, kernel_main[line].do \in {"printf", "panic"}
  PROVE  IsMessage(kernel_main[line].message)
<1>0. {"H", "R", "V", "=", "P", "k", "b", "u", "0", "1"} \subseteq Char \ {"%"}
  <2>1. {"0", "1"} \subseteq Char
    <3>1. 0 \in 0 .. 15 /\ 1 \in 0 .. 15
      OBVIOUS
    <3>2. Hex(0) \in Char /\ Hex(1) \in Char
      BY ONLY <3>1, HexIsChar
    <3> QED
      BY <3>2 DEF Hex, HexDigits
  <2> QED
    BY <2>1, KernelsAssumption
<1>1. ASSUME NEW t, IsToken(t) PROVE IsMessage(<<t>>)
  <2>1. <<t>> \in Seq({t})
    OBVIOUS
  <2> QED
    BY <1>1, <2>1, TokensMakeMessage
<1>2. ASSUME NEW t, NEW u, IsToken(t), IsToken(u) PROVE IsMessage(<<t, u>>)
  <2>1. <<t, u>> \in Seq({t, u}) /\ \A w \in {t, u} : IsToken(w)
    BY <1>2
  <2> QED
    BY <2>1, TokensMakeMessage
<1>3. IsMessage(PANIC(<<Literal("b")>>).message)
  <2>1. IsToken(Literal("b"))
    BY <1>0, KernelTokens
  <2>2. PICK t : t = Literal("b")
    OBVIOUS
  <2>3. <<t>> \in Seq({t}) /\ \A w \in {t} : IsToken(w)
    BY <2>1, <2>2
  <2> QED
    BY <2>2, <2>3, PanicMessages
<1>4. CASE kernel_main = SimpleMain
  <2>1. DOMAIN SimpleMain = 1 .. 2 /\ SimpleMain[1].do = "memset" /\ SimpleMain[2].do = "for"
    BY DEF SimpleMain, Do
  <2> QED
    BY <1>4, <2>1
<1>5. CASE kernel_main = OutputMain
  <2>1. DOMAIN OutputMain = 1 .. 4 /\ OutputMain[4].do = "for"
    BY DEF OutputMain, Do
  <2>2. /\ OutputMain[1].message = <<Literal("H")>>
        /\ OutputMain[2].message = <<Literal("R"), Text(<<"V">>)>>
        /\ OutputMain[3].message = <<Literal("="), Signed(3)>>
    BY DEF OutputMain, Say
  <2>3. 3 \in INT_MIN .. INT_MAX
    BY IntRange
  <2>4. /\ IsToken(Literal("H")) /\ IsToken(Literal("R")) /\ IsToken(Text(<<"V">>))
        /\ IsToken(Literal("=")) /\ IsToken(Signed(3))
    BY <1>0, <2>3, KernelTokens
  <2>5. line \in {1, 2, 3}
    BY <1>5, <2>1
  <2> QED
    BY <1>1, <1>2, <1>5, <2>2, <2>4, <2>5
<1>6. CASE kernel_main = PanicMain
  <2>1. DOMAIN PanicMain = 1 .. 3 /\ PanicMain[1].do = "memset"
    BY DEF PanicMain, Do
  <2>2. /\ PanicMain[2].message = PANIC(<<Literal("b")>>).message
        /\ PanicMain[3].message = <<Literal("u")>>
    BY DEF PanicMain, Say
  <2>3. IsToken(Literal("u"))
    BY <1>0, KernelTokens
  <2>4. line \in {2, 3}
    BY <1>6, <2>1
  <2> QED
    BY <1>1, <1>3, <1>6, <2>2, <2>3, <2>4
<1>7. CASE kernel_main = ExceptionMain
  <2>1. /\ DOMAIN ExceptionMain = 1 .. 3 /\ ExceptionMain[1].do = "memset"
        /\ ExceptionMain[2].do = "stvec" /\ ExceptionMain[3].do = "unimp"
    BY DEF ExceptionMain, Do
  <2> QED
    BY <1>7, <2>1
<1>8. CASE kernel_main = MemoryMain
  <2>1. /\ DOMAIN MemoryMain = 1 .. 6 /\ MemoryMain[1].do = "memset"
        /\ MemoryMain[2].do = "paddr0" /\ MemoryMain[3].do = "paddr1"
    BY DEF MemoryMain, Do
  <2>2. /\ MemoryMain[4].message = <<Literal("0"), Bits(AsInt(paddr0))>>
        /\ MemoryMain[5].message = <<Literal("1"), Bits(AsInt(paddr1))>>
        /\ MemoryMain[6].message = PANIC(<<Literal("b")>>).message
    BY DEF MemoryMain, Say
  <2>3. /\ IsToken(Literal("0")) /\ IsToken(Literal("1"))
        /\ IsToken(Bits(AsInt(paddr0))) /\ IsToken(Bits(AsInt(paddr1)))
    BY <1>0, KernelTokens, AddressIsInt DEF RamOK
  <2>4. line \in {4, 5, 6}
    BY <1>8, <2>1
  <2> QED
    BY <1>2, <1>3, <1>8, <2>2, <2>3, <2>4
<1>9. kernel_main \in {SimpleMain, OutputMain, PanicMain, ExceptionMain, MemoryMain}
  BY DEF kernel_main
<1> QED
  BY <1>4, <1>5, <1>6, <1>7, <1>8, <1>9

\* printf has been called.
Starts ==
  /\ IsMessage(message) /\ at = 1 /\ args = ArgsOf(message) /\ pc = "scan" /\ out = <<>>
  /\ val \in INT_MIN .. INT_MAX + 1 /\ divisor \in 0 .. INT_MAX
  /\ i \in -1 .. BITS \div 4 - 1

LEMMA StartsInv == Starts => PrintfInv
BY CallStarts DEF Starts

LEMMA CallInv ==
  ASSUME PrintfInv, NEW m, IsMessage(m), Call(m)
  PROVE  PrintfInv'
<1>1. Starts'
  BY DEF Starts, Call, PrintfInv, PrintfTypeOK
<1> QED
  BY <1>1, StartsInv, PTL

LEMMA AllocateRam ==
  ASSUME RamOK, Allocate
  PROVE  RamOK'
<1>1. TwoTo[BITS] \in Nat \ {0}
  BY IntRange
<1>2. ASSUME NEW c \in {3, 5}, Pages!AllocPages(c)
      PROVE  next_paddr' \in 0 .. TwoTo[BITS] - 1
  <2>1. next_paddr' = (next_paddr + ((c * PAGE_SIZE) % TwoTo[BITS])) % TwoTo[BITS]
    BY <1>2 DEF Pages!AllocPages, Pages!Advance, Pages!Bytes
  <2>2. PICK W \in Nat \ {0} : W = TwoTo[BITS]
    BY <1>1
  <2>3. PICK b \in Nat : b = c * PAGE_SIZE
    BY KernelsAssumption
  <2>4. b % W \in 0 .. W - 1
    BY DivMod
  <2>5. next_paddr \in Nat
    BY <2>2 DEF RamOK
  <2>6. PICK e \in Nat : e = next_paddr + (b % W)
    BY <2>4, <2>5
  <2>7. e % W \in 0 .. W - 1
    BY DivMod
  <2> QED
    BY <2>1, <2>2, <2>3, <2>6, <2>7
<1> QED
  BY <1>2 DEF RamOK, Allocate

LEMMA OutputInitInv == CommonInit => OutputInv
<1> SUFFICES ASSUME CommonInit PROVE OutputInv
  OBVIOUS
<1>1. ASSUME next_paddr = FREE_RAM, paddr0 = 0, paddr1 = 0 PROVE RamOK
  <2>1. TwoTo[BITS] \in Nat \ {0}
    BY IntRange
  <2>2. FREE_RAM \in 0 .. TwoTo[BITS] - 1
    BY <2>1, KernelsAssumption
  <2> QED
    BY <1>1, <2>1, <2>2 DEF RamOK
<1>2. CASE Init /\ NoKernel
  <2>1. IsMessage(message)
    BY <1>2, MessagesAssumption DEF Init
  <2>2. 0 \in INT_MIN .. INT_MAX + 1 /\ 0 \in 0 .. INT_MAX /\ -1 \in -1 .. BITS \div 4 - 1
    BY IntRange, PrintfAssumption
  <2>3. PrintfInv
    BY <1>2, <2>1, <2>2, CallStarts DEF Init
  <2> QED
    BY <1>1, <1>2, <2>3 DEF OutputInv, NoKernel
<1>3. CASE PrintfIdle /\ (NoKernel \/ boot)
  BY <1>1, <1>3, IdleInv DEF OutputInv, NoKernel, boot
<1> QED
  BY <1>2, <1>3 DEF CommonInit

LEMMA OutputStep ==
  ASSUME KernelsInv, OutputInv, [KernelsNext]_kernelVars
  PROVE  OutputInv'
<1>1. ASSUME NEW what \in {"printf", "panic"}, At(what), Call(kernel_main[line].message)
      PROVE  PrintfInv'
  <2>1. kernel \in Kernels /\ line \in DOMAIN kernel_main /\ kernel_main[line].do = what
    BY <1>1, AtKernel DEF At
  <2>2. IsMessage(kernel_main[line].message)
    BY <1>1, <2>1, StatementMessages DEF OutputInv, Kernels
  <2> QED
    BY <1>1, <2>2, CallInv DEF OutputInv
<1>2. CASE CallPrintf \/ Panic
  BY <1>1, <1>2 DEF CallPrintf, Panic, OutputInv, RamOK, ram
<1>3. CASE Unimp
  <2>1. PICK stval \in {0, 1} :
           Call(PANIC(<<Bits(2), Bits(stval), Bits(AsInt(UNIMP))>>).message)
    BY <1>3 DEF Unimp
  <2>2. PICK C : C = {Bits(2), Bits(stval), Bits(AsInt(UNIMP))}
    OBVIOUS
  <2>3. 2 \in INT_MIN .. INT_MAX /\ stval \in INT_MIN .. INT_MAX
    BY IntRange
  <2>4. AsInt(UNIMP) \in INT_MIN .. INT_MAX
    BY AddressIsInt, KernelsAssumption
  <2>5. \A t \in C : IsToken(t)
    BY <2>2, <2>3, <2>4, KernelTokens
  <2>6. PICK m \in Seq(C) : m = <<Bits(2), Bits(stval), Bits(AsInt(UNIMP))>>
    <3>1. PICK t \in C : t = Bits(2)
      BY <2>2
    <3>2. PICK u \in C : u = Bits(stval)
      BY <2>2
    <3>3. PICK w \in C : w = Bits(AsInt(UNIMP))
      BY <2>2
    <3>4. <<t, u, w>> \in Seq(C)
      OBVIOUS
    <3> QED
      BY <3>1, <3>2, <3>3, <3>4
  <2>7. IsMessage(PANIC(m).message)
    BY <2>5, PanicMessages
  <2>8. PrintfInv'
    BY <2>1, <2>6, <2>7, CallInv DEF OutputInv
  <2> QED
    BY <1>3, <2>8 DEF Unimp, OutputInv, RamOK, ram
<1>4. ASSUME UNCHANGED vars PROVE PrintfInv'
  BY <1>4, PrintfSteps DEF OutputInv
<1>5. CASE CallMemset \/ SetTrapVector
  BY <1>4, <1>5 DEF CallMemset, SetTrapVector, OutputInv, RamOK, ram
<1>6. CASE Allocate
  <2>1. UNCHANGED vars
    BY <1>6 DEF Allocate
  <2> QED
    BY <1>4, <1>6, <2>1, AllocateRam DEF OutputInv
<1>7. CASE Library \/ UNCHANGED kernelVars
  <2>1. [Next]_vars /\ UNCHANGED ram
    BY <1>7 DEF Library, kernelState, kernelVars
  <2>2. PrintfInv'
    BY <2>1, PrintfSteps DEF OutputInv
  <2> QED
    BY <2>1, <2>2 DEF OutputInv, RamOK, ram
<1> QED
  BY <1>2, <1>3, <1>5, <1>6, <1>7 DEF KernelsNext
-----------------------------------------------------------------------------
(* What the console shows *)

Block0 == PrintsOf(<<Bits(FREE_RAM)>>)
Block1 == PrintsOf(<<Bits(FREE_RAM + 5 * PAGE_SIZE)>>)

\* What the console shows when the last call of printf has returned.
Asked ==
  CASE panic # "none" -> Shown
    [] panic = "none" /\ kernel = "output" ->
         {CASE line = 1 -> <<>> [] line = 2 -> <<"H">> [] line = 3 -> <<"H", "R", "V">>
            [] line = 4 -> <<"H", "R", "V", "=", "3">>}
    [] panic = "none" /\ kernel = "memory" ->
         {CASE line <= 4 -> <<>> [] line = 5 -> <<"0">> \o Block0
            [] line = 6 -> <<"0">> \o Block0 \o <<"1">> \o Block1}
    [] OTHER -> {<<>>}

\* The blocks of the memory kernel are five pages apart.
RamAt == kernel = "memory" =>
  /\ line <= 2 => next_paddr = FREE_RAM
  /\ line = 3 => next_paddr = FREE_RAM + 5 * PAGE_SIZE
  /\ line >= 3 => paddr0 = FREE_RAM
  /\ line >= 4 => paddr1 = FREE_RAM + 5 * PAGE_SIZE

ConsoleInv == kernel \in Kernels =>
  /\ ~ PrintsIntMin
  /\ printed \in Seq(Char)
  /\ RamAt
  /\ printed \o PrintsOf(message) \in Asked

LEMMA ConsoleOut ==
  ASSUME out \in Seq(Char)
  PROVE  Console = printed \o out
<1>1. \A c : putchar(c) = <<c>>
  BY DEF putchar, call_sbi, ecall
<1>2. [k \in DOMAIN out |-> putchar(out[k])] = [k \in DOMAIN out |-> <<out[k]>>]
  BY <1>1
<1> QED
  BY <1>2, FlattenCharacters DEF Console

\* A message that printf prints as w.
Prints(m, w) ==
  /\ IsMessage(m)
  /\ \A k \in DOMAIN m : m[k] # Signed(INT_MIN)
  /\ PrintsOf(m) = w

LEMMA OneToken ==
  ASSUME NEW t, IsToken(t), t # Signed(INT_MIN)
  PROVE  Prints(<<t>>, t.prints)
<1>1. PICK m : m = <<t>>
  OBVIOUS
<1>2. m \in Seq({t}) /\ Len(m) = 1 /\ DOMAIN m = {1} /\ m[1] = t
  BY <1>1
<1>3. IsMessage(m)
  BY <1>2, TokensMakeMessage
<1>4. 0 \in 0 .. Len(m) - 1 /\ 0 + 1 = 1
  BY <1>2
<1>5. /\ Joint(PrintSeqs(m), 1) = Joint(PrintSeqs(m), 0) \o t.prints
      /\ t.prints \in Seq(Char)
  BY <1>2, <1>3, <1>4, TokenFields
<1>6. Joint(PrintSeqs(m), 0) = <<>> /\ PrintsOf(m) = Joint(PrintSeqs(m), 1)
  BY <1>2, <1>3, EndPosition
<1>7. <<>> \o t.prints = t.prints
  BY <1>5, ConcatEmptySeq
<1>8. PrintsOf(m) = t.prints
  BY ONLY <1>5, <1>6, <1>7
<1> QED
  BY <1>1, <1>2, <1>3, <1>8 DEF Prints

LEMMA TwoTokens ==
  ASSUME NEW t, NEW u, IsToken(t), IsToken(u), t # Signed(INT_MIN), u # Signed(INT_MIN)
  PROVE  Prints(<<t, u>>, t.prints \o u.prints)
<1>1. PICK m : m = <<t, u>>
  OBVIOUS
<1>2. m \in Seq({t, u}) /\ Len(m) = 2 /\ DOMAIN m = {1, 2} /\ m[1] = t /\ m[2] = u
  BY <1>1
<1>3. IsMessage(m)
  BY <1>2, TokensMakeMessage
<1>4. 0 \in 0 .. Len(m) - 1 /\ 0 + 1 = 1 /\ 1 \in 0 .. Len(m) - 1 /\ 1 + 1 = 2
  BY <1>2
<1>5. /\ Joint(PrintSeqs(m), 1) = Joint(PrintSeqs(m), 0) \o t.prints
      /\ t.prints \in Seq(Char)
  BY <1>2, <1>3, <1>4, TokenFields
<1>6. Joint(PrintSeqs(m), 2) = Joint(PrintSeqs(m), 1) \o u.prints
  BY <1>2, <1>3, <1>4, TokenFields
<1>7. Joint(PrintSeqs(m), 0) = <<>> /\ PrintsOf(m) = Joint(PrintSeqs(m), 2)
  BY <1>2, <1>3, EndPosition
<1>8. <<>> \o t.prints = t.prints
  BY <1>5, ConcatEmptySeq
<1>9. PrintsOf(m) = t.prints \o u.prints
  BY ONLY <1>5, <1>6, <1>7, <1>8
<1> QED
  BY <1>1, <1>2, <1>3, <1>9 DEF Prints

\* PANIC shows its prefix first.
LEMMA PanicPrints ==
  ASSUME NEW C, NEW m \in Seq(C), \A t \in C : IsToken(t) /\ t # Signed(INT_MIN)
  PROVE  Prints(PANIC(m).message, <<"P", "k">> \o PrintsOf(m))
<1>1. PICK M : M = PANIC(m).message
  OBVIOUS
<1>2. PICK N \in Nat : N = Len(m) /\ DOMAIN m = 1 .. N /\ \A k \in 1 .. N : m[k] \in C
  BY LenProperties, ElementOfSeq
<1>3. IsMessage(M) /\ IsMessage(m)
  BY <1>1, PanicMessages, TokensMakeMessage
<1>4. /\ Len(M) = N + 2 /\ DOMAIN M = 1 .. N + 2
      /\ M[1] = Literal("P") /\ M[2] = Text(<<"k">>)
      /\ \A k \in 1 .. N : M[k + 2] = m[k]
  <2>1. PICK D : D = C \cup {Literal("P"), Text(<<"k">>)}
    OBVIOUS
  <2>2. PICK t \in D : t = Literal("P")
    BY <2>1
  <2>3. PICK u \in D : u = Text(<<"k">>)
    BY <2>1
  <2>4. PICK a : a = <<t, u>>
    OBVIOUS
  <2>5. a \in Seq(D) /\ Len(a) = 2 /\ a[1] = t /\ a[2] = u
    BY <2>4
  <2>6. m \in Seq(D)
    BY <2>1
  <2>7. M = a \o m
    BY <1>1, <2>2, <2>3, <2>4 DEF PANIC
  <2>8. /\ M \in Seq(D) /\ Len(M) = 2 + N
        /\ \A j \in 1 .. 2 + N : M[j] = IF j <= 2 THEN a[j] ELSE m[j - 2]
    <3>1. /\ a \o m \in Seq(D) /\ Len(a \o m) = Len(a) + Len(m)
          /\ \A j \in 1 .. Len(a) + Len(m) :
               (a \o m)[j] = IF j <= Len(a) THEN a[j] ELSE m[j - Len(a)]
      BY <2>5, <2>6, ConcatProperties
    <3> QED
      BY ONLY <1>2, <2>5, <2>7, <3>1
  <2>9. DOMAIN M = 1 .. N + 2 /\ Len(M) = N + 2
    BY <2>8, LenProperties
  <2>10. M[1] = t /\ M[2] = u
    BY <2>5, <2>8
  <2>11. ASSUME NEW k \in 1 .. N PROVE M[k + 2] = m[k]
    <3>1. k + 2 \in 1 .. 2 + N /\ ~ (k + 2 <= 2) /\ (k + 2) - 2 = k
      OBVIOUS
    <3> QED
      BY <2>8, <3>1
  <2> QED
    BY <2>2, <2>3, <2>9, <2>10, <2>11
<1>5. M[1] # Signed(INT_MIN) /\ M[2] # Signed(INT_MIN)
  <2>1. Literal("P").chars = <<"P">> /\ Text(<<"k">>).chars = <<"%", "s">>
    BY DEF Literal, Text
  <2>2. Signed(INT_MIN).chars = <<"%", "d">>
    BY DEF Signed
  <2> QED
    BY <1>4, <2>1, <2>2
<1>6. ASSUME NEW k \in DOMAIN M PROVE M[k] # Signed(INT_MIN)
  <2>1. CASE k \in {1, 2}
    BY <1>5, <2>1
  <2>2. CASE k \notin {1, 2}
    <3>1. k - 2 \in 1 .. N /\ (k - 2) + 2 = k
      BY <1>4, <2>2
    <3>2. M[k] = m[k - 2]
      BY <1>4, <3>1
    <3> QED
      BY <1>2, <3>1, <3>2
  <2> QED
    BY <2>1, <2>2
<1>7. Joint(PrintSeqs(M), 2) = <<"P", "k">>
  <2>1. 0 \in 0 .. Len(M) - 1 /\ 0 + 1 = 1 /\ 1 \in 0 .. Len(M) - 1 /\ 1 + 1 = 2
    BY <1>2, <1>4
  <2>2. /\ Joint(PrintSeqs(M), 1) = Joint(PrintSeqs(M), 0) \o M[1].prints
        /\ Joint(PrintSeqs(M), 2) = Joint(PrintSeqs(M), 1) \o M[2].prints
    BY <1>3, <2>1, TokenFields
  <2>3. Joint(PrintSeqs(M), 0) = <<>>
    BY <1>3, EndPosition
  <2>4. M[1].prints = <<"P">> /\ M[2].prints = <<"k">>
    BY <1>4 DEF Literal, Text
  <2>5. <<>> \o <<"P">> = <<"P">> /\ <<"P">> \o <<"k">> = <<"P", "k">>
    <3>1. PICK c, e : c = "P" /\ e = "k"
      OBVIOUS
    <3>2. PICK D : D = {c, e}
      OBVIOUS
    <3>3. JoinsTo(c, e, c, c, c)
      <4>1. c \in D /\ e \in D
        BY <3>2
      <4> QED
        BY ONLY <4>1, Tuples
    <3> QED
      BY <3>1, <3>3 DEF JoinsTo
  <2> QED
    BY ONLY <2>2, <2>3, <2>4, <2>5
<1>8. PICK a \in Seq(Char) : a = <<"P", "k">>
  <2>1. PICK c \in Char : c = "P"
    BY KernelsAssumption
  <2>2. PICK e \in Char : e = "k"
    BY KernelsAssumption
  <2>3. <<c, e>> \in Seq(Char)
    OBVIOUS
  <2> QED
    BY <2>1, <2>2, <2>3
<1> DEFINE T == {k \in Nat : k <= N => Joint(PrintSeqs(M), k + 2) = a \o Joint(PrintSeqs(m), k)}
<1>9. 0 \in T
  <2>1. a \o <<>> = a /\ Joint(PrintSeqs(m), 0) = <<>> /\ 0 + 2 = 2
    BY <1>3, ConcatEmptySeq, EndPosition
  <2>2. Joint(PrintSeqs(M), 0 + 2) = a \o Joint(PrintSeqs(m), 0)
    BY <1>7, <1>8, <2>1
  <2> QED
    BY <2>2
<1>10. ASSUME NEW k \in T PROVE k + 1 \in T
  <2> SUFFICES ASSUME k + 1 <= N
               PROVE  Joint(PrintSeqs(M), (k + 1) + 2) = a \o Joint(PrintSeqs(m), k + 1)
    OBVIOUS
  <2>1. /\ k \in 0 .. Len(m) - 1 /\ k + 2 \in 0 .. Len(M) - 1 /\ (k + 1) + 2 = (k + 2) + 1
        /\ k + 1 \in 1 .. N /\ k <= N
    BY <1>2, <1>4
  <2>2. Joint(PrintSeqs(M), k + 2) = a \o Joint(PrintSeqs(m), k)
    BY <2>1
  <2>3. M[(k + 2) + 1] = m[k + 1]
    BY <1>4, <2>1
  <2>4. Joint(PrintSeqs(M), (k + 2) + 1) = Joint(PrintSeqs(M), k + 2) \o M[(k + 2) + 1].prints
    BY <1>3, <2>1, TokenFields
  <2>5. /\ Joint(PrintSeqs(m), k + 1) = Joint(PrintSeqs(m), k) \o m[k + 1].prints
        /\ Joint(PrintSeqs(m), k) \in Seq(Char) /\ m[k + 1].prints \in Seq(Char)
    BY <1>3, <2>1, TokenFields
  <2>6. Associates(a, Joint(PrintSeqs(m), k), m[k + 1].prints)
    BY <2>5, Associativity
  <2> QED
    BY ONLY <2>1, <2>2, <2>3, <2>4, <2>5, <2>6 DEF Associates
<1>11. T \in SUBSET Nat
  OBVIOUS
<1>12. N \in T
  <2> HIDE DEF T
  <2>1. T = Nat
    BY <1>9, <1>10, <1>11, InductionOnNat
  <2> QED
    BY <2>1
<1>13. Joint(PrintSeqs(M), N + 2) = a \o Joint(PrintSeqs(m), N)
  BY <1>12
<1>14. Joint(PrintSeqs(M), N + 2) = PrintsOf(M) /\ Joint(PrintSeqs(m), N) = PrintsOf(m)
  BY <1>2, <1>3, <1>4, EndPosition
<1>15. PrintsOf(M) = <<"P", "k">> \o PrintsOf(m)
  BY <1>8, <1>13, <1>14
<1> QED
  BY <1>1, <1>3, <1>6, <1>15 DEF Prints

LEMMA SamePrints ==
  ASSUME NEW m, NEW m2, DOMAIN m = DOMAIN m2,
         \A k \in DOMAIN m : m[k].prints = m2[k].prints
  PROVE  PrintsOf(m) = PrintsOf(m2)
<1>1. [k \in DOMAIN m |-> m[k].prints] = [k \in DOMAIN m2 |-> m2[k].prints]
  OBVIOUS
<1> QED
  BY <1>1 DEF PrintsOf, Joined

\* "%x" shows an address as it is, whether or not an int can hold it.
LEMMA AddressPrints ==
  ASSUME NEW u \in 0 .. TwoTo[BITS] - 1
  PROVE  Bits(AsInt(u)).prints = Bits(u).prints
<1>1. PICK W \in Nat \ {0} : W = TwoTo[BITS]
  BY IntRange
<1>2. u \in 0 .. W - 1 /\ u \in Int
  BY <1>1
<1>3. (W * 0 + u) % W = u /\ (W * (-1) + u) % W = u
  BY ONLY <1>2, IntDivModUnique, 0 \in Int, -1 \in Int
<1>4. u % W = u /\ (u - W) % W = u
  <2>1. W * 0 + u = u /\ W * (-1) + u = u - W
    BY <1>2
  <2> QED
    BY ONLY <1>3, <2>1
<1>5. AsInt(u) % TwoTo[BITS] = u % TwoTo[BITS]
  <2>1. AsInt(u) = u \/ AsInt(u) = u - W
    BY <1>1 DEF AsInt
  <2> QED
    BY ONLY <1>1, <1>4, <2>1
<1>6. PICK x : x = AsInt(u)
  OBVIOUS
<1>7. [k \in 1 .. BITS \div 4 |-> Hex(((x % TwoTo[BITS]) \div TwoTo[4 * (BITS \div 4 - k)]) % 16)]
      = [k \in 1 .. BITS \div 4 |-> Hex(((u % TwoTo[BITS]) \div TwoTo[4 * (BITS \div 4 - k)]) % 16)]
  BY ONLY <1>5, <1>6
<1> QED
  BY <1>6, <1>7 DEF Bits

\* No statement of the kernels prints INT_MIN with "%d".
LEMMA NotIntMin ==
  /\ \A c : Literal(c) # Signed(INT_MIN)
  /\ \A w : Text(w) # Signed(INT_MIN)
  /\ \A v : Bits(v) # Signed(INT_MIN)
  /\ Signed(3) # Signed(INT_MIN)
<1>1. Signed(INT_MIN).chars = <<"%", "d">> /\ Signed(INT_MIN).args = <<[int |-> INT_MIN]>>
  BY DEF Signed
<1>2. \A c : Literal(c).chars = <<c>>
  BY DEF Literal
<1>3. \A w : Text(w).chars = <<"%", "s">>
  BY DEF Text
<1>4. \A v : Bits(v).chars = <<"%", "x">>
  BY DEF Bits
<1>5. Signed(3).args = <<[int |-> 3]>>
  BY DEF Signed
<1>6. <<[int |-> 3]>> # <<[int |-> INT_MIN]>>
  <2>1. 3 # INT_MIN
    BY IntRange
  <2>2. <<[int |-> 3]>>[1].int = 3 /\ <<[int |-> INT_MIN]>>[1].int = INT_MIN
    OBVIOUS
  <2> QED
    BY <2>1, <2>2
<1>7. \A c : <<c>> # <<"%", "d">>
  OBVIOUS
<1> QED
  BY <1>1, <1>2, <1>3, <1>4, <1>5, <1>6, <1>7

Letters == {"H", "R", "V", "=", "P", "k", "b", "0", "1", "3"}

LEMMA LetterTypes ==
  /\ Letters \subseteq Char \ {"%"}
  /\ Hex(3) = "3"
<1>1. Hex(0) = "0" /\ Hex(1) = "1" /\ Hex(3) = "3"
  BY DEF Hex, HexDigits
<1>2. Hex(0) \in Char /\ Hex(1) \in Char /\ Hex(3) \in Char
  <2>1. 0 \in 0 .. 15 /\ 1 \in 0 .. 15 /\ 3 \in 0 .. 15
    OBVIOUS
  <2> QED
    BY ONLY <2>1, HexIsChar
<1>3. Letters \subseteq Char \ {"%"}
  BY <1>1, <1>2, KernelsAssumption DEF Letters
<1> QED
  BY <1>1, <1>3

\* A token that prints one letter.
PrintsLetter(t, c) == IsToken(t) /\ t # Signed(INT_MIN) /\ t.prints = <<c>>

LEMMA LetterTokens ==
  ASSUME NEW c \in Letters
  PROVE  PrintsLetter(Literal(c), c) /\ PrintsLetter(Text(<<c>>), c)
<1>1. IsToken(Literal(c)) /\ IsToken(Text(<<c>>))
  BY LetterTypes, KernelTokens
<1>2. Literal(c) # Signed(INT_MIN) /\ Text(<<c>>) # Signed(INT_MIN)
  BY NotIntMin
<1>3. Literal(c).prints = <<c>> /\ Text(<<c>>).prints = <<c>>
  BY DEF Literal, Text
<1> QED
  BY <1>1, <1>2, <1>3 DEF PrintsLetter

LEMMA ShownChars ==
  /\ <<"R">> \o <<"V">> = <<"R", "V">>
  /\ <<"H">> \o <<"R", "V">> = <<"H", "R", "V">>
  /\ <<"=">> \o <<"3">> = <<"=", "3">>
  /\ <<"H", "R", "V">> \o <<"=", "3">> = <<"H", "R", "V", "=", "3">>
  /\ <<"P", "k">> \o <<"b">> = <<"P", "k", "b">>
  /\ <<"H">> \in Seq(Char) /\ <<"R", "V">> \in Seq(Char) /\ <<"=", "3">> \in Seq(Char)
  /\ <<"H", "R", "V">> \in Seq(Char) /\ <<"H", "R", "V", "=", "3">> \in Seq(Char)
  /\ <<"P", "k">> \in Seq(Char) /\ <<"b">> \in Seq(Char) /\ <<"P", "k", "b">> \in Seq(Char)
  /\ <<"0">> \in Seq(Char) /\ <<"1">> \in Seq(Char)
<1>1. Letters \subseteq Char
  BY LetterTypes
<1>2. PICK h \in Char, r \in Char, v \in Char, q \in Char, t \in Char,
           p \in Char, k \in Char, b \in Char, z \in Char, o \in Char :
        /\ h = "H" /\ r = "R" /\ v = "V" /\ q = "=" /\ t = "3"
        /\ p = "P" /\ k = "k" /\ b = "b" /\ z = "0" /\ o = "1"
  BY <1>1 DEF Letters
<1>3. JoinsTo(h, r, v, q, t)
  BY ONLY Tuples
<1>4. JoinsTo(r, v, v, q, t)
  BY ONLY Tuples
<1>5. JoinsTo(q, t, v, q, t)
  BY ONLY Tuples
<1>6. JoinsTo(p, k, b, q, t)
  BY ONLY Tuples
<1>7. /\ <<r>> \o <<v>> = <<r, v>>
      /\ <<h>> \o <<r, v>> = <<h, r, v>>
      /\ <<q>> \o <<t>> = <<q, t>>
      /\ <<h, r, v>> \o <<q, t>> = <<h, r, v, q, t>>
      /\ <<p, k>> \o <<b>> = <<p, k, b>>
  BY <1>3, <1>4, <1>5, <1>6 DEF JoinsTo
<1>8. /\ <<h>> \in Seq(Char) /\ <<r, v>> \in Seq(Char) /\ <<q, t>> \in Seq(Char)
      /\ <<h, r, v>> \in Seq(Char) /\ <<h, r, v, q, t>> \in Seq(Char)
      /\ <<p, k>> \in Seq(Char) /\ <<b>> \in Seq(Char) /\ <<p, k, b>> \in Seq(Char)
      /\ <<z>> \in Seq(Char) /\ <<o>> \in Seq(Char)
  OBVIOUS
<1> QED
  BY ONLY <1>2, <1>7, <1>8

LEMMA OneAddress ==
  ASSUME NEW u \in 0 .. TwoTo[BITS] - 1
  PROVE  /\ Bits(AsInt(u)).prints = PrintsOf(<<Bits(u)>>)
         /\ PrintsOf(<<Bits(u)>>) \in Seq(Char)
<1>1. PICK v \in INT_MIN .. INT_MAX : v = AsInt(u)
  BY AddressIsInt
<1>2. PICK t : t = Bits(v)
  OBVIOUS
<1>3. PICK t2 : t2 = Bits(u)
  OBVIOUS
<1>4. IsToken(t) /\ t # Signed(INT_MIN) /\ t.prints \in Seq(Char)
  BY <1>2, KernelTokens, NotIntMin, BitsPrints
<1>5. PrintsOf(<<t>>) = t.prints
  BY <1>4, OneToken DEF Prints
<1>6. t.prints = t2.prints
  BY <1>1, <1>2, <1>3, AddressPrints
<1>7. PrintsOf(<<t>>) = PrintsOf(<<t2>>)
  <2>1. PICK m : m = <<t>>
    OBVIOUS
  <2>2. PICK m2 : m2 = <<t2>>
    OBVIOUS
  <2>3. DOMAIN m = DOMAIN m2 /\ \A k \in DOMAIN m : m[k] = t /\ m2[k] = t2
    BY <2>1, <2>2
  <2>4. \A k \in DOMAIN m : m[k].prints = m2[k].prints
    BY <1>6, <2>3
  <2>5. PrintsOf(m) = PrintsOf(m2)
    BY <2>3, <2>4, SamePrints
  <2> QED
    BY <2>1, <2>2, <2>5
<1> QED
  BY <1>1, <1>2, <1>3, <1>4, <1>5, <1>6, <1>7

LEMMA BlockAddresses ==
  /\ FREE_RAM \in 0 .. TwoTo[BITS] - 1
  /\ FREE_RAM + 5 * PAGE_SIZE \in 0 .. TwoTo[BITS] - 1
  /\ FREE_RAM + 8 * PAGE_SIZE \in 0 .. TwoTo[BITS] - 1
<1>1. PICK W \in Nat \ {0} : W = TwoTo[BITS]
  BY IntRange
<1>2. FREE_RAM \in Nat /\ PAGE_SIZE \in Nat /\ FREE_RAM + 8 * PAGE_SIZE <= W - 1
  BY <1>1, KernelsAssumption
<1> QED
  BY <1>1, <1>2

LEMMA BlockTypes ==
  /\ Block0 \in Seq(Char) /\ Block1 \in Seq(Char)
  /\ <<"0">> \o Block0 \in Seq(Char)
  /\ (<<"0">> \o Block0) \o (<<"1">> \o Block1) = <<"0">> \o Block0 \o <<"1">> \o Block1
  /\ <<"0">> \o Block0 \o <<"1">> \o Block1 \in Seq(Char)
  /\ <<"1">> \o Block1 \in Seq(Char)
<1>1. PICK x \in Seq(Char) : x = Block0
  BY BlockAddresses, OneAddress DEF Block0
<1>2. PICK y \in Seq(Char) : y = Block1
  BY BlockAddresses, OneAddress DEF Block1
<1>3. PICK p \in Seq(Char) : p = <<"0">>
  BY ShownChars
<1>4. PICK q \in Seq(Char) : q = <<"1">>
  BY ShownChars
<1>5. PICK px \in Seq(Char) : px = p \o x
  BY ConcatProperties
<1>6. q \o y \in Seq(Char)
  BY ConcatProperties
<1>7. Associates(px, q, y)
  BY Associativity
<1>8. px \o (q \o y) \in Seq(Char)
  BY <1>6, ConcatProperties
<1> QED
  BY ONLY <1>1, <1>2, <1>3, <1>4, <1>5, <1>6, <1>7, <1>8 DEF Associates

\* What is asked for until a call, and what the call asks for.
Calls(m, w) ==
  /\ Prints(m, w) /\ w \in Seq(Char)

LEMMA BootedMessage ==
  Calls(PANIC(<<Literal("b")>>).message, <<"P", "k", "b">>)
<1>0. "b" \in Letters
  BY DEF Letters
<1>1. PICK t : t = Literal("b")
  OBVIOUS
<1>2. IsToken(t) /\ t # Signed(INT_MIN) /\ t.prints = <<"b">>
  BY <1>1, <1>0, LetterTokens DEF PrintsLetter
<1>3. PICK m : m = <<t>>
  OBVIOUS
<1>4. m \in Seq({t})
  BY <1>3
<1>5. Prints(PANIC(m).message, <<"P", "k">> \o PrintsOf(m))
  BY <1>2, <1>4, PanicPrints
<1>6. PrintsOf(m) = <<"b">>
  BY <1>2, <1>3, OneToken DEF Prints
<1>7. <<"P", "k", "b">> \in Seq(Char)
  BY ShownChars
<1> QED
  BY <1>1, <1>3, <1>5, <1>6, <1>7, ShownChars DEF Calls

LEMMA OutputMessages ==
  /\ Calls(<<Literal("H")>>, <<"H">>)
  /\ Calls(<<Literal("R"), Text(<<"V">>)>>, <<"R", "V">>)
  /\ Calls(<<Literal("="), Signed(1 + 2)>>, <<"=", "3">>)
<1>0. "H" \in Letters /\ "R" \in Letters /\ "V" \in Letters /\ "=" \in Letters
  BY DEF Letters
<1>1. Calls(<<Literal("H")>>, <<"H">>)
  <2>1. PICK t : t = Literal("H")
    OBVIOUS
  <2>2. IsToken(t) /\ t # Signed(INT_MIN) /\ t.prints = <<"H">>
    BY <2>1, <1>0, LetterTokens DEF PrintsLetter
  <2>3. <<"H">> \in Seq(Char)
    BY ShownChars
  <2> QED
    BY <2>1, <2>2, <2>3, OneToken DEF Calls
<1>2. Calls(<<Literal("R"), Text(<<"V">>)>>, <<"R", "V">>)
  <2>1. PICK t : t = Literal("R")
    OBVIOUS
  <2>2. PICK u : u = Text(<<"V">>)
    OBVIOUS
  <2>3. IsToken(t) /\ t # Signed(INT_MIN) /\ t.prints = <<"R">>
    BY <2>1, <1>0, LetterTokens DEF PrintsLetter
  <2>4. IsToken(u) /\ u # Signed(INT_MIN) /\ u.prints = <<"V">>
    BY <2>2, <1>0, LetterTokens DEF PrintsLetter
  <2>5. Prints(<<t, u>>, t.prints \o u.prints)
    BY <2>3, <2>4, TwoTokens
  <2>6. <<"R", "V">> \in Seq(Char)
    BY ShownChars
  <2> QED
    BY <2>1, <2>2, <2>3, <2>4, <2>5, <2>6, ShownChars DEF Calls
<1>3. Calls(<<Literal("="), Signed(1 + 2)>>, <<"=", "3">>)
  <2>1. PICK t : t = Literal("=")
    OBVIOUS
  <2>2. PICK u : u = Signed(3)
    OBVIOUS
  <2>3. IsToken(t) /\ t # Signed(INT_MIN) /\ t.prints = <<"=">>
    BY <2>1, <1>0, LetterTokens DEF PrintsLetter
  <2>4. 3 \in INT_MIN .. INT_MAX
    BY IntRange
  <2>5. Numeral[3] = <<"3">>
    <3>1. 3 \in Nat /\ 3 < 10
      OBVIOUS
    <3>2. Numeral[3] = <<Hex(3)>>
      BY ONLY <3>1, NumeralSteps
    <3> QED
      BY <3>2, LetterTypes
  <2>6. u.prints = <<"3">>
    BY <2>2, <2>5 DEF Signed
  <2>7. IsToken(u) /\ u # Signed(INT_MIN)
    BY <2>2, <2>4, KernelTokens, NotIntMin
  <2>8. Prints(<<t, u>>, t.prints \o u.prints)
    BY <2>3, <2>7, TwoTokens
  <2>9. <<"=", "3">> \in Seq(Char) /\ 1 + 2 = 3
    BY ShownChars
  <2> QED
    BY <2>1, <2>2, <2>3, <2>6, <2>8, <2>9, ShownChars DEF Calls
<1> QED
  BY <1>1, <1>2, <1>3

LEMMA MemoryMessages ==
  ASSUME NEW c \in {"0", "1"}, NEW u \in 0 .. TwoTo[BITS] - 1
  PROVE  Prints(<<Literal(c), Bits(AsInt(u))>>, <<c>> \o PrintsOf(<<Bits(u)>>))
<1>0. c \in Letters
  BY DEF Letters
<1>1. PICK t : t = Literal(c)
  OBVIOUS
<1>2. PICK w : w = Bits(AsInt(u))
  OBVIOUS
<1>3. IsToken(t) /\ t # Signed(INT_MIN) /\ t.prints = <<c>>
  BY <1>1, <1>0, LetterTokens DEF PrintsLetter
<1>4. AsInt(u) \in INT_MIN .. INT_MAX
  BY AddressIsInt
<1>5. IsToken(w) /\ w # Signed(INT_MIN)
  BY <1>2, <1>4, KernelTokens, NotIntMin
<1>6. w.prints = PrintsOf(<<Bits(u)>>)
  BY <1>2, OneAddress
<1>7. Prints(<<t, w>>, t.prints \o w.prints)
  BY <1>3, <1>5, TwoTokens
<1> QED
  BY <1>1, <1>2, <1>3, <1>6, <1>7

\* handle_trap's PANIC shows the cause, the value and the place.
LEMMA TrapMessage ==
  ASSUME NEW stval \in {0, 1}
  PROVE  LET m == PANIC(<<Bits(2), Bits(stval), Bits(AsInt(UNIMP))>>).message
             w == <<"P", "k">> \o PrintsOf(<<Bits(2), Bits(stval), Bits(UNIMP)>>)
         IN  Calls(m, w)
<1>1. PICK t : t = Bits(2)
  OBVIOUS
<1>2. PICK u : u = Bits(stval)
  OBVIOUS
<1>3. PICK x : x = Bits(AsInt(UNIMP))
  OBVIOUS
<1>4. PICK y : y = Bits(UNIMP)
  OBVIOUS
<1>5. 2 \in INT_MIN .. INT_MAX /\ stval \in INT_MIN .. INT_MAX
  BY IntRange
<1>6. AsInt(UNIMP) \in INT_MIN .. INT_MAX /\ UNIMP \in 0 .. TwoTo[BITS] - 1
  BY AddressIsInt, KernelsAssumption
<1>7. PICK C : C = {t, u, x}
  OBVIOUS
<1>8. \A z \in C : IsToken(z) /\ z # Signed(INT_MIN)
  <2>1. IsToken(t) /\ t # Signed(INT_MIN)
    BY <1>1, <1>5, KernelTokens, NotIntMin
  <2>2. IsToken(u) /\ u # Signed(INT_MIN)
    BY <1>2, <1>5, KernelTokens, NotIntMin
  <2>3. IsToken(x) /\ x # Signed(INT_MIN)
    BY <1>3, <1>6, KernelTokens, NotIntMin
  <2> QED
    BY <1>7, <2>1, <2>2, <2>3
<1>9. PICK m : m = <<t, u, x>>
  OBVIOUS
<1>10. PICK m2 : m2 = <<t, u, y>>
  OBVIOUS
<1>11. m \in Seq(C)
  BY <1>7, <1>9
<1>12. Prints(PANIC(m).message, <<"P", "k">> \o PrintsOf(m))
  BY <1>8, <1>11, PanicPrints
<1>13. x.prints = y.prints
  BY <1>3, <1>4, <1>6, AddressPrints
<1>14. /\ DOMAIN m = {1, 2, 3} /\ DOMAIN m2 = {1, 2, 3}
       /\ m[1] = t /\ m[2] = u /\ m[3] = x /\ m2[1] = t /\ m2[2] = u /\ m2[3] = y
  BY <1>9, <1>10
<1>15. PrintsOf(m) = PrintsOf(m2)
  <2>1. \A k \in DOMAIN m : m[k].prints = m2[k].prints
    BY <1>13, <1>14
  <2> QED
    BY <1>14, <2>1, SamePrints
<1>16. <<"P", "k">> \o PrintsOf(m) \in Seq(Char)
  <2>1. PrintsOf(m) \in Seq(Char)
    BY <1>8, <1>11, TokensMakeMessage, EndPosition
  <2>2. <<"P", "k">> \in Seq(Char)
    BY ShownChars
  <2> QED
    BY <2>1, <2>2, ConcatProperties
<1>17. Calls(PANIC(m).message, <<"P", "k">> \o PrintsOf(m2))
  BY <1>12, <1>15, <1>16 DEF Calls
<1> QED
  BY <1>1, <1>2, <1>3, <1>4, <1>9, <1>10, <1>17

LEMMA ShownTypes ==
  ASSUME kernel \in Kernels
  PROVE  Shown \subseteq Seq(Char) /\ Shown # {}
<1>1. CASE kernel = "simple"
  BY <1>1 DEF Shown
<1>2. CASE kernel = "output"
  BY <1>2, ShownChars DEF Shown
<1>3. CASE kernel = "panic"
  BY <1>3, ShownChars DEF Shown
<1>4. CASE kernel = "exception"
  <2>1. Shown = {<<"P", "k">> \o PrintsOf(<<Bits(2), Bits(stval), Bits(UNIMP)>>) : stval \in {0, 1}}
    BY <1>4 DEF Shown
  <2>2. \A stval \in {0, 1} :
          <<"P", "k">> \o PrintsOf(<<Bits(2), Bits(stval), Bits(UNIMP)>>) \in Seq(Char)
    BY TrapMessage DEF Calls
  <2> QED
    BY ONLY <2>1, <2>2
<1>5. CASE kernel = "memory"
  <2>1. Shown = {<<"0">> \o Block0 \o <<"1">> \o Block1 \o <<"P", "k", "b">>}
    BY <1>5 DEF Shown, Block0, Block1
  <2>2. <<"0">> \o Block0 \o <<"1">> \o Block1 \o <<"P", "k", "b">> \in Seq(Char)
    <3>1. PICK w \in Seq(Char) : w = <<"0">> \o Block0 \o <<"1">> \o Block1
      BY BlockTypes
    <3>2. PICK v \in Seq(Char) : v = <<"P", "k", "b">>
      BY ShownChars
    <3>3. w \o v \in Seq(Char)
      BY ConcatProperties
    <3> QED
      BY ONLY <3>1, <3>2, <3>3
  <2> QED
    BY ONLY <2>1, <2>2
<1> QED
  BY <1>1, <1>2, <1>3, <1>4, <1>5 DEF Kernels

\* What the kernel has asked for is the beginning of what should be shown.
LEMMA AskedBegins ==
  ASSUME kernel \in Kernels, line \in 1 .. LastLine, NEW w \in Asked
  PROVE  \E m \in Shown : Begins(w, m)
<1>0. \A m \in Shown : m \in Seq(Char) /\ Begins(m, m) /\ Begins(<<>>, m)
  BY ShownTypes, BeginsRules
<1>1. CASE panic # "none"
  BY <1>0, <1>1 DEF Asked
<1>2. CASE panic = "none" /\ kernel = "output"
  <2>0. Shown = {<<"H", "R", "V", "=", "3">>} /\ line \in {1, 2, 3, 4}
    BY <1>2 DEF Shown, LastLine
  <2>1. Begins(<<"H">>, <<"H", "R", "V">>)
    <3>1. Begins(<<"H">>, <<"H">> \o <<"R", "V">>)
      BY ONLY BeginsRules, ShownChars
    <3> QED
      BY ONLY <3>1, ShownChars
  <2>2. Begins(<<"H", "R", "V">>, <<"H", "R", "V", "=", "3">>)
    <3>1. Begins(<<"H", "R", "V">>, <<"H", "R", "V">> \o <<"=", "3">>)
      BY ONLY BeginsRules, ShownChars
    <3> QED
      BY ONLY <3>1, ShownChars
  <2>3. Begins(<<"H">>, <<"H", "R", "V", "=", "3">>)
    BY <2>1, <2>2, BeginsTrans
  <2>4. w \in {<<>>, <<"H">>, <<"H", "R", "V">>, <<"H", "R", "V", "=", "3">>}
    BY <1>2, <2>0 DEF Asked
  <2> QED
    BY <1>0, <2>0, <2>2, <2>3, <2>4
<1>3. CASE panic = "none" /\ kernel = "memory"
  <2>0. /\ Shown = {<<"0">> \o Block0 \o <<"1">> \o Block1 \o <<"P", "k", "b">>}
        /\ line \in {1, 2, 3, 4, 5, 6}
    BY <1>3 DEF Shown, LastLine, Block0, Block1
  <2>1. PICK a \in Seq(Char) : a = <<"0">> \o Block0
    BY BlockTypes
  <2>2. PICK b \in Seq(Char) : b = <<"0">> \o Block0 \o <<"1">> \o Block1
    BY BlockTypes
  <2>3. PICK c \in Seq(Char) : c = <<"1">> \o Block1
    BY BlockTypes
  <2>4. PICK v \in Seq(Char) : v = <<"P", "k", "b">>
    BY ShownChars
  <2>5. b = a \o c
    BY ONLY <2>1, <2>2, <2>3, BlockTypes
  <2>6. Begins(a, b) /\ Begins(b, b \o v)
    BY <2>5, BeginsRules
  <2>7. Begins(a, b \o v)
    BY <2>6, BeginsTrans
  <2>8. Shown = {b \o v}
    BY ONLY <2>0, <2>2, <2>4
  <2>9. w \in {<<>>, a, b}
    BY <1>3, <2>0, <2>1, <2>2 DEF Asked
  <2> QED
    BY <1>0, <2>6, <2>7, <2>8, <2>9
<1>4. CASE panic = "none" /\ kernel \notin {"output", "memory"}
  <2>1. w = <<>>
    BY <1>4 DEF Asked
  <2> QED
    BY <1>0, <2>1, ShownTypes
<1> QED
  BY <1>1, <1>2, <1>3, <1>4

LEMMA AskedAtEnd ==
  ASSUME KernelsInv, kernel \in Kernels, Ended
  PROVE  Asked = Shown
<1>1. CASE panic # "none"
  BY <1>1 DEF Asked
<1>2. CASE panic = "none"
  <2>1. kernel_main[line].do = "for" /\ line \in 1 .. LastLine
    BY <1>2 DEF Ended, At, KernelsInv
  <2>2. CASE kernel = "simple"
    BY <1>2, <2>2 DEF Asked, Shown
  <2>3. CASE kernel = "output"
    <3>1. /\ OutputMain[1].do = "printf" /\ OutputMain[2].do = "printf"
          /\ OutputMain[3].do = "printf" /\ line \in {1, 2, 3, 4} /\ kernel_main = OutputMain
      BY <2>1, <2>3 DEF OutputMain, Say, Do, kernel_main, LastLine
    <3>2. line = 4
      BY <2>1, <3>1
    <3> QED
      BY <1>2, <2>3, <3>2 DEF Asked, Shown
  <2>4. CASE kernel = "panic"
    <3>1. /\ PanicMain[1].do = "memset" /\ PanicMain[2].do = "panic"
          /\ line \in {1, 2} /\ kernel_main = PanicMain
      BY <2>1, <2>4 DEF PanicMain, PANIC, Say, Do, kernel_main, LastLine
    <3> QED
      BY <2>1, <3>1
  <2>5. CASE kernel = "exception"
    <3>1. /\ ExceptionMain[1].do = "memset" /\ ExceptionMain[2].do = "stvec"
          /\ ExceptionMain[3].do = "unimp" /\ line \in {1, 2, 3} /\ kernel_main = ExceptionMain
      BY <2>1, <2>5 DEF ExceptionMain, Do, kernel_main, LastLine
    <3> QED
      BY <2>1, <3>1
  <2>6. CASE kernel = "memory"
    <3>1. /\ MemoryMain[1].do = "memset" /\ MemoryMain[2].do = "paddr0"
          /\ MemoryMain[3].do = "paddr1" /\ MemoryMain[4].do = "printf"
          /\ MemoryMain[5].do = "printf" /\ MemoryMain[6].do = "panic"
          /\ line \in {1, 2, 3, 4, 5, 6} /\ kernel_main = MemoryMain
      BY <2>1, <2>6 DEF MemoryMain, PANIC, Say, Do, kernel_main, LastLine
    <3> QED
      BY <2>1, <3>1
  <2> QED
    BY <2>2, <2>3, <2>4, <2>5, <2>6 DEF Kernels
<1> QED
  BY <1>1, <1>2

LEMMA OutIsChars ==
  ASSUME OutputInv, ~ PrintsIntMin
  PROVE  /\ Begins(out, PrintsOf(message)) /\ out \in Seq(Char)
         /\ Console = printed \o out
         /\ pc = "return" => out = PrintsOf(message)
<1>1. Begins(out, PrintsOf(message))
  BY InvGivesPrefix DEF OutputInv
<1>2. out \in Seq(Char)
  BY <1>1 DEF Begins
<1>3. pc = "return" => out = PrintsOf(message)
  BY InvGivesOutput DEF OutputInv, OutputCorrect, PrintsMessage
<1> QED
  BY <1>1, <1>2, <1>3, ConsoleOut

LEMMA InvGivesConsole ==
  ASSUME KernelsInv, OutputInv, ConsoleInv
  PROVE  ShowsNothingElse
<1> SUFFICES ASSUME kernel \in Kernels
             PROVE  /\ \E m \in Shown : IsPrefix(Console, m)
                    /\ Ended => Console \in Shown
  BY DEF ShowsNothingElse, KernelsInv
<1>1. ~ PrintsIntMin /\ printed \in Seq(Char) /\ printed \o PrintsOf(message) \in Asked
  BY DEF ConsoleInv
<1>2. PICK w \in Asked : w = printed \o PrintsOf(message)
  BY <1>1
<1>3. Begins(printed \o out, w)
  BY <1>1, <1>2, OutIsChars, BeginsAfter
<1>4. PICK m \in Shown : Begins(w, m)
  BY AskedBegins DEF KernelsInv
<1>5. Begins(Console, m)
  BY <1>1, <1>3, <1>4, BeginsTrans, OutIsChars
<1>6. IsPrefix(Console, m)
  BY <1>5, BeginsIsPrefix
<1>7. ASSUME Ended PROVE Console \in Shown
  <2>1. pc = "return"
    BY <1>7 DEF Ended, At
  <2>2. Console = w
    BY <1>1, <1>2, <2>1, OutIsChars
  <2> QED
    BY <1>7, <2>2, AskedAtEnd
<1> QED
  BY <1>6, <1>7

LEMMA MessageStays ==
  ASSUME [Next]_vars
  PROVE  message' = message
BY DEF Next, vars, EndOfFormat, RegularCharacter, PercentAtEnd, OtherSpecifier,
  StringSpecifier, DecimalSpecifier, GrowDivisor, PutDigit, LastDigitPut,
  HexSpecifier, PutHexDigit, LastHexDigitPut

\* When a kernel calls printf, the call before it has shown its whole message.
LEMMA CallShows ==
  ASSUME OutputInv, ConsoleInv, kernel \in Kernels, pc = "return",
         NEW m, NEW w, Calls(m, w), Call(m)
  PROVE  /\ printed' = printed \o PrintsOf(message)
         /\ printed' \in Seq(Char)
         /\ ~ PrintsIntMin'
         /\ PrintsOf(message') = w
<1>1. printed \in Seq(Char) /\ ~ PrintsIntMin
  BY DEF ConsoleInv
<1>2. printed' = printed \o out /\ out \in Seq(Char) /\ out = PrintsOf(message)
  BY <1>1, OutIsChars DEF Call
<1>3. printed \o out \in Seq(Char)
  BY <1>1, <1>2, ConcatProperties
<1>4. message' = m /\ PrintsOf(m) = w /\ \A k \in DOMAIN m : m[k] # Signed(INT_MIN)
  BY DEF Call, Calls, Prints
<1>5. ~ PrintsIntMin'
  BY <1>4 DEF PrintsIntMin
<1> QED
  BY <1>2, <1>3, <1>4, <1>5

\* The statements of kernel_main that print.
LEMMA PrintfStatements ==
  ASSUME KernelsInv, At("printf")
  PROVE  \/ kernel = "output" /\ line = 1 /\ kernel_main[line].message = <<Literal("H")>>
         \/ /\ kernel = "output" /\ line = 2
            /\ kernel_main[line].message = <<Literal("R"), Text(<<"V">>)>>
         \/ /\ kernel = "output" /\ line = 3
            /\ kernel_main[line].message = <<Literal("="), Signed(1 + 2)>>
         \/ /\ kernel = "memory" /\ line = 4
            /\ kernel_main[line].message = <<Literal("0"), Bits(AsInt(paddr0))>>
         \/ /\ kernel = "memory" /\ line = 5
            /\ kernel_main[line].message = <<Literal("1"), Bits(AsInt(paddr1))>>
<1>1. kernel \in Kernels /\ kernel_main[line].do = "printf" /\ line \in 1 .. LastLine
  BY AtKernel DEF KernelsInv
<1>2. CASE kernel = "simple"
  <2>1. /\ SimpleMain[1].do = "memset" /\ SimpleMain[2].do = "for"
        /\ line \in {1, 2} /\ kernel_main = SimpleMain
    BY <1>1, <1>2 DEF SimpleMain, Do, kernel_main, LastLine
  <2> QED
    BY <1>1, <2>1
<1>3. CASE kernel = "output"
  <2>1. /\ OutputMain[4].do = "for"
        /\ OutputMain[1].message = <<Literal("H")>>
        /\ OutputMain[2].message = <<Literal("R"), Text(<<"V">>)>>
        /\ OutputMain[3].message = <<Literal("="), Signed(1 + 2)>>
        /\ line \in {1, 2, 3, 4} /\ kernel_main = OutputMain
    BY <1>1, <1>3 DEF OutputMain, Say, Do, kernel_main, LastLine
  <2> QED
    BY <1>1, <1>3, <2>1
<1>4. CASE kernel = "panic"
  <2>1. /\ PanicMain[1].do = "memset" /\ PanicMain[2].do = "panic"
        /\ line \in {1, 2} /\ kernel_main = PanicMain
    BY <1>1, <1>4 DEF PanicMain, PANIC, Say, Do, kernel_main, LastLine
  <2> QED
    BY <1>1, <2>1
<1>5. CASE kernel = "exception"
  <2>1. /\ ExceptionMain[1].do = "memset" /\ ExceptionMain[2].do = "stvec"
        /\ ExceptionMain[3].do = "unimp" /\ line \in {1, 2, 3} /\ kernel_main = ExceptionMain
    BY <1>1, <1>5 DEF ExceptionMain, Do, kernel_main, LastLine
  <2> QED
    BY <1>1, <2>1
<1>6. CASE kernel = "memory"
  <2>1. /\ MemoryMain[1].do = "memset" /\ MemoryMain[2].do = "paddr0"
        /\ MemoryMain[3].do = "paddr1" /\ MemoryMain[6].do = "panic"
        /\ MemoryMain[4].message = <<Literal("0"), Bits(AsInt(paddr0))>>
        /\ MemoryMain[5].message = <<Literal("1"), Bits(AsInt(paddr1))>>
        /\ line \in {1, 2, 3, 4, 5, 6} /\ kernel_main = MemoryMain
    BY <1>1, <1>6 DEF MemoryMain, PANIC, Say, Do, kernel_main, LastLine
  <2> QED
    BY <1>1, <1>6, <2>1
<1> QED
  BY <1>1, <1>2, <1>3, <1>4, <1>5, <1>6 DEF Kernels

\* Where the other statements are.
LEMMA OtherStatements ==
  ASSUME KernelsInv,
         NEW what \in {"memset", "stvec", "unimp", "paddr0", "paddr1", "panic"}, At(what)
  PROVE  /\ what = "memset" => kernel # "output" /\ line = 1
         /\ what \in {"stvec", "unimp"} => kernel = "exception"
         /\ what = "paddr0" => kernel = "memory" /\ line = 2
         /\ what = "paddr1" => kernel = "memory" /\ line = 3
         /\ what = "panic" =>
              /\ \/ kernel = "panic" /\ line = 2
                 \/ kernel = "memory" /\ line = 6
              /\ kernel_main[line].message = PANIC(<<Literal("b")>>).message
<1>1. kernel \in Kernels /\ kernel_main[line].do = what /\ line \in 1 .. LastLine
  BY AtKernel DEF KernelsInv
<1>2. CASE kernel = "simple"
  <2>1. /\ SimpleMain[1].do = "memset" /\ SimpleMain[2].do = "for"
        /\ line \in {1, 2} /\ kernel_main = SimpleMain
    BY <1>1, <1>2 DEF SimpleMain, Do, kernel_main, LastLine
  <2> QED
    BY <1>1, <1>2, <2>1
<1>3. CASE kernel = "output"
  <2>1. /\ OutputMain[1].do = "printf" /\ OutputMain[2].do = "printf"
        /\ OutputMain[3].do = "printf" /\ OutputMain[4].do = "for"
        /\ line \in {1, 2, 3, 4} /\ kernel_main = OutputMain
    BY <1>1, <1>3 DEF OutputMain, Say, Do, kernel_main, LastLine
  <2> QED
    BY <1>1, <2>1
<1>4. CASE kernel = "panic"
  <2>1. /\ PanicMain[1].do = "memset" /\ PanicMain[2].do = "panic"
        /\ PanicMain[2].message = PANIC(<<Literal("b")>>).message
        /\ line \in {1, 2} /\ kernel_main = PanicMain
    BY <1>1, <1>4 DEF PanicMain, PANIC, Say, Do, kernel_main, LastLine
  <2> QED
    BY <1>1, <1>4, <2>1
<1>5. CASE kernel = "exception"
  <2>1. /\ ExceptionMain[1].do = "memset" /\ ExceptionMain[2].do = "stvec"
        /\ ExceptionMain[3].do = "unimp" /\ line \in {1, 2, 3} /\ kernel_main = ExceptionMain
    BY <1>1, <1>5 DEF ExceptionMain, Do, kernel_main, LastLine
  <2> QED
    BY <1>1, <1>5, <2>1
<1>6. CASE kernel = "memory"
  <2>1. /\ MemoryMain[1].do = "memset" /\ MemoryMain[2].do = "paddr0"
        /\ MemoryMain[3].do = "paddr1" /\ MemoryMain[4].do = "printf"
        /\ MemoryMain[5].do = "printf" /\ MemoryMain[6].do = "panic"
        /\ MemoryMain[6].message = PANIC(<<Literal("b")>>).message
        /\ line \in {1, 2, 3, 4, 5, 6} /\ kernel_main = MemoryMain
    BY <1>1, <1>6 DEF MemoryMain, PANIC, Say, Do, kernel_main, LastLine
  <2> QED
    BY <1>1, <1>6, <2>1
<1> QED
  BY <1>1, <1>2, <1>3, <1>4, <1>5, <1>6 DEF Kernels

LEMMA ConsoleInitInv == CommonInit => ConsoleInv
<1> SUFFICES ASSUME CommonInit, kernel \in Kernels PROVE ConsoleInv
  BY DEF ConsoleInv
<1>1. PrintfIdle /\ boot
  BY DEF CommonInit, NoKernel, Kernels
<1>2. message = <<>> /\ printed = <<>> /\ line = 1 /\ panic = "none" /\ next_paddr = FREE_RAM
  BY <1>1 DEF PrintfIdle, boot
<1>3. ~ PrintsIntMin
  BY <1>2 DEF PrintsIntMin
<1>4. PrintsOf(message) = <<>>
  <2>1. IsMessage(message) /\ Len(message) = 0
    BY <1>1, <1>2, IdleInv DEF PrintfInv
  <2> QED
    BY <2>1, EndPosition
<1>5. printed \o PrintsOf(message) = <<>> /\ printed \in Seq(Char)
  <2>1. <<>> \in Seq(Char)
    OBVIOUS
  <2>2. <<>> \o <<>> = <<>>
    BY <2>1, ConcatEmptySeq
  <2> QED
    BY <1>2, <1>4, <2>1, <2>2
<1>6. Asked = {<<>>}
  BY <1>2 DEF Asked
<1>7. RamAt
  BY <1>2 DEF RamAt
<1> QED
  BY <1>3, <1>5, <1>6, <1>7 DEF ConsoleInv

LEMMA CallPrintfConsole ==
  ASSUME KernelsInv, OutputInv, ConsoleInv, CallPrintf
  PROVE  ConsoleInv'
<1>1. /\ kernel \in Kernels /\ panic = "none" /\ pc = "return" /\ At("printf")
      /\ Call(kernel_main[line].message)
      /\ line' = line + 1 /\ kernel' = kernel /\ panic' = panic
      /\ paddr0' = paddr0 /\ paddr1' = paddr1 /\ next_paddr' = next_paddr
      /\ line \in 1 .. LastLine
  BY AtKernel DEF CallPrintf, At, KernelsInv, ram
<1>2. PICK x : x = printed \o PrintsOf(message)
  OBVIOUS
<1>3. x \in Asked /\ RamAt
  BY <1>1, <1>2 DEF ConsoleInv
<1>4. RamAt'
  BY <1>1, <1>3, PrintfStatements DEF RamAt
<1>5. ASSUME NEW m, NEW w, Calls(m, w), kernel_main[line].message = m, Asked' = {x \o w}
      PROVE  ConsoleInv'
  <2>1. /\ printed' = x /\ printed' \in Seq(Char) /\ ~ PrintsIntMin' /\ PrintsOf(message') = w
    BY <1>1, <1>2, <1>5, CallShows
  <2>2. printed' \o PrintsOf(message') \in Asked'
    BY ONLY <1>5, <2>1
  <2> QED
    BY <1>4, <2>1, <2>2 DEF ConsoleInv
<1>6. CASE kernel = "output" /\ line = 1 /\ kernel_main[line].message = <<Literal("H")>>
  <2>1. x = <<>> /\ Asked' = {<<"H">>}
    BY <1>1, <1>3, <1>6 DEF Asked
  <2>2. <<>> \o <<"H">> = <<"H">>
    BY ShownChars, ConcatEmptySeq
  <2>3. Calls(<<Literal("H")>>, <<"H">>)
    BY OutputMessages
  <2> QED
    BY <1>5, <1>6, <2>1, <2>2, <2>3
<1>7. CASE /\ kernel = "output" /\ line = 2
           /\ kernel_main[line].message = <<Literal("R"), Text(<<"V">>)>>
  <2>1. x = <<"H">> /\ Asked' = {<<"H", "R", "V">>}
    BY <1>1, <1>3, <1>7 DEF Asked
  <2>2. Asked' = {x \o <<"R", "V">>}
    BY <2>1, ShownChars
  <2>3. Calls(<<Literal("R"), Text(<<"V">>)>>, <<"R", "V">>)
    BY OutputMessages
  <2> QED
    BY <1>5, <1>7, <2>2, <2>3
<1>8. CASE /\ kernel = "output" /\ line = 3
           /\ kernel_main[line].message = <<Literal("="), Signed(1 + 2)>>
  <2>1. x = <<"H", "R", "V">> /\ Asked' = {<<"H", "R", "V", "=", "3">>}
    BY <1>1, <1>3, <1>8 DEF Asked
  <2>2. Asked' = {x \o <<"=", "3">>}
    BY <2>1, ShownChars
  <2>3. Calls(<<Literal("="), Signed(1 + 2)>>, <<"=", "3">>)
    BY OutputMessages
  <2> QED
    BY <1>5, <1>8, <2>2, <2>3
<1>9. CASE /\ kernel = "memory" /\ line = 4
           /\ kernel_main[line].message = <<Literal("0"), Bits(AsInt(paddr0))>>
  <2>1. x = <<>> /\ Asked' = {<<"0">> \o Block0}
    BY <1>1, <1>3, <1>9 DEF Asked
  <2>2. paddr0 = FREE_RAM
    BY <1>3, <1>9 DEF RamAt
  <2>3. Calls(<<Literal("0"), Bits(AsInt(paddr0))>>, <<"0">> \o Block0)
    BY <2>2, MemoryMessages, BlockAddresses, BlockTypes DEF Calls, Block0
  <2>4. <<>> \o (<<"0">> \o Block0) = <<"0">> \o Block0
    BY BlockTypes, ConcatEmptySeq
  <2>5. Asked' = {x \o (<<"0">> \o Block0)}
    BY ONLY <2>1, <2>4
  <2> QED
    BY <1>5, <1>9, <2>3, <2>5
<1>10. CASE /\ kernel = "memory" /\ line = 5
            /\ kernel_main[line].message = <<Literal("1"), Bits(AsInt(paddr1))>>
  <2>1. x = <<"0">> \o Block0 /\ Asked' = {<<"0">> \o Block0 \o <<"1">> \o Block1}
    BY <1>1, <1>3, <1>10 DEF Asked
  <2>2. paddr1 = FREE_RAM + 5 * PAGE_SIZE
    BY <1>3, <1>10 DEF RamAt
  <2>3. Calls(<<Literal("1"), Bits(AsInt(paddr1))>>, <<"1">> \o Block1)
    BY <2>2, MemoryMessages, BlockAddresses, BlockTypes DEF Calls, Block1
  <2>4. Asked' = {x \o (<<"1">> \o Block1)}
    BY ONLY <2>1, BlockTypes
  <2> QED
    BY <1>5, <1>10, <2>3, <2>4
<1> QED
  BY <1>1, <1>6, <1>7, <1>8, <1>9, <1>10, PrintfStatements

LEMMA PanicConsole ==
  ASSUME KernelsInv, OutputInv, ConsoleInv, Panic
  PROVE  ConsoleInv'
<1>1. /\ kernel \in Kernels /\ panic = "none" /\ pc = "return" /\ At("panic")
      /\ Call(kernel_main[line].message)
      /\ line' = line /\ kernel' = kernel /\ panic' = "PANIC"
      /\ paddr0' = paddr0 /\ paddr1' = paddr1 /\ next_paddr' = next_paddr
  BY AtKernel DEF Panic, At, ram
<1>2. /\ kernel = "panic" \/ (kernel = "memory" /\ line = 6)
      /\ kernel_main[line].message = PANIC(<<Literal("b")>>).message
  BY <1>1, OtherStatements
<1>3. PICK x : x = printed \o PrintsOf(message)
  OBVIOUS
<1>4. x \in Asked /\ RamAt
  BY <1>1, <1>3 DEF ConsoleInv
<1>5. RamAt'
  BY <1>1, <1>4 DEF RamAt
<1>6. PICK w \in Seq(Char) : w = <<"P", "k", "b">>
  BY ShownChars
<1>7. /\ printed' = x /\ printed' \in Seq(Char) /\ ~ PrintsIntMin' /\ PrintsOf(message') = w
  BY <1>1, <1>2, <1>3, <1>6, CallShows, BootedMessage
<1>8. Asked' = {x \o w}
  <2>1. Asked' = Shown'
    BY <1>1 DEF Asked
  <2>2. CASE kernel = "panic"
    <3>1. x = <<>> /\ Shown' = {<<"P", "k", "b">>}
      BY <1>1, <1>4, <2>2 DEF Asked, Shown
    <3>2. <<>> \o w = w
      BY ConcatEmptySeq
    <3> QED
      BY ONLY <1>6, <2>1, <3>1, <3>2
  <2>3. CASE kernel = "memory" /\ line = 6
    <3>1. x = <<"0">> \o Block0 \o <<"1">> \o Block1
      BY <1>1, <1>4, <2>3 DEF Asked
    <3>2. Shown' = {<<"0">> \o Block0 \o <<"1">> \o Block1 \o <<"P", "k", "b">>}
      BY <1>1, <2>3 DEF Shown, Block0, Block1
    <3> QED
      BY ONLY <1>6, <2>1, <3>1, <3>2
  <2> QED
    BY <1>2, <2>2, <2>3
<1>9. printed' \o PrintsOf(message') \in Asked'
  BY ONLY <1>7, <1>8
<1> QED
  BY <1>5, <1>7, <1>9 DEF ConsoleInv

LEMMA UnimpConsole ==
  ASSUME KernelsInv, OutputInv, ConsoleInv, Unimp
  PROVE  ConsoleInv'
<1>1. /\ kernel \in Kernels /\ panic = "none" /\ pc = "return" /\ At("unimp")
      /\ kernel' = kernel /\ panic' = "PANIC"
  BY AtKernel DEF Unimp, At
<1>2. kernel = "exception"
  BY <1>1, OtherStatements
<1>3. PICK stval \in {0, 1} :
         Call(PANIC(<<Bits(2), Bits(stval), Bits(AsInt(UNIMP))>>).message)
  BY DEF Unimp
<1>4. PICK w : w = <<"P", "k">> \o PrintsOf(<<Bits(2), Bits(stval), Bits(UNIMP)>>)
  OBVIOUS
<1>5. PICK m : m = PANIC(<<Bits(2), Bits(stval), Bits(AsInt(UNIMP))>>).message
  OBVIOUS
<1>6. Calls(m, w) /\ Call(m)
  BY <1>3, <1>4, <1>5, TrapMessage
<1>7. printed \o PrintsOf(message) = <<>>
  BY <1>1, <1>2 DEF ConsoleInv, Asked
<1>8. printed' = <<>> /\ printed' \in Seq(Char) /\ ~ PrintsIntMin' /\ PrintsOf(message') = w
  BY <1>1, <1>6, <1>7, CallShows
<1>9. w \in Asked'
  BY <1>1, <1>2, <1>4 DEF Asked, Shown
<1>10. <<>> \o w = w
  BY <1>6, ConcatEmptySeq DEF Calls
<1>11. printed' \o PrintsOf(message') \in Asked'
  BY ONLY <1>8, <1>9, <1>10
<1>12. RamAt'
  BY <1>1, <1>2 DEF RamAt
<1> QED
  BY <1>8, <1>11, <1>12 DEF ConsoleInv

\* alloc_pages(5), then alloc_pages(3), do not wrap.
LEMMA AllocateConsole ==
  ASSUME KernelsInv, ConsoleInv, Allocate
  PROVE  RamAt' /\ Asked' = Asked
<1>1. PICK what \in {"paddr0", "paddr1"} : At(what)
  BY DEF Allocate
<1>2. /\ kernel = "memory" /\ line \in {2, 3} /\ panic = "none" /\ kernel \in Kernels
      /\ kernel' = kernel /\ line' = line + 1
      /\ At("paddr0") => line = 2
      /\ At("paddr1") => line = 3
  BY <1>1, OtherStatements, AtKernel DEF Allocate, At
<1>3. panic' = panic
  BY DEF Allocate, Pages!AllocPages
<1>4. Asked' = Asked
  BY <1>2, <1>3 DEF Asked
<1>5. RamAt
  BY <1>2 DEF ConsoleInv
<1>6. CASE line = 2
  <2>1. Pages!AllocPages(5) /\ paddr0' = next_paddr /\ next_paddr = FREE_RAM
    BY <1>2, <1>5, <1>6 DEF Allocate, RamAt
  <2>2. next_paddr' = (next_paddr + ((5 * PAGE_SIZE) % TwoTo[BITS])) % TwoTo[BITS]
    BY <2>1 DEF Pages!AllocPages, Pages!Advance, Pages!Bytes
  <2>3. next_paddr' = FREE_RAM + 5 * PAGE_SIZE
    <3>1. PICK W \in Nat \ {0} : W = TwoTo[BITS]
      BY IntRange
    <3>2. PICK b \in Nat : b = 5 * PAGE_SIZE
      BY KernelsAssumption
    <3>3. FREE_RAM + b \in 0 .. W - 1 /\ FREE_RAM \in Nat
      BY <3>1, <3>2, BlockAddresses, KernelsAssumption
    <3>4. b \in 0 .. W - 1
      BY <3>1, <3>3
    <3>5. (W * 0 + b) % W = b /\ W * 0 + b = b
      BY <3>4, IntDivModUnique
    <3>6. PICK e \in 0 .. W - 1 : e = FREE_RAM + b
      BY <3>3
    <3>7. (W * 0 + e) % W = e /\ W * 0 + e = e
      BY <3>6, IntDivModUnique
    <3> QED
      BY ONLY <2>1, <2>2, <3>1, <3>2, <3>5, <3>6, <3>7
  <2>4. line' = 3 /\ paddr0' = FREE_RAM
    BY <1>2, <1>6, <2>1
  <2>5. RamAt'
    BY <2>3, <2>4 DEF RamAt
  <2> QED
    BY <1>4, <2>5
<1>7. CASE line = 3
  <2>1. paddr1' = next_paddr /\ paddr0' = paddr0
    BY <1>2, <1>7 DEF Allocate
  <2>2. next_paddr = FREE_RAM + 5 * PAGE_SIZE /\ paddr0 = FREE_RAM /\ line' = 4
    BY <1>2, <1>5, <1>7 DEF RamAt
  <2>3. RamAt'
    BY <2>1, <2>2 DEF RamAt
  <2> QED
    BY <1>4, <2>3
<1> QED
  BY <1>2, <1>4, <1>6, <1>7

LEMMA ConsoleStep ==
  ASSUME KernelsInv, OutputInv, ConsoleInv, [KernelsNext]_kernelVars
  PROVE  ConsoleInv'
<1>1. CASE CallPrintf
  BY <1>1, CallPrintfConsole
<1>2. CASE Panic
  BY <1>2, PanicConsole
<1>3. CASE Unimp
  BY <1>3, UnimpConsole
<1>4. ASSUME message' = message, printed' = printed, kernel' = kernel,
             RamAt => RamAt', Asked' = Asked
      PROVE  ConsoleInv'
  BY <1>4 DEF ConsoleInv, PrintsIntMin
<1>5. CASE CallMemset
  <2>1. /\ kernel # "output" /\ line = 1 /\ panic = "none" /\ line' = line + 1
        /\ UNCHANGED <<message, printed, kernel, panic, paddr0, paddr1, next_paddr>>
    BY <1>5, OtherStatements DEF CallMemset, At, vars, ram
  <2>2. RamAt => RamAt'
    BY <2>1 DEF RamAt
  <2>3. Asked' = Asked
    BY <2>1 DEF Asked
  <2> QED
    BY <1>4, <2>1, <2>2, <2>3
<1>6. CASE SetTrapVector
  <2>1. /\ kernel = "exception" /\ panic = "none"
        /\ UNCHANGED <<message, printed, kernel, panic>>
    BY <1>6, OtherStatements DEF SetTrapVector, At, vars
  <2>2. RamAt => RamAt'
    BY <2>1 DEF RamAt
  <2>3. Asked' = Asked
    BY <2>1 DEF Asked
  <2> QED
    BY <1>4, <2>1, <2>2, <2>3
<1>7. CASE Allocate
  <2>1. UNCHANGED <<message, printed, kernel>>
    BY <1>7 DEF Allocate, vars
  <2> QED
    BY <1>4, <1>7, <2>1, AllocateConsole
<1>8. CASE Library \/ UNCHANGED kernelVars
  <2>1. [Next]_vars /\ UNCHANGED kernelState
    BY <1>8 DEF Library, kernelVars
  <2>2. UNCHANGED <<message, printed, kernel, line, panic, paddr0, paddr1, next_paddr>>
    BY <2>1, MessageStays DEF kernelState, ram
  <2>3. RamAt => RamAt'
    BY <2>2 DEF RamAt
  <2>4. Asked' = Asked
    BY <2>2 DEF Asked, Shown
  <2> QED
    BY <1>4, <2>2, <2>3, <2>4
<1> QED
  BY <1>1, <1>2, <1>3, <1>5, <1>6, <1>7, <1>8 DEF KernelsNext
-----------------------------------------------------------------------------
(* The theorems *)

\* The inductive invariant: how far each loop has come and what it has written,
\* which statement of which kernel has called it.
THEOREM KernelsInvariant == CommonSpec => []KernelsInv
BY KernelsInitInv, KernelsStep, PTL DEF CommonSpec

\* memset, memcpy and strcpy write what the C library's functions would, and
\* only that, whatever the memory and, going up, for overlapping ranges too.
THEOREM StoresAreCorrect == CommonSpec => []StoresCorrect
<1>1. KernelsInv => StoresCorrect
  BY InvGivesStores DEF KernelsInv
<1> QED
  BY <1>1, KernelsInvariant, PTL

\* strcmp returns the difference of the first bytes that differ.
THEOREM StrcmpIsCorrect == CommonSpec => []StrcmpCorrect
<1>1. KernelsInv => StrcmpCorrect
  BY InvGivesStrcmp DEF KernelsInv
<1> QED
  BY <1>1, KernelsInvariant, PTL

\* No pointer leaves memory and no count wraps.
THEOREM PointersStayInMemory == CommonSpec => []MemTypeOK
<1>1. KernelsInv => MemTypeOK
  BY DEF KernelsInv, MemInv
<1> QED
  BY <1>1, KernelsInvariant, PTL

\* kernel_main never runs past its last statement.
THEOREM KernelsNeverReturn == CommonSpec => []NeverReturns
<1>1. KernelsInv => NeverReturns
  BY Statements DEF KernelsInv, NeverReturns
<1> QED
  BY <1>1, KernelsInvariant, PTL

\* .bss is cleared, and nothing else, wherever the linker has put it.
THEOREM BssIsCleared == CommonSpec => []ClearsBssOnly
<1>1. KernelsInv => ClearsBssOnly
  <2> SUFFICES ASSUME KernelsInv, kernel # "none", Returned("memset")
               PROVE  mem = [a \in Address |-> IF a \in BSS .. BSS_END - 1 THEN 0 ELSE old[a]]
    BY DEF ClearsBssOnly
  <2>1. called.d = BSS /\ called.s = 0 /\ called.n = BSS_END - BSS
    BY DEF KernelsInv, Returned
  <2>2. mem = [a \in Address |->
                 IF a \in called.d .. called.d + called.n - 1 THEN called.s ELSE old[a]]
    BY InvGivesStores DEF KernelsInv, StoresCorrect, MemsetCorrect
  <2>3. called.d + called.n - 1 = BSS_END - 1
    BY <2>1, KernelsAssumption, MemAssumption DEF Address
  <2> QED
    BY <2>1, <2>2, <2>3
<1> QED
  BY <1>1, KernelsInvariant, PTL

\* The inductive invariant of printf: which tokens have been printed, which
\* arguments are left, and how far the digits of the next token have come.
THEOREM OutputInvariant == CommonSpec => []OutputInv
<1>1. CommonInit => KernelsInv /\ OutputInv
  BY KernelsInitInv, OutputInitInv
<1>2. KernelsInv /\ OutputInv /\ [KernelsNext]_kernelVars => KernelsInv' /\ OutputInv'
  BY KernelsStep, OutputStep
<1> QED
  BY <1>1, <1>2, PTL DEF CommonSpec

\* printf prints what its format and arguments ask for, in order and nothing
\* else, whatever they are and however wide an int is.
THEOREM OutputIsCorrect == CommonSpec => []OutputCorrect
<1>1. OutputInv => OutputCorrect
  BY InvGivesOutput DEF OutputInv
<1> QED
  BY <1>1, OutputInvariant, PTL

\* Its counters stay in range: the divisor of %d never overflows.
THEOREM CommonTypes == CommonSpec => []CommonTypeOK
<1>1. KernelsInv /\ OutputInv => CommonTypeOK
  BY DEF KernelsInv, MemInv, OutputInv, PrintfInv, CommonTypeOK
<1> QED
  BY <1>1, KernelsInvariant, OutputInvariant, PTL

\* The console never shows anything but the beginning of what the kernel is
\* there to show, and all of it at the end: wherever free RAM and the unimp
\* instruction are, and however wide an int is.
THEOREM ConsoleIsCorrect == CommonSpec => []ShowsNothingElse
<1>1. CommonInit => KernelsInv /\ OutputInv /\ ConsoleInv
  BY KernelsInitInv, OutputInitInv, ConsoleInitInv
<1>2. /\ KernelsInv /\ OutputInv /\ ConsoleInv /\ [KernelsNext]_kernelVars
      => KernelsInv' /\ OutputInv' /\ ConsoleInv'
  BY KernelsStep, OutputStep, ConsoleStep
<1>3. KernelsInv /\ OutputInv /\ ConsoleInv => ShowsNothingElse
  BY InvGivesConsole
<1> QED
  BY <1>1, <1>2, <1>3, PTL DEF CommonSpec
=============================================================================

------------------------------- MODULE Printf -------------------------------
(***************************************************************************)
(* printf of common.c: the scan of the format, the digit loops of %d and   *)
(* %x, on integers of BITS bits (32 in the code).  A call is given by its  *)
(* message, a sequence of tokens; the format is their characters and what  *)
(* should be printed is known for each token by itself.  The caller passes *)
(* as many arguments as the format asks for.                               *)
(***************************************************************************)
EXTENDS Integers, SequencesExt

CONSTANTS
  BITS,      \* bits of an int, a multiple of four
  Char,      \* what may stand in a format or a string
  Messages   \* the calls: sequences of tokens

ASSUME PrintfAssumption == BITS \in Nat \ {0} /\ BITS % 4 = 0

TwoTo[k \in Nat] == IF k = 0 THEN 1 ELSE 2 * TwoTo[k - 1]

INT_MIN == -TwoTo[BITS - 1]
INT_MAX == TwoTo[BITS - 1] - 1

HexDigits == <<"0","1","2","3","4","5","6","7","8","9","a","b","c","d","e","f">>
Hex(d) == HexDigits[d + 1]

\* putchar('0' + d): putchar takes the low byte, which is '0' for INT_MIN.
Decimal(d) == IF d \in 0 .. 9 THEN Hex(d)
              ELSE IF d = INT_MIN THEN "0" ELSE "not a digit"
-----------------------------------------------------------------------------
(* Tokens: their characters, their arguments, and what they should print. *)

Numeral[n \in Nat] ==
  IF n < 10 THEN <<Hex(n)>> ELSE Numeral[n \div 10] \o <<Hex(n % 10)>>

Literal(c) == [chars |-> <<c>>, args |-> <<>>, prints |-> <<c>>]
Escaped(c) == [chars |-> <<"%", c>>, args |-> <<>>, prints |-> <<c>>]
Dangling   == [chars |-> <<"%">>, args |-> <<>>, prints |-> <<"%">>]
Text(s)    == [chars |-> <<"%", "s">>, args |-> <<[str |-> s]>>, prints |-> s]
Signed(v)  == [chars |-> <<"%", "d">>, args |-> <<[int |-> v]>>,
               prints |-> IF v < 0 THEN <<"-">> \o Numeral[-v] ELSE Numeral[v]]
Bits(v)    == [chars |-> <<"%", "x">>, args |-> <<[int |-> v]>>,
               prints |-> [k \in 1 .. BITS \div 4 |->
                  Hex(((v % TwoTo[BITS]) \div TwoTo[4 * (BITS \div 4 - k)]) % 16)]]

Joined(m, Field(_)) == FlattenSeq([k \in DOMAIN m |-> Field(m[k])])
CharsOf(m)  == Joined(m, LAMBDA t : t.chars)
ArgsOf(m)   == Joined(m, LAMBDA t : t.args)
PrintsOf(m) == Joined(m, LAMBDA t : t.prints)

SimpleTokens ==
  {Literal(c) : c \in Char \ {"%"}} \cup {Escaped(c) : c \in Char \ {"s", "d", "x"}}
    \cup {Signed(v) : v \in INT_MIN .. INT_MAX} \cup {Bits(v) : v \in INT_MIN .. INT_MAX}

IsToken(t) == t \in SimpleTokens \/ (t = Text(t.prints) /\ t.prints \in Seq(Char))

\* A percent sign that nothing follows can only be the end.
IsMessage(m) ==
  /\ m \in Seq(Range(m))
  /\ \A k \in DOMAIN m : IsToken(m[k]) \/ (m[k] = Dangling /\ k = Len(m))

ASSUME MessagesAssumption ==
  /\ {"%", "-", "s", "d", "x"} \cup Range(HexDigits) \subseteq Char
  /\ \A m \in Messages : IsMessage(m)
-----------------------------------------------------------------------------
VARIABLES
  message,       \* the call
  at,            \* position in the format
  args,          \* arguments not yet taken
  pc, val, divisor, i,
  out            \* characters given to putchar

format == CharsOf(message)
vars == <<message, at, args, pc, val, divisor, i, out>>

\* Types: the format is not scanned past its end and the divisor of %d stays
\* an int.
PrintfTypeOK ==
  /\ at \in 1 .. Len(format) + 1
  /\ pc \in {"scan", "divisor", "digits", "hex", "return"}
  /\ val \in INT_MIN .. INT_MAX + 1
  /\ divisor \in 0 .. INT_MAX
  /\ i \in -1 .. BITS \div 4 - 1

Init ==
  /\ message \in Messages
  /\ at = 1
  /\ args = ArgsOf(message)
  /\ pc = "scan"
  /\ val = 0 /\ divisor = 0 /\ i = -1
  /\ out = <<>>

Scanning == pc = "scan" /\ at <= Len(format)
Put(c) == out' = Append(out, c)

EndOfFormat ==
  /\ pc = "scan"
  /\ at = Len(format) + 1
  /\ pc' = "return"
  /\ UNCHANGED <<message, at, args, val, divisor, i, out>>

RegularCharacter ==
  /\ Scanning
  /\ format[at] # "%"
  /\ Put(format[at])
  /\ at' = at + 1
  /\ UNCHANGED <<message, args, pc, val, divisor, i>>

\* "case '\0'": the format ends after the percent sign.
PercentAtEnd ==
  /\ Scanning
  /\ format[at] = "%" /\ at = Len(format)
  /\ Put("%")
  /\ pc' = "return"
  /\ UNCHANGED <<message, at, args, val, divisor, i>>

Specifier(c) ==
  Scanning /\ format[at] = "%" /\ at < Len(format) /\ format[at + 1] = c

\* "%%" and "default" print the character after the percent sign.
OtherSpecifier ==
  \E c \in {format[k] : k \in DOMAIN format} \ {"s", "d", "x"} :
    /\ Specifier(c)
    /\ Put(c)
    /\ at' = at + 2
    /\ UNCHANGED <<message, args, pc, val, divisor, i>>

StringSpecifier ==
  /\ Specifier("s")
  /\ out' = out \o Head(args).str
  /\ args' = Tail(args)
  /\ at' = at + 2
  /\ UNCHANGED <<message, pc, val, divisor, i>>

\* "-val" of INT_MIN is undefined: it is INT_MIN again in a 32-bit register,
\* or its absolute value where the compiler goes on unsigned.
Negated(v) == IF v = INT_MIN THEN {INT_MIN, INT_MAX + 1} ELSE {-v}

DecimalSpecifier ==
  /\ Specifier("d")
  /\ IF Head(args).int < 0 THEN Put("-") /\ val' \in Negated(Head(args).int)
                       ELSE val' = Head(args).int /\ UNCHANGED out
  /\ args' = Tail(args)
  /\ divisor' = 1
  /\ pc' = "divisor"
  /\ UNCHANGED <<message, at, i>>

\* "val / divisor >= 1"
DivisorFound_Smaller == val \div divisor < 1

\* "val / divisor > 10"
DivisorFound_AtTen == val \div divisor <= 10

\* "while (val / divisor >= 10)" ends.
DivisorFound == val \div divisor < 10

GrowDivisor ==
  /\ pc = "divisor"
  /\ IF DivisorFound THEN pc' = "digits" /\ UNCHANGED divisor
                     ELSE divisor' = divisor * 10 /\ UNCHANGED pc
  /\ UNCHANGED <<message, at, args, val, i, out>>

PutDigit ==
  /\ pc = "digits"
  /\ divisor > 0
  /\ Put(Decimal(val \div divisor))
  /\ val' = val % divisor
  /\ divisor' = divisor \div 10
  /\ UNCHANGED <<message, at, args, pc, i>>

LastDigitPut ==
  /\ pc = "digits"
  /\ divisor = 0
  /\ at' = at + 2
  /\ pc' = "scan"
  /\ UNCHANGED <<message, args, val, divisor, i, out>>

HexSpecifier ==
  /\ Specifier("x")
  /\ val' = Head(args).int
  /\ args' = Tail(args)
  /\ i' = BITS \div 4 - 1
  /\ pc' = "hex"
  /\ UNCHANGED <<message, at, divisor, out>>

\* "val >> (i * 4) & 0xF", the shift copying the sign.
PutHexDigit ==
  /\ pc = "hex"
  /\ i >= 0
  /\ Put(Hex((val \div TwoTo[i * 4]) % 16))
  /\ i' = i - 1
  /\ UNCHANGED <<message, at, args, pc, val, divisor>>

LastHexDigitPut ==
  /\ pc = "hex"
  /\ i < 0
  /\ at' = at + 2
  /\ pc' = "scan"
  /\ UNCHANGED <<message, args, val, divisor, i, out>>

Next ==
  \/ EndOfFormat \/ RegularCharacter \/ PercentAtEnd
  \/ OtherSpecifier \/ StringSpecifier
  \/ DecimalSpecifier \/ GrowDivisor \/ PutDigit \/ LastDigitPut
  \/ HexSpecifier \/ PutHexDigit \/ LastHexDigitPut

Spec == Init /\ [][Next]_vars
-----------------------------------------------------------------------------
(* Correctness *)

\* "%d" is used with INT_MIN.
PrintsIntMin ==
  \E k \in DOMAIN message : message[k] = Signed(INT_MIN)

\* What has been printed is always the beginning of what the call should
\* print, and all of it with all arguments taken when printf returns.
PrintsMessage ==
  /\ IsPrefix(out, PrintsOf(message))
  /\ pc = "return" => out = PrintsOf(message) /\ args = <<>>

\* ... for every message that has no "%d" of INT_MIN.
OutputCorrect == ~ PrintsIntMin => PrintsMessage
=============================================================================

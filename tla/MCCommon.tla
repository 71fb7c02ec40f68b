------------------------------ MODULE MCCommon ------------------------------
(* A small kernel, or one call of one function of common.c by itself: printf *)
(* with a message of up to three tokens and integers of eight bits - every   *)
(* int in messages of one token, those at the edges of the digit loops in    *)
(* longer ones, a string argument with a percent sign in it - or a memory    *)
(* function.                                                                 *)
EXTENDS SmallKernels

MCChar == Range(HexDigits) \cup
  {"%", "-", "s", "x", "q", "H", "R", "V", "=", "P", "k", "u"}

Edges == {INT_MIN + 1, -10, -1, 0, 9, 10, 99, 100, INT_MAX}
Plain ==
  {Literal("d"), Escaped("%"), Escaped("q"), Text(<<>>), Text(<<"%", "d">>)}
Numbers(S) == {Signed(v) : v \in S} \cup {Bits(v) : v \in S}

Every  == Numbers(INT_MIN + 1 .. INT_MAX) \cup {Bits(INT_MIN)}
Tokens == Numbers(Edges) \cup Plain

MCMessages ==
  {<<>>, <<Dangling>>} \cup {<<t>> : t \in Every}
    \cup {<<t, u>> : t \in Tokens, u \in Tokens \cup {Dangling}}
    \cup {<<t, u, w>> : t \in Plain, u \in Tokens, w \in Plain \cup {Dangling}}

IntMinMessages == {<<t>> : t \in Numbers(INT_MIN .. INT_MAX)}
=============================================================================

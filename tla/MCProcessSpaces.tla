--------------------------- MODULE MCProcessSpaces ---------------------------
(* Tables of six entries: 216 words in 36 pages, the kernel in pages 13 and *)
(* 14, free RAM in pages 15 to 33, in four ranges of six pages.  A process  *)
(* takes five pages, so that there is RAM for three.  Which table of        *)
(* processes and how many of them to create is chosen first: enough of both,*)
(* a slot too few, and RAM that runs out in the middle of a mapping.        *)
EXTENDS ProcessSpaces

AllEntries == 0 .. ENTRIES * ENTRIES * FLAGS - 1

VARIABLE size   \* slots and processes

Kernel(slots, processes) ==
  INSTANCE ProcessSpaces WITH PROCS_MAX <- slots, NumProcs <- processes

Sizes == ((2 .. PROCS_MAX - 1) \X {2}) \cup {<<PROCS_MAX, NumProcs>>}

SizesInit == \E z \in Sizes : size = z /\ Kernel(z[1], z[2])!SpacesInit
SizesNext ==
  \E z \in Sizes :
    size = z /\ Kernel(z[1], z[2])!create_process /\ UNCHANGED size

SizesSpec ==
  /\ SizesInit
  /\ [][SizesNext]_<<spaceVars, size>>
  /\ WF_<<spaceVars, size>>(SizesNext)

\* kernel_main gets to yeild, or stops in the PANIC that applies.
CreationEndsAtEverySize ==
  \A z \in Sizes : size = z => Kernel(z[1], z[2])!CreationEnds
=============================================================================

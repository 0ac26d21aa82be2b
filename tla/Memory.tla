------------------------------- MODULE Memory -------------------------------
(***************************************************************************)
(* What the two memory managers of the kernel have in common: the arena    *)
(* they are given (memInitialize) and the blocks their callers hold.       *)
(* Addresses are bytes from the start of the arena.                        *)
(***************************************************************************)
EXTENDS Integers, Sequences, FiniteSets, SequencesExt, FiniteSetsExt

CONSTANTS
    MEM_SIZE,   \* the memSize that memInitialize receives
    Requests,   \* sizes that callers ask for, getMemInfo's own among them
    MAX_BLOCKS  \* bound: blocks held at the same time

ASSUME ArenaAssumption == MEM_SIZE \in Nat \ {0} /\ MAX_BLOCKS \in Nat
ASSUME RequestsAssumption == Requests \subseteq Nat

VARIABLE
    used \* the blocks that callers hold: the address they were given, the
         \* length they asked for, and the size field the manager put before it

NoneHeld == used = {}

\* test_mm asks for blocks while it has room to note them down ...
MayRequest == Cardinality(used) < MAX_BLOCKS

\* ... and keeps the address and the size of each.
Hold(at, len, header) == used' = used \cup {[at |-> at, len |-> len, header |-> header]}

\* A caller frees a block it holds, and does so once.
LetGo(b) == used' = used \ {b}
=============================================================================

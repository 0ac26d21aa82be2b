----------------------------- MODULE Allocator ------------------------------
(***************************************************************************)
(* What a memory manager promises to its callers: every block it hands out *)
(* lies inside the arena, is as long as was asked for, and shares no byte  *)
(* with a block that somebody else still holds.                            *)
(***************************************************************************)
EXTENDS Integers

CONSTANTS ArenaSize, Sizes
VARIABLE held \* set of [at, len]

Bytes(b) == b.at .. b.at + b.len - 1

Init == held = {}

Allocate(n) ==
    \E at \in 0 .. ArenaSize - n :
        LET b == [at |-> at, len |-> n] IN
        /\ n > 0
        /\ \A other \in held : Bytes(b) \cap Bytes(other) = {}
        /\ held' = held \cup {b}

Release(b) == held' = held \ {b}

Next == \/ \E n \in Sizes : Allocate(n)
        \/ \E b \in held : Release(b)

Spec == Init /\ [][Next]_held
=============================================================================

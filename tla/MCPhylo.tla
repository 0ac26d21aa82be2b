------------------------------ MODULE MCPhylo ------------------------------
(* Instances of Phylo for TLC.                                             *)
EXTENDS Phylo

Session(amount, typed) == [amount |-> amount, keys |-> typed]

\* One change of the table (the second is refused), or the end.
OneKey == {Session(3, <<"a", "a">>), Session(4, <<"r", "r">>), Session(3, <<"q">>)}

\* A philosopher is added and removed again.
AddAndRemove == {Session(3, <<"a", "r">>)}

\* The last reads of the table before a philosopher waits, and the father between
\* a start or a post and the new size of the table.
Brief == {"announce", "first", "second", "a grow", "r skipped", "r before", "r shrink"}

\* The timer interrupts programs only as a system call returns.
Calls == Brief \cup {"check", "a post", "r kill", "r post", "r post again",
                     "r close", "r last", "r first", "r skip", "r forSeat"}
=============================================================================

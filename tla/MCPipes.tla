------------------------------ MODULE MCPipes ------------------------------
(* Instances of Pipes for TLC.                                             *)
EXTENDS Pipes

CONSTANTS init, shell, p1, p2, n1

Three == {init, shell, p1}
Four == {init, shell, p1, p2}
OneName == {n1}
NoTails == [n \in Name |-> NoName]

Short == {<<"a">>, <<"b", "a">>}
Same == Permutations({p1, p2})

Descriptors == {"mkpipe", "open", "close", "read", "readEmpty", "dup2", "revert",
                "startChild", "startParent", "exit", "kill", "esc"}
Data == {"mkpipe", "open", "close", "read", "write", "startChild", "exit", "kill"}
=============================================================================

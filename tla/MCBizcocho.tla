----------------------------- MODULE MCBizcocho -----------------------------
(* Instances of Bizcocho for TLC.                                          *)
EXTENDS Bizcocho

CONSTANTS init, shell, p1, p2, p3

Four == {init, shell, p1, p2}
Five == {init, shell, p1, p2, p3}
Numbers == 1 .. MaxFileId - STDERR
NoTails == [n \in Name |-> NoName]

Single == {<<"a">>}
Pipelines == [piped : {TRUE}, back : SUBSET {"left", "right"}]
Alone == [piped : {FALSE}, back : {{}, {"left"}}]
AllLines == Pipelines \cup Alone

ShellCalls == {"mkpipe", "open", "close", "dup2", "revert", "lateRevert", "read", "readOwn",
               "write", "exit", "kill", "killZombie"}
=============================================================================

---------------------------- MODULE MCSemaphores ----------------------------
(* Instances of Semaphores for TLC.                                        *)
EXTENDS Semaphores

CONSTANTS init, p1, p2, p3, p4, n1, n2

Four == {init, p1, p2, p3}
Five == {init, p1, p2, p3, p4}
None == {}
FirstTwo == {p1, p2}
TwoNames == {n1, n2}
OneName == {n1}

Deaths   == {"initialize", "wait", "post", "close", "closeBusy", "exit", "kill", "esc"}
Failures == {"initialize", "wait", "post", "freePost", "close", "closeBusy", "kill", "esc",
             "zombieWait", "outOfMemory"}
Forever  == {"initialize", "wait", "post"}
=============================================================================

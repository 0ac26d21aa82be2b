--------------------------- MODULE ProcessFamily ---------------------------
(***************************************************************************)
(* What the kernel promises the processes about each other, with no lists, *)
(* priorities, quanta or CPU: a process has one parent, a parent that      *)
(* sleeps for a child is woken in the step in which that child dies, a     *)
(* process is collected once, after its death, and the children of a       *)
(* collected process become children of init.                              *)
(***************************************************************************)
EXTENDS Naturals

CONSTANTS Pid,      \* the processes
          InitPid,  \* the one of them that adopts
          NULL      \* no process, not in Pid

VARIABLES status,   \* unborn, live, dead or collected
          parent,   \* whose child it is
          sleepsFor \* the child a process sleeps for

familyVars == <<status, parent, sleepsFor>>

Init ==
    /\ status = [p \in Pid |-> IF p = InitPid THEN "live" ELSE "unborn"]
    /\ parent = [p \in Pid |-> NULL]
    /\ sleepsFor = [p \in Pid |-> NULL]

\* A dead process may still have the CPU, so it may still have children.
Fork(p, child) ==
    /\ status[p] \in {"live", "dead"} /\ status[child] = "unborn"
    /\ status' = [status EXCEPT ![child] = "live"]
    /\ parent' = [parent EXCEPT ![child] = p]
    /\ UNCHANGED sleepsFor

\* A pid may be skipped for ever: its creation failed.
Skip(child) ==
    /\ status[child] = "unborn"
    /\ status' = [status EXCEPT ![child] = "collected"]
    /\ UNCHANGED <<parent, sleepsFor>>

Sleep(p, child) ==
    /\ status[p] = "live" /\ sleepsFor[p] = NULL
    /\ status[child] = "live" /\ parent[child] = p
    /\ sleepsFor' = [sleepsFor EXCEPT ![p] = child]
    /\ UNCHANGED <<status, parent>>

Die(victims) ==
    /\ InitPid \notin victims /\ \A p \in victims : status[p] = "live"
    /\ status' = [p \in Pid |-> IF p \in victims THEN "dead" ELSE status[p]]
    /\ sleepsFor' = [p \in Pid |->
                       IF p \in victims \/ sleepsFor[p] \in victims
                       THEN NULL ELSE sleepsFor[p]]
    /\ UNCHANGED parent

Collect(p) ==
    /\ status[p] = "dead"
    /\ status' = [status EXCEPT ![p] = "collected"]
    /\ parent' = [q \in Pid |-> IF q = p THEN NULL
                                ELSE IF parent[q] = p THEN InitPid ELSE parent[q]]
    /\ UNCHANGED sleepsFor

Next ==
    \/ \E p, child \in Pid : Fork(p, child) \/ Sleep(p, child)
    \/ \E child \in Pid : Skip(child)
    \/ \E victims \in SUBSET Pid : Die(victims)
    \/ \E p \in Pid : Collect(p)

Spec == Init /\ [][Next]_familyVars
=============================================================================

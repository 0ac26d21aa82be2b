----------------------------- MODULE Processes -----------------------------
(***************************************************************************)
(* The processes as the rest of the kernel sees them: their states, their  *)
(* block reasons and who has the CPU.  It over-approximates Scheduler: a   *)
(* dispatch may choose any READY process, where findNextProcess chooses    *)
(* one by the round-robin lists, so what holds here does not depend on     *)
(* priorities and quanta.                                                  *)
(***************************************************************************)
EXTENDS Integers, Sequences, FiniteSets, SequencesExt, FiniteSetsExt

CONSTANTS
    Process,    \* the processes
    InitPid,    \* init: always READY, makes no calls
    Foreground, \* the processes that the ESC key kills
    Calls       \* what the processes and the keyboard do in this run

ASSUME ProcessAssumption ==
    IsFiniteSet(Process) /\ InitPid \in Process /\ Foreground \subseteq Process \ {InitPid}

VARIABLES
    state,         \* PCB state; NONE: not started
    blockedReason, \* PCB blockedReason
    nowRunning     \* schedule.nowRunning

processVars == <<state, blockedReason, nowRunning>>

NoBlock == [source |-> "NO_BLOCK", id |-> 0]

Asks(call) == call \in Calls

\* scheduler(): the CPU goes to a process that is READY in st.
Dispatch(st) == nowRunning' \in {p \in Process : st[p] = "READY"}

\* blockProcessWithReason refuses a process that is not READY: the running one,
\* if the ESC key has killed it.
MayBlock == state[nowRunning] = "READY"

\* blockProcessWithReason on the running process, and its _int20().
BlockRunning(reason) ==
    /\ state' = [state EXCEPT ![nowRunning] = "BLOCKED"]
    /\ blockedReason' = [blockedReason EXCEPT ![nowRunning] = reason]
    /\ Dispatch(state')

IsBlockedFor(p, reason) == state[p] = "BLOCKED" /\ blockedReason[p] = reason

\* What unblockAllProcessesBecauseReason would wake.
BlockedFor(reason) == {p \in Process : IsBlockedFor(p, reason)}

\* setProcessReady for all of W, after all of K were killed.
Change(W, K) ==
    /\ state' = [p \in Process |-> CASE p \in K -> "FINISHED"
                                     [] p \in W \ K -> "READY"
                                     [] OTHER -> state[p]]
    /\ blockedReason' = [p \in Process |-> IF p \in W \cup K THEN NoBlock
                                                             ELSE blockedReason[p]]

Wake(W) == Change(W, {}) /\ UNCHANGED nowRunning

Live(p) == state[p] \in {"READY", "BLOCKED"}

ProcessTypeOK ==
    /\ state \in [Process -> {"NONE", "READY", "BLOCKED", "FINISHED"}]
    /\ DOMAIN blockedReason = Process
    /\ nowRunning \in Process
=============================================================================

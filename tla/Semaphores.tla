----------------------------- MODULE Semaphores -----------------------------
(***************************************************************************)
(* The semaphores of the kernel (Kernel/c/ipc/semaphore.c).                *)
(*                                                                         *)
(* A system call runs with interrupts disabled, so it is one step up to    *)
(* the block in waitSem; what follows that block is ResumeWait.  The       *)
(* spin locks are therefore always free when a call asks for them, unless  *)
(* a call has returned without releasing one: then the asking call spins   *)
(* for ever, with interrupts disabled, and the whole system hangs.         *)
(*                                                                         *)
(* The list of waiters is another view of what the scheduler knows: a pid  *)
(* enters it before its process blocks, and killing the process does not   *)
(* take it out.                                                            *)
(***************************************************************************)
EXTENDS Processes

CONSTANTS
    Name,         \* names of semaphores
    NoName,       \* not a name
    MaxSemId,     \* bound: ids are 1 .. MaxSemId
    MaxValue,     \* bound: no post without a wait lifts a value above it
    InitialValue  \* the initialValue every process passes

AllCalls == {"initialize", "wait", "post", "freePost", "close", "closeBusy",
             "exit", "kill", "esc", "zombieWait", "outOfMemory"}

ASSUME SemAssumption ==
    /\ MaxSemId \in Nat /\ MaxSemId >= 1 /\ NoName \notin Name
    /\ InitialValue \in Nat /\ MaxValue \in Nat /\ Calls \subseteq AllCalls

NULL == 0
Id == 1 .. MaxSemId

VARIABLES
    name,               \* semBlock name, by id; NoName: no such semaphore
    value,              \* semBlock value
    semLock,            \* semBlock semLock, 0 or 1
    blockedProcessList, \* semBlock blockedProcessList: pids, the newest first
    globalid,           \* hub.globalid
    lock,               \* lock, which guards semCount
    lockListPid,        \* lockListPid, which guards the walk of a list of pids
    waitingIn,          \* the semaphore whose waitSem a process has not returned from
    holds,              \* history: the semaphores a process waited for and has not posted
    hung                \* a call spins on a lock that nobody will release

semVars == <<name, value, semLock, blockedProcessList, globalid, lock, lockListPid>>
semaphoreVars == <<processVars, semVars, waitingIn, holds, hung>>

InUserCode == ~hung /\ nowRunning # InitPid /\ waitingIn[nowRunning] = NULL

InterruptsEnabled == ~hung /\ (nowRunning = InitPid \/ waitingIn[nowRunning] = NULL)

Exists(id) == name[id] # NoName

Reason(id) == [source |-> "WAIT_SEM", id |-> id]

\* acquire on a lock that is taken.
Spin == hung' = TRUE /\ UNCHANGED <<processVars, semVars, waitingIn, holds>>

-----------------------------------------------------------------------------
(* initializeSemaphore: a name that exists only gives its id.              *)

Create(n) ==
    /\ name' = [name EXCEPT ![globalid] = n]
    /\ value' = [value EXCEPT ![globalid] = InitialValue]
    /\ UNCHANGED <<semLock, blockedProcessList, lock>>

\* newList fails: an id is lost.  add fails: the hub forgets all its semaphores,
\* and the lock stays taken.
CreateOutOfMemory ==
    /\ Asks("outOfMemory")
    /\ \/ UNCHANGED <<name, lock>>
       \/ name' = [id \in Id |-> NoName] /\ lock' = 1
    /\ UNCHANGED <<value, semLock, blockedProcessList>>

InitializeSemaphore(n) ==
    /\ InUserCode /\ Asks("initialize")
    /\ globalid <= MaxSemId /\ \A id \in Id : name[id] # n
    /\ \/ lock = 1 /\ Spin
       \/ /\ lock = 0
          /\ Create(n) \/ CreateOutOfMemory
          /\ globalid' = globalid + 1
          /\ UNCHANGED <<processVars, lockListPid, waitingIn, holds, hung>>

-----------------------------------------------------------------------------
(* waitSem.                                                                *)

\* (a bug would be: the value is not looked at)
HasTokenAlways(id) == TRUE

HasToken(id) == value[id] > 0

TakeToken(id) ==
    /\ value' = [value EXCEPT ![id] = @ - 1]
    /\ holds' = [holds EXCEPT ![nowRunning] = @ \cup {id}]
    /\ UNCHANGED <<processVars, name, semLock, blockedProcessList, waitingIn>>

\* (a bug would be: the list is kept oldest first)
EnlistLast(id) ==
    blockedProcessList' = [blockedProcessList EXCEPT ![id] = Append(@, nowRunning)]

Enlist(id) ==
    blockedProcessList' = [blockedProcessList EXCEPT ![id] = <<nowRunning>> \o @]

\* A process that the ESC key killed is not blocked, and goes on as if it had
\* the semaphore.
WaitForToken(id) ==
    /\ Enlist(id)
    /\ \/ /\ MayBlock
          /\ BlockRunning(Reason(id))
          /\ waitingIn' = [waitingIn EXCEPT ![nowRunning] = id]
          /\ UNCHANGED holds
       \/ /\ ~MayBlock /\ Asks("zombieWait")
          /\ holds' = [holds EXCEPT ![nowRunning] = @ \cup {id}]
          /\ UNCHANGED <<processVars, waitingIn>>
    /\ UNCHANGED <<name, value, semLock>>

\* (a bug would be: the lock is released when the list is forgotten)
WaitOutOfMemoryReleases(id) ==
    /\ Asks("outOfMemory")
    /\ \/ UNCHANGED <<blockedProcessList, semLock>>
       \/ /\ blockedProcessList' = [blockedProcessList EXCEPT ![id] = <<>>]
          /\ UNCHANGED semLock
    /\ UNCHANGED <<processVars, name, value, waitingIn, holds>>

\* No memory for the pid, or for its node (the list is then forgotten): waitSem
\* returns -1 with the lock taken.
WaitOutOfMemory(id) ==
    /\ Asks("outOfMemory")
    /\ \/ UNCHANGED blockedProcessList
       \/ blockedProcessList' = [blockedProcessList EXCEPT ![id] = <<>>]
    /\ semLock' = [semLock EXCEPT ![id] = 1]
    /\ UNCHANGED <<processVars, name, value, waitingIn, holds>>

\* (A process that holds the semaphore already does not wait for it again here:
\* a set of holders would not count its tokens.)
WaitSem(id) ==
    /\ InUserCode /\ Asks("wait") /\ Exists(id)
    /\ id \notin holds[nowRunning]
    /\ \/ semLock[id] = 1 /\ Spin
       \/ /\ semLock[id] = 0
          /\ \/ HasToken(id) /\ TakeToken(id)
             \/ ~HasToken(id) /\ (WaitForToken(id) \/ WaitOutOfMemory(id))
          /\ UNCHANGED <<globalid, lock, lockListPid, hung>>

\* waitSem returns when its caller gets the CPU back.
ResumeWait ==
    /\ ~hung /\ waitingIn[nowRunning] # NULL
    /\ holds' = [holds EXCEPT ![nowRunning] = @ \cup {waitingIn[nowRunning]}]
    /\ waitingIn' = [waitingIn EXCEPT ![nowRunning] = NULL]
    /\ UNCHANGED <<processVars, semVars, hung>>

-----------------------------------------------------------------------------
(* postSem.                                                                *)

\* unblockProcessWithReason: nothing, if the pid is not blocked for this reason.
Unblock(p, id) ==
    IF IsBlockedFor(p, Reason(id)) THEN Wake({p}) ELSE UNCHANGED processVars

\* The pid at the end of the list, the oldest, leaves it.
\* (bugs would be: the value grows as well; the newest pid leaves the list)
WakeOldestAndAdd(id) ==
    /\ blockedProcessList' = [blockedProcessList EXCEPT ![id] = Front(@)]
    /\ Unblock(Last(blockedProcessList[id]), id)
    /\ value' = [value EXCEPT ![id] = @ + 1]
    /\ UNCHANGED lockListPid

WakeOldestDropNewest(id) ==
    /\ blockedProcessList' = [blockedProcessList EXCEPT ![id] = Tail(@)]
    /\ Unblock(Last(blockedProcessList[id]), id)
    /\ UNCHANGED <<value, lockListPid>>

WakeOldest(id) ==
    /\ blockedProcessList' = [blockedProcessList EXCEPT ![id] = Front(@)]
    /\ Unblock(Last(blockedProcessList[id]), id)
    /\ UNCHANGED <<value, lockListPid>>

\* (a bug would be: somebody waits, but the value grows all the same)
SomebodyWaitsNever(id) == FALSE

SomebodyWaits(id) == value[id] = 0 /\ blockedProcessList[id] # <<>>

PostSem(id) ==
    /\ InUserCode /\ Asks("post") /\ Exists(id)
    /\ id \in holds[nowRunning] \/ (Asks("freePost") /\ value[id] < MaxValue)
    /\ \/ (semLock[id] = 1 \/ (value[id] = 0 /\ lockListPid = 1)) /\ Spin
       \/ /\ semLock[id] = 0 /\ (value[id] > 0 \/ lockListPid = 0)
          /\ \/ SomebodyWaits(id) /\ WakeOldest(id)
             \/ /\ ~SomebodyWaits(id)
                /\ value' = [value EXCEPT ![id] = @ + 1]
                /\ UNCHANGED <<processVars, blockedProcessList, lockListPid>>
          /\ holds' = [holds EXCEPT ![nowRunning] = @ \ {id}]
          /\ UNCHANGED <<name, semLock, globalid, lock, waitingIn, hung>>

-----------------------------------------------------------------------------
(* closeSem: it does not wake the processes in the list; "it is the user's *)
(* responsibility that no process is left blocked", as the report says.    *)

CloseSem(id) ==
    /\ InUserCode /\ Asks("close") /\ Exists(id)
    /\ BlockedFor(Reason(id)) = {} \/ Asks("closeBusy")
    /\ name' = [name EXCEPT ![id] = NoName]
    /\ blockedProcessList' = [blockedProcessList EXCEPT ![id] = <<>>]
    /\ hung' = (lock = 1)
    /\ UNCHANGED <<processVars, value, semLock, globalid, lock, lockListPid,
                   waitingIn, holds>>

-----------------------------------------------------------------------------
(* Processes: they end, or lose the CPU.                                   *)

Exit ==
    /\ InUserCode /\ Asks("exit")
    /\ Change({}, {nowRunning})
    /\ Dispatch(state')
    /\ UNCHANGED <<semVars, waitingIn, holds, hung>>

KillProcess(p) ==
    /\ InUserCode /\ Asks("kill")
    /\ p # InitPid
    /\ Change({}, {p})
    /\ Dispatch(state')
    /\ UNCHANGED <<semVars, waitingIn, holds, hung>>

\* The ESC key: no dispatch, the running process may go on although FINISHED.
Escape ==
    /\ InterruptsEnabled /\ Asks("esc")
    /\ \E p \in Foreground : Live(p)
    /\ Change({}, Foreground)
    /\ UNCHANGED <<nowRunning, semVars, waitingIn, holds, hung>>

\* The timer interrupt gives the CPU to p.
Tick(p) ==
    /\ InterruptsEnabled
    /\ Dispatch(state) /\ nowRunning' = p
    /\ UNCHANGED <<state, blockedReason, semVars, waitingIn, holds, hung>>

-----------------------------------------------------------------------------

Init ==
    /\ state = [p \in Process |-> "READY"]
    /\ blockedReason = [p \in Process |-> NoBlock]
    /\ nowRunning = InitPid
    /\ name = [id \in Id |-> NoName]
    /\ value = [id \in Id |-> InitialValue]
    /\ semLock = [id \in Id |-> 0]
    /\ blockedProcessList = [id \in Id |-> <<>>]
    /\ globalid = 1
    /\ lock = 0 /\ lockListPid = 0
    /\ waitingIn = [p \in Process |-> NULL]
    /\ holds = [p \in Process |-> {}]
    /\ hung = FALSE

Next ==
    \/ \E n \in Name : InitializeSemaphore(n)
    \/ \E id \in Id : WaitSem(id) \/ PostSem(id) \/ CloseSem(id)
    \/ ResumeWait
    \/ Exit
    \/ \E p \in Process : KillProcess(p) \/ Tick(p)
    \/ Escape

Spec == Init /\ [][Next]_semaphoreVars

\* Every READY process gets the CPU (EventuallyRuns in Scheduler), a call that
\* has it with interrupts off finishes, and a process that holds a semaphore
\* posts it.
Fairness ==
    /\ \A p \in Process : SF_semaphoreVars(Tick(p))
    /\ WF_semaphoreVars(ResumeWait)
    /\ \A p \in Process, id \in Id :
          SF_semaphoreVars(nowRunning = p /\ PostSem(id))

FairSpec == Spec /\ Fairness

-----------------------------------------------------------------------------
(* Invariants.                                                             *)

Waiting(id) == BlockedFor(Reason(id))
Granted(id) == {p \in Process : waitingIn[p] = id /\ state[p] = "READY"}
Holders(id) == {p \in Process : id \in holds[p]}

\* Every variable keeps its type.
TypeOK ==
    /\ ProcessTypeOK
    /\ name \in [Id -> Name \cup {NoName}]
    /\ value \in [Id -> Nat]
    /\ semLock \in [Id -> {0, 1}]
    /\ blockedProcessList \in [Id -> Seq(Process)]
    /\ globalid \in 1 .. MaxSemId + 1
    /\ lock \in {0, 1} /\ lockListPid \in {0, 1}
    /\ waitingIn \in [Process -> Id \cup {NULL}]
    /\ holds \in [Process -> SUBSET Id]
    /\ hung \in BOOLEAN

\* Tokens are neither lost nor made up: each is in the semaphore, with a process
\* that postSem has woken, or with one that holds it (mutual exclusion included).
TokensConserved ==
    \A id \in Id : Exists(id) =>
        value[id] + Cardinality(Granted(id)) + Cardinality(Holders(id)) = InitialValue

\* Whatever dies at whatever moment, tokens are not made up.
TokensNotMadeUp ==
    \A id \in Id : Exists(id) =>
        value[id] + Cardinality(Granted(id)) + Cardinality(Holders(id)) <= InitialValue

\* No process sleeps beside a free token.
NoIdleToken ==
    \A id \in Id : Exists(id) /\ value[id] > 0 =>
        blockedProcessList[id] = <<>> /\ Waiting(id) = {}

\* A process that sleeps in waitSem is in the list that postSem walks, once, whoever
\* dies and whichever allocation fails: the list that add forgets (semaphore.c:89)
\* is one that no post will walk, because its lock is never released.
WaitersListed ==
    \A id \in Id : Exists(id) /\ semLock[id] = 0 =>
        \A p \in Waiting(id) :
            Cardinality({i \in DOMAIN blockedProcessList[id] :
                            blockedProcessList[id][i] = p}) = 1

\* The invariant behind NoIdleToken, whatever dies, is closed or runs out of memory:
\* a semaphore with tokens has an empty list, and one whose lock is free has all
\* its sleepers in its list; ids not given yet are blank.
SemInv ==
    /\ TypeOK
    /\ \A id \in Id :
          /\ Exists(id) /\ value[id] > 0 =>
                blockedProcessList[id] = <<>> /\ semLock[id] = 0
          /\ Exists(id) /\ semLock[id] = 0 =>
                Waiting(id) \subseteq ToSet(blockedProcessList[id])
          /\ id >= globalid =>
                /\ ~Exists(id) /\ semLock[id] = 0
                /\ blockedProcessList[id] = <<>> /\ Waiting(id) = {}

-----------------------------------------------------------------------------
(* Action and liveness properties.                                         *)

Promise == INSTANCE FifoSemaphore WITH
    tokens <- value,
    queue <- [id \in Id |-> Reverse(blockedProcessList[id])],
    asleep <- [id \in Id |-> Waiting(id)]

\* Each semaphore is a first-come, first-served counter of tokens: the list that
\* postSem walks from the newest pid and the states the scheduler keeps agree.
ImplementsFifo == Promise!Spec

\* Who waits for a semaphore gets it, if those who hold it post it.
EventuallyGranted ==
    \A p \in Process, id \in Id : waitingIn[p] = id ~> id \in holds[p]
=============================================================================

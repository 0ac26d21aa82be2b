----------------------------- MODULE Scheduler -----------------------------
(***************************************************************************)
(* The process scheduler of the kernel (Kernel/c/main/scheduler.c): the    *)
(* process table, the PRIORITY_COUNT round-robin lists, the process tree,  *)
(* blocking and unblocking, the death list of the ESC key, and init.       *)
(*                                                                         *)
(* A system call runs with interrupts disabled, so it is one atomic step   *)
(* up to the _int20() that may give the CPU to another process; waitchild  *)
(* is the only call of this file with work left to do after that point,    *)
(* and `waitingFor' holds the local variable it resumes with.  The init    *)
(* process is the exception: it calls waitchild directly, with interrupts  *)
(* enabled, and can lose the CPU in the middle of removeFromList.          *)
(*                                                                         *)
(* The process table is bounded by MaxPid, the last pid ever handed out.   *)
(***************************************************************************)
EXTENDS Integers, Sequences, FiniteSets, SequencesExt, FiniteSetsExt

CONSTANTS
    MaxPid,          \* bound: pids are 1 .. MaxPid, init is 1
    PRIORITY_COUNT,  \* number of round-robin lists, 0 is served first
    PPID_RANGE,      \* 256 in the code: startProcess takes a uint8_t ppid
    Calls            \* what the processes and the keyboard do in this run

AllCalls == {"startParent", "startChild", "startDiesOnEsc", "exit", "kill",
             "waitChild", "waitAny", "zombieWait", "block", "nice", "yield",
             "esc", "outOfMemory", "initPreempted"}

ASSUME MaxPidAssumption == MaxPid \in Nat /\ MaxPid >= 2
ASSUME PriorityAssumption == PRIORITY_COUNT \in Nat /\ PRIORITY_COUNT >= 1
ASSUME PpidRangeAssumption == PPID_RANGE \in Nat /\ PPID_RANGE >= 2
ASSUME CallsAssumption == Calls \subseteq AllCalls

NULL == 0
Pid == 1 .. MaxPid
PidOrNull == 0 .. MaxPid
InitPid == 1
Priority == 0 .. PRIORITY_COUNT - 1

Source == {"ASKED_TO", "PIPE_READ", "PIPE_WRITE", "WAIT_CHILD", "WAIT_SEM"}
NoBlock == [source |-> "NO_BLOCK", id |-> 0]
BlockedReason == [source : Source \cup {"NO_BLOCK"}, id : Int]

VARIABLES
    state,            \* PCB state; NONE: no such node (not yet, or freed)
    blockedReason,    \* PCB blockedReason
    ppid,             \* PCB ppid, as stored (truncated)
    priority,         \* PCB priority
    remainingQuantum, \* node remainingQuantum
    children,         \* node children, the sibling list as a set
    waitingFor,       \* waitchild's local `child' while the call is suspended
    processes,        \* schedule.processes: one list per priority
    nowRunning,       \* schedule.nowRunning
    schedulerRunning, \* schedulerRunning
    pidToGive,        \* pidToGive
    blockedProcesses, \* blockedProcesses[source]
    deathList,        \* deathList, with the PCB's inDeathList flag
    reaping           \* where init stands in removeFromList

tableVars == <<state, blockedReason, ppid, priority, remainingQuantum,
               children, waitingFor>>
listVars  == <<processes, blockedProcesses, deathList>>
cpuVars   == <<nowRunning, schedulerRunning, pidToGive, reaping>>
schedVars == <<tableVars, listVars, cpuVars>>

Idle == [pid |-> NULL, step |-> "idle"]

-----------------------------------------------------------------------------
(* Looking processes up.                                                   *)

Queued == UNION {ToSet(processes[pr]) : pr \in Priority}

\* findByPid: the running process first, then every list.
Found(p) == p # NULL /\ (p = nowRunning \/ p \in Queued)

IndexIn(list, p) == CHOOSE i \in DOMAIN list : list[i] = p

\* A node leaves its doubly linked list: one occurrence, the others keep their order.
Unlink(list, p) ==
    IF p \in ToSet(list) THEN RemoveAt(list, IndexIn(list, p)) ELSE list

\* (a bug would be: the scan starts at the head of the process's own list)
ScanOrderFromHead ==
    [i \in 1 .. PRIORITY_COUNT |->
        processes[(priority[nowRunning] + i - 1) % PRIORITY_COUNT]]

\* (a bug would be: the scan does not come back to its own list)
ScanOrderNoWrap ==
    LET own == processes[priority[nowRunning]]
    IN  [i \in 1 .. PRIORITY_COUNT |->
           IF i = 1 THEN SubSeq(own, IndexIn(own, nowRunning) + 1, Len(own))
           ELSE processes[(priority[nowRunning] + i - 1) % PRIORITY_COUNT]]

\* findNextProcess: what follows the running process in its own list, then the
\* other lists in cyclic order and its own list again, from the head.
ScanOrder ==
    LET own == processes[priority[nowRunning]]
    IN  [i \in 1 .. PRIORITY_COUNT + 1 |->
           IF i = 1 THEN SubSeq(own, IndexIn(own, nowRunning) + 1, Len(own))
           ELSE processes[(priority[nowRunning] + i - 1) % PRIORITY_COUNT]]

\* The first process of the scan that is READY in st (none: the scan never
\* ends, and no step is possible).
FindNextProcess(st) ==
    {p \in Pid :
        /\ st[p] = "READY"
        /\ \E i \in DOMAIN ScanOrder :
              /\ \E k \in DOMAIN ScanOrder[i] :
                    /\ ScanOrder[i][k] = p
                    /\ \A j \in 1 .. k - 1 : st[ScanOrder[i][j]] # "READY"
              /\ \A h \in 1 .. i - 1 : \A q \in ToSet(ScanOrder[h]) : st[q] # "READY"}

-----------------------------------------------------------------------------
(* Giving up the CPU: scheduler(), run by the timer interrupt and by the   *)
(* _int20() inside a system call.  st and quantum are the process states   *)
(* and quanta the interrupted code leaves.                                 *)

\* (a bug would be: the quantum is not looked at)
MayContinueForEver(st, quantum) == st[nowRunning] = "READY"

MayContinue(st, quantum) == st[nowRunning] = "READY" /\ quantum[nowRunning] > 0

Dispatch(st, quantum) ==
    \/ /\ MayContinue(st, quantum)
       /\ remainingQuantum' = [quantum EXCEPT ![nowRunning] = @ - 1]
       /\ nowRunning' = nowRunning
    \/ /\ ~MayContinue(st, quantum)
       /\ remainingQuantum' =
            [quantum EXCEPT ![nowRunning] =
                IF @ > 0 THEN @ ELSE PRIORITY_COUNT - priority[nowRunning]]
       /\ nowRunning' \in FindNextProcess(st)

Asks(call) == call \in Calls

\* A process runs its own code, and may make a system call.  A process killed
\* by the ESC key while it runs goes on, FINISHED, until the next dispatch.
InUserCode == nowRunning \notin {NULL, InitPid} /\ waitingFor[nowRunning] = NULL

InInit == nowRunning = InitPid /\ state[InitPid] = "READY"

\* The run says whether an interrupt may hit init inside removeFromList.
InterruptsEnabled ==
    InUserCode \/ (InInit /\ (reaping = Idle \/ Asks("initPreempted")))

-----------------------------------------------------------------------------
(* Blocking and unblocking.                                                *)

\* add: out of memory, it forgets the whole list (list->first is NULL).
AfterAdd(list, elem) ==
    {list \cup {elem}} \cup (IF Asks("outOfMemory") THEN {{}} ELSE {})

\* blockProcessWithReason for a READY process p, up to and with its _int20().
BlockAndDispatch(p, reason) ==
    /\ state' = [state EXCEPT ![p] = "BLOCKED"]
    /\ blockedReason' = [blockedReason EXCEPT ![p] = reason]
    /\ \E list \in AfterAdd(blockedProcesses[reason.source], p) :
          blockedProcesses' = [blockedProcesses EXCEPT ![reason.source] = list]
    /\ Dispatch(state', remainingQuantum)

\* setProcessReady for every process of W, and its removal from the lists.
WithReady(st, W) == [p \in Pid |-> IF p \in W THEN "READY" ELSE st[p]]
ClearReasons(W) ==
    blockedReason' = [p \in Pid |-> IF p \in W THEN NoBlock ELSE blockedReason[p]]
LeaveBlockedLists(W) ==
    blockedProcesses' = [s \in Source |-> blockedProcesses[s] \ W]

\* (bugs would be: any blocked process is unblocked; any process not READY is)
IsBlockedForAnything(p, reason) == state[p] = "BLOCKED"
IsNotReady(p, reason) == state[p] # "READY"

IsBlockedFor(p, reason) == state[p] = "BLOCKED" /\ blockedReason[p] = reason

-----------------------------------------------------------------------------
(* Killing: _killProcess for every process of K, which the code finds.     *)

\* A victim whose parent is not found is unblocked but not FINISHED.
Killed(K) == {p \in K : Found(ppid[p])}

WaitsFor(q, p) == /\ blockedReason[q].source = "WAIT_CHILD"
                  /\ blockedReason[q].id \in {p, 0}

\* (a bug would be: the parent is not woken)
ReleasedVictims(K) == {p \in K : state[p] = "BLOCKED"}

Released(K) == {p \in K : state[p] = "BLOCKED"}
               \cup {q \in Pid : \E p \in Killed(K) : q = ppid[p] /\ WaitsFor(q, p)}

StateAfterKill(K) ==
    [p \in Pid |-> IF p \in Killed(K) THEN "FINISHED"
                   ELSE WithReady(state, Released(K))[p]]

\* (a bug would be: the victims stay in the death list)
KillAllKeepsDeathList(K) ==
    /\ state' = StateAfterKill(K)
    /\ ClearReasons(Released(K))
    /\ LeaveBlockedLists(Released(K))
    /\ UNCHANGED deathList

KillAll(K) ==
    /\ state' = StateAfterKill(K)
    /\ ClearReasons(Released(K))
    /\ LeaveBlockedLists(Released(K))
    /\ deathList' = deathList \ K

-----------------------------------------------------------------------------
(* Creating processes.                                                     *)

\* startProcess: the new process enters its list at the head.
StartProcess(prio, parent, dies) ==
    /\ pidToGive <= MaxPid
    /\ state' = [state EXCEPT ![pidToGive] = "READY"]
    /\ ppid' = [ppid EXCEPT ![pidToGive] = parent % PPID_RANGE]
    /\ priority' = [priority EXCEPT ![pidToGive] = prio]
    /\ remainingQuantum' =
         [remainingQuantum EXCEPT ![pidToGive] = PRIORITY_COUNT - prio]
    /\ children' = [children EXCEPT ![parent] = @ \cup {pidToGive}]
    /\ processes' = [processes EXCEPT ![prio] = <<pidToGive>> \o @]
    /\ IF dies THEN deathList' \in AfterAdd(deathList, pidToGive)
               ELSE deathList' = deathList
    /\ pidToGive' = pidToGive + 1
    /\ UNCHANGED <<blockedReason, waitingFor, blockedProcesses, nowRunning, reaping>>

\* The kernel's first process (sampleCodeModule's main) starts the shell.
BootStart ==
    /\ nowRunning = NULL /\ ~schedulerRunning
    /\ StartProcess(0, InitPid, FALSE)
    /\ schedulerRunning' = TRUE

StartParentProcess(prio) ==
    /\ InUserCode /\ Asks("startParent")
    /\ StartProcess(prio, InitPid, FALSE)
    /\ schedulerRunning' = TRUE

StartChildProcess(dies) ==
    /\ InUserCode /\ Asks(IF dies THEN "startDiesOnEsc" ELSE "startChild")
    /\ StartProcess(priority[nowRunning], nowRunning, dies)
    /\ UNCHANGED schedulerRunning

\* A memalloc fails after the pid was taken: nothing is linked anywhere.
StartOutOfMemory ==
    /\ InUserCode /\ Asks("outOfMemory")
    /\ pidToGive <= MaxPid
    /\ pidToGive' = pidToGive + 1
    /\ UNCHANGED <<tableVars, listVars, nowRunning, schedulerRunning, reaping>>

-----------------------------------------------------------------------------
(* Ending processes.                                                       *)

Exit ==
    /\ InUserCode /\ Asks("exit")
    /\ KillAll({nowRunning})
    /\ Dispatch(state', remainingQuantum)
    /\ UNCHANGED <<ppid, priority, children, waitingFor, processes,
                   schedulerRunning, pidToGive, reaping>>

\* killProcess: also for a pid that is not found, which only costs a dispatch.
KillProcess(p) ==
    /\ InUserCode /\ Asks("kill")
    /\ p # InitPid
    /\ KillAll(IF Found(p) THEN {p} ELSE {})
    /\ Dispatch(state', remainingQuantum)
    /\ UNCHANGED <<ppid, priority, children, waitingFor, processes,
                   schedulerRunning, pidToGive, reaping>>

\* The keyboard interrupt on ESC: killAllInDeathList, with no dispatch.
\* Past a pointer to a freed node in the list (a misuse) nothing is modelled.
Escape ==
    /\ InterruptsEnabled /\ Asks("esc")
    /\ deathList # {} /\ \A p \in deathList : state[p] # "NONE"
    /\ KillAll(deathList)
    /\ UNCHANGED <<ppid, priority, remainingQuantum, children, waitingFor,
                   processes, cpuVars>>

-----------------------------------------------------------------------------
(* Waiting for a child and removing it.                                    *)

\* removeFromList, first part: out of its round-robin list.
\* (a bug would be: it looks in the first list only)
DequeueFirstList(p) == processes' = [processes EXCEPT ![0] = Unlink(@, p)]

Dequeue(p) == processes' = [processes EXCEPT ![priority[p]] = Unlink(@, p)]

\* freeNode: the node and the PCB go back to the allocator.
Free(p) ==
    /\ state' = [state EXCEPT ![p] = "NONE"]
    /\ blockedReason' = [blockedReason EXCEPT ![p] = NoBlock]
    /\ priority' = [priority EXCEPT ![p] = 0]
    /\ remainingQuantum' = [remainingQuantum EXCEPT ![p] = 0]

\* inheritChildren: init becomes the parent of p's children.
\* (a bug would be: the orphans keep their ppid)
AdoptedInListOnly(p) == ppid' = [ppid EXCEPT ![p] = NULL]

AdoptedByInit(p) ==
    ppid' = [q \in Pid |-> IF q \in children[p] THEN InitPid
                           ELSE IF q = p THEN NULL ELSE ppid[q]]

\* The end of waitchild: unlink the child from its siblings, removeFromList.
Reap(child) ==
    /\ Dequeue(child)
    /\ children' = [children EXCEPT ![nowRunning] = @ \ {child},
                                    ![InitPid] = @ \cup children[child],
                                    ![child] = {}]
    /\ AdoptedByInit(child)
    /\ Free(child)
    /\ waitingFor' = [waitingFor EXCEPT ![nowRunning] = NULL, ![child] = NULL]
    /\ UNCHANGED <<blockedProcesses, deathList, cpuVars>>

BlockForChild(childpid, child) ==
    /\ BlockAndDispatch(nowRunning, [source |-> "WAIT_CHILD", id |-> childpid])
    /\ waitingFor' = [waitingFor EXCEPT ![nowRunning] = child]
    /\ UNCHANGED <<ppid, priority, children, processes, deathList,
                   schedulerRunning, pidToGive, reaping>>

\* waitchild(childpid); 0 takes the head of the children list, the oldest.  A
\* pid that is not a child returns -2 and changes nothing.
WaitChild(childpid) ==
    /\ InUserCode /\ Asks(IF childpid = 0 THEN "waitAny" ELSE "waitChild")
    /\ children[nowRunning] # {}
    /\ LET child == IF childpid = 0 THEN Min(children[nowRunning]) ELSE childpid
       IN  /\ child \in children[nowRunning]
           /\ \/ state[child] = "FINISHED" /\ Reap(child)
              \/ /\ state[child] # "FINISHED" /\ state[nowRunning] = "READY"
                 /\ BlockForChild(childpid, child)
              \/ \* the caller was killed by ESC: the block is refused
                 /\ state[child] # "FINISHED" /\ state[nowRunning] # "READY"
                 /\ Asks("zombieWait")
                 /\ Reap(child)

\* waitchild goes on when its caller gets the CPU back.
ResumeWaitChild ==
    /\ nowRunning # NULL /\ waitingFor[nowRunning] # NULL
    /\ Reap(waitingFor[nowRunning])

-----------------------------------------------------------------------------
(* init: waitchild for each FINISHED child, preemptible between the steps. *)

\* (a bug would be: init looks at its first child only)
InitVisitsFirst(child) ==
    children[InitPid] # {} /\ child = Min(children[InitPid])

InitVisits(child) == child \in children[InitPid]

InitUnlink(child) ==
    /\ InInit /\ reaping = Idle
    /\ InitVisits(child) /\ state[child] = "FINISHED"
    /\ children' = [children EXCEPT ![InitPid] = @ \ {child}]
    /\ reaping' = [pid |-> child, step |-> "unlinked"]
    /\ UNCHANGED <<state, blockedReason, ppid, priority, remainingQuantum, waitingFor,
                   listVars, nowRunning, schedulerRunning, pidToGive>>

InitDequeue ==
    /\ InInit /\ reaping.step = "unlinked"
    /\ Dequeue(reaping.pid)
    /\ reaping' = [reaping EXCEPT !.step = "dequeued"]
    /\ UNCHANGED <<tableVars, blockedProcesses, deathList, nowRunning,
                   schedulerRunning, pidToGive>>

InitInherit ==
    /\ InInit /\ reaping.step = "dequeued"
    /\ children' = [children EXCEPT ![InitPid] = @ \cup children[reaping.pid],
                                    ![reaping.pid] = {}]
    /\ AdoptedByInit(reaping.pid)
    /\ Free(reaping.pid)
    /\ waitingFor' = [waitingFor EXCEPT ![reaping.pid] = NULL]
    /\ reaping' = Idle
    /\ UNCHANGED <<listVars, nowRunning, schedulerRunning, pidToGive>>

-----------------------------------------------------------------------------
(* The other calls.                                                        *)

\* init is refused.  (A bug would be: it is not.)
MayBlockAnyone(p) == Found(p)

MayBlock(p) == p # InitPid /\ Found(p)

\* blockProcess: blocks a READY process, or unblocks one blocked this way.
BlockProcess(p) ==
    LET reason == [source |-> "ASKED_TO", id |-> 0]
    IN  /\ InUserCode /\ Asks("block")
        /\ MayBlock(p)
        /\ \/ state[p] = "READY" /\ BlockAndDispatch(p, reason)
           \/ /\ IsBlockedFor(p, reason)
              /\ state' = WithReady(state, {p})
              /\ ClearReasons({p})
              /\ LeaveBlockedLists({p})
              /\ UNCHANGED <<remainingQuantum, nowRunning>>
        /\ UNCHANGED <<ppid, priority, children, waitingFor, processes, deathList,
                       schedulerRunning, pidToGive, reaping>>

ChangePriority(p, newPriority) ==
    /\ InUserCode /\ Asks("nice")
    /\ Found(p)
    /\ processes' = [pr \in Priority |->
          LET others == Unlink(processes[pr], p)
          IN  IF pr = newPriority THEN <<p>> \o others ELSE others]
    /\ priority' = [priority EXCEPT ![p] = newPriority]
    /\ remainingQuantum' =
         [remainingQuantum EXCEPT ![p] = PRIORITY_COUNT - newPriority]
    /\ UNCHANGED <<state, blockedReason, ppid, children, waitingFor, blockedProcesses,
                   deathList, cpuVars>>

Yield ==
    /\ InUserCode /\ Asks("yield")
    /\ Dispatch(state, [remainingQuantum EXCEPT ![nowRunning] = 0])
    /\ UNCHANGED <<state, blockedReason, ppid, priority, children, waitingFor,
                   listVars, schedulerRunning, pidToGive, reaping>>

\* The timer interrupt.
Tick ==
    /\ InterruptsEnabled
    /\ Dispatch(state, remainingQuantum)
    /\ UNCHANGED <<state, blockedReason, ppid, priority, children, waitingFor,
                   listVars, schedulerRunning, pidToGive, reaping>>

\* The first dispatch: no process has run yet, init starts.
StartInit ==
    /\ nowRunning = NULL /\ schedulerRunning
    /\ nowRunning' = InitPid
    /\ UNCHANGED <<tableVars, listVars, schedulerRunning, pidToGive, reaping>>

-----------------------------------------------------------------------------

\* initializeScheduler.
Init ==
    /\ state = [p \in Pid |-> IF p = InitPid THEN "READY" ELSE "NONE"]
    /\ blockedReason = [p \in Pid |-> NoBlock]
    /\ ppid = [p \in Pid |-> NULL]
    /\ priority = [p \in Pid |-> IF p = InitPid THEN PRIORITY_COUNT - 1 ELSE 0]
    /\ remainingQuantum = [p \in Pid |-> IF p = InitPid THEN 1 ELSE 0]
    /\ children = [p \in Pid |-> {}]
    /\ waitingFor = [p \in Pid |-> NULL]
    /\ processes = [pr \in Priority |->
                      IF pr = PRIORITY_COUNT - 1 THEN <<InitPid>> ELSE <<>>]
    /\ nowRunning = NULL
    /\ schedulerRunning = FALSE
    /\ pidToGive = InitPid + 1
    /\ blockedProcesses = [s \in Source |-> {}]
    /\ deathList = {}
    /\ reaping = Idle

SystemCall ==
    \/ \E prio \in Priority : StartParentProcess(prio)
    \/ \E dies \in BOOLEAN : StartChildProcess(dies)
    \/ StartOutOfMemory
    \/ Exit
    \/ \E p \in Pid : KillProcess(p)
    \/ \E c \in PidOrNull : WaitChild(c)
    \/ ResumeWaitChild
    \/ \E p \in Pid : BlockProcess(p)
    \/ \E p \in Pid, prio \in Priority : ChangePriority(p, prio)
    \/ Yield

InitStep ==
    \/ \E c \in Pid : InitUnlink(c)
    \/ InitDequeue
    \/ InitInherit

Next ==
    \/ BootStart
    \/ StartInit
    \/ Tick
    \/ Escape
    \/ InitStep
    \/ SystemCall

Spec == Init /\ [][Next]_schedVars

\* The timer keeps interrupting; a process that has the CPU in waitchild runs on
\* (interrupts are off); init's walk visits its whole list at every pass, and a
\* pass is far shorter than the time between two timer interrupts.
Fairness ==
    /\ WF_schedVars(StartInit) /\ WF_schedVars(BootStart)
    /\ SF_schedVars(Tick)
    /\ WF_schedVars(ResumeWaitChild)
    /\ \A c \in Pid : SF_schedVars(InitUnlink(c))
    /\ SF_schedVars(InitDequeue)
    /\ SF_schedVars(InitInherit)

FairSpec == Spec /\ Fairness

-----------------------------------------------------------------------------
(* Invariants.                                                             *)

Node(p) == state[p] # "NONE"
Live(p) == state[p] \in {"READY", "BLOCKED"}

\* Every variable keeps its type; a quantum never leaves 0 .. PRIORITY_COUNT,
\* although it is an int8_t that scheduler() decrements and adds to.
TypeOK ==
    /\ state \in [Pid -> {"NONE", "READY", "BLOCKED", "FINISHED"}]
    /\ blockedReason \in [Pid -> BlockedReason]
    /\ ppid \in [Pid -> PidOrNull]
    /\ priority \in [Pid -> Priority]
    /\ remainingQuantum \in [Pid -> 0 .. PRIORITY_COUNT]
    /\ children \in [Pid -> SUBSET Pid]
    /\ waitingFor \in [Pid -> PidOrNull]
    /\ processes \in [Priority -> Seq(Pid)]
    /\ nowRunning \in PidOrNull
    /\ schedulerRunning \in BOOLEAN
    /\ pidToGive \in 1 .. MaxPid + 1
    /\ blockedProcesses \in [Source -> SUBSET Pid]
    /\ deathList \in SUBSET Pid
    /\ reaping \in {Idle} \cup [pid : Pid, step : {"unlinked", "dequeued"}]

\* A parent asleep in waitchild sleeps for a child that is alive and will find
\* it when it dies: no interleaving of exits, kills, ESC and adoptions by init
\* loses the wake-up.
NoLostWakeup ==
    \A p \in Pid :
        state[p] = "BLOCKED" /\ blockedReason[p].source = "WAIT_CHILD" =>
            LET c == waitingFor[p]
            IN  /\ c \in children[p] /\ Live(c)
                /\ ppid[c] = p
                /\ blockedReason[p].id \in {c, 0}

\* "When it comes back here it is because now it is FINISHED": waitchild goes on
\* past its block only when its child is dead and still its child.
ResumedForDeadChild ==
    nowRunning # NULL /\ waitingFor[nowRunning] # NULL =>
        /\ state[waitingFor[nowRunning]] = "FINISHED"
        /\ waitingFor[nowRunning] \in children[nowRunning]

NoRepeats(list) == \A i, j \in DOMAIN list : list[i] = list[j] => i = j

\* The round-robin lists partition the nodes by priority, each node once; only
\* the node init is removing may be out of them.
RunListsExact ==
    /\ \A pr \in Priority : NoRepeats(processes[pr])
    /\ \A p \in Pid, pr \in Priority :
          p \in ToSet(processes[pr])
            <=> /\ Node(p) /\ priority[p] = pr
                /\ reaping # [pid |-> p, step |-> "dequeued"]

\* The process tree: a process is in the children of the process its ppid names
\* and of no other, through exits, reaping and adoption, and no process descends
\* from itself; only the node init is removing is out of the tree.
FamilyExact ==
    /\ \A q \in Pid : \A p \in children[q] :
          Node(p) /\ Node(q) /\ ppid[p] = q /\ q < p
    /\ \A p \in Pid : Node(p) /\ p \notin {InitPid, reaping.pid} =>
          ppid[p] # NULL /\ p \in children[ppid[p]]

\* The scan of findNextProcess always ends: init is READY and in a list, and
\* the process that has the CPU is in a list and not blocked.
SchedulerNeverHangs ==
    /\ state[InitPid] = "READY"
    /\ nowRunning # NULL =>
          /\ nowRunning \in Queued /\ state[nowRunning] # "BLOCKED"
          /\ FindNextProcess(state) # {}

\* The ESC key finds live processes only: the death list never keeps a pointer
\* to a node that is dead or freed.
DeathListLive == \A p \in deathList : Live(p)

-----------------------------------------------------------------------------
(* The inductive invariant behind NoLostWakeup, ResumedForDeadChild,       *)
(* FreesOnlyTheDead and DeadStaysDead.                                     *)

\* Workloads in which waitchild is given a pid, no process killed by ESC calls it
\* for a living child, init is not interrupted inside removeFromList, and no
\* pid is truncated.  Outside them the code breaks these properties.
Regular ==
    /\ MaxPid < PPID_RANGE
    /\ Calls \cap {"waitAny", "zombieWait", "initPreempted"} = {}

PidsAhead == \A p \in Pid : p >= pidToGive => ~Node(p) /\ waitingFor[p] = NULL

CpuExact ==
    /\ state[InitPid] = "READY" /\ waitingFor[InitPid] = NULL
    /\ InitPid \notin deathList
    /\ nowRunning # NULL =>
          /\ state[nowRunning] \in {"READY", "FINISHED"}
          /\ waitingFor[nowRunning] # NULL => state[nowRunning] = "READY"

InitReapsTheDead ==
    reaping # Idle =>
        /\ nowRunning = InitPid /\ reaping.pid # InitPid
        /\ state[reaping.pid] = "FINISHED"
        /\ \A q \in Pid : reaping.pid \notin children[q]

AsleepInWait(p) == blockedReason[p].source = "WAIT_CHILD"

WaitExact ==
    \A p \in Pid :
        /\ state[p] # "BLOCKED" => blockedReason[p] = NoBlock
        /\ AsleepInWait(p) =>
              waitingFor[p] # NULL /\ blockedReason[p].id = waitingFor[p]
        /\ waitingFor[p] # NULL /\ Live(p) =>
              /\ waitingFor[p] \in children[p]
              /\ IF AsleepInWait(p) THEN Live(waitingFor[p])
                                    ELSE state[waitingFor[p]] = "FINISHED"

\* All of it: whoever waits for a child has a child to wait for, alive while it
\* sleeps and dead when it wakes, whatever the tree and the lists went through.
IndInv ==
    /\ TypeOK /\ PidsAhead /\ CpuExact /\ InitReapsTheDead
    /\ WaitExact /\ FamilyExact /\ RunListsExact

-----------------------------------------------------------------------------
(* Action and liveness properties.                                         *)

\* A process that died is never made READY again: no wake-up, unblock, kill or
\* adoption that reaches it late brings it back, and its pid is not reused.
DeadStaysDead ==
    [][\A p \in Pid :
          /\ state[p] = "FINISHED" => state'[p] \in {"FINISHED", "NONE"}
          /\ p < pidToGive /\ state[p] = "NONE" => state'[p] = "NONE"]_schedVars

\* Only the node of a dead process is freed, however waitchild got to the end.
FreesOnlyTheDead ==
    [][\A p \in Pid : Node(p) /\ state'[p] = "NONE" => state[p] = "FINISHED"]_schedVars

\* The kernel's promise about parents and children: ProcessFamily, in which a
\* node counts as collected when it is freed, and a process sleeps for a child
\* while it is blocked in waitchild.
Status ==
    [p \in Pid |-> IF state[p] = "NONE" THEN IF p < pidToGive THEN "collected" ELSE "unborn"
                   ELSE IF state[p] = "FINISHED" THEN "dead" ELSE "live"]

SleepsFor ==
    [p \in Pid |-> IF state[p] = "BLOCKED" /\ AsleepInWait(p) THEN waitingFor[p] ELSE NULL]

Promise == INSTANCE ProcessFamily WITH
    status <- Status, parent <- ppid, sleepsFor <- SleepsFor

\* The scheduler, with its lists, quanta, preemption and interruptible init,
\* keeps that promise.
ImplementsProcessFamily == Promise!Spec

\* Every READY process gets the CPU, unless it is blocked or killed first.
EventuallyRuns ==
    \A p \in Pid : state[p] = "READY" ~> (nowRunning = p \/ state[p] # "READY")

\* Every dead process whose parent is init is freed.
OrphansReaped ==
    \A p \in Pid : (state[p] = "FINISHED" /\ ppid[p] = InitPid) ~> state[p] = "NONE"
=============================================================================

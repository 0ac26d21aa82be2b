-------------------------- MODULE SemaphoresProofs --------------------------
(***************************************************************************)
(* For every number of processes and semaphores: no process sleeps beside  *)
(* a free token, in every workload, kills, the ESC key, semaphores closed  *)
(* while in use and allocations that fail included; no call spins for ever *)
(* while memory lasts; tokens are not made up by users who post only what  *)
(* they hold.                                                              *)
(*                                                                         *)
(* Then the lists of waiters against the states the scheduler keeps.  A    *)
(* pid in a list is of a process asleep for the semaphore, once, or of a   *)
(* dead one; from there: sleepers are listed, no token is lost, and a      *)
(* semaphore implements FifoSemaphore.                                     *)
(***************************************************************************)
EXTENDS Semaphores, FiniteSetTheorems, SequenceTheorems, TLAPS

\* Block reasons of different semaphores differ, and differ from no reason.
LEMMA ReasonsDiffer ==
    /\ \A i, j \in Id : Reason(i) = Reason(j) => i = j
    /\ \A i \in Id : Reason(i) # NoBlock
BY DEF Reason, NoBlock

\* Waking W and killing K takes exactly them from every set of blocked processes.
LEMMA ChangeEffect ==
    ASSUME ProcessTypeOK, NEW W \in SUBSET Process, NEW K \in SUBSET Process, Change(W, K)
    PROVE  /\ state' \in [Process -> {"NONE", "READY", "BLOCKED", "FINISHED"}]
           /\ DOMAIN blockedReason' = Process
           /\ \A id \in Id : Waiting(id)' = Waiting(id) \ (W \cup K)
<1>1. /\ \A p \in Process : p \in K => state'[p] = "FINISHED"
      /\ \A p \in Process : p \in W \ K => state'[p] = "READY"
      /\ \A p \in Process : p \notin W \cup K => state'[p] = state[p]
      /\ \A p \in Process : blockedReason'[p] = IF p \in W \cup K THEN NoBlock
                                                                  ELSE blockedReason[p]
      /\ DOMAIN blockedReason' = Process /\ DOMAIN state' = Process
  BY DEF Change
<1>2. state' \in [Process -> {"NONE", "READY", "BLOCKED", "FINISHED"}]
  <2>1. \A p \in Process : state'[p] \in {"NONE", "READY", "BLOCKED", "FINISHED"}
    BY <1>1 DEF ProcessTypeOK
  <2>2. state' = [p \in Process |-> state'[p]]
    BY DEF Change
  <2> QED
    BY <2>1, <2>2
<1>3. ASSUME NEW id \in Id
      PROVE  Waiting(id)' = Waiting(id) \ (W \cup K)
  BY <1>1, ReasonsDiffer DEF Waiting, BlockedFor, IsBlockedFor
<1> QED
  BY <1>1, <1>2, <1>3

\* Blocking the running process adds it to one set of blocked processes.
LEMMA BlockEffect ==
    ASSUME ProcessTypeOK, NEW id \in Id, MayBlock, BlockRunning(Reason(id))
    PROVE  /\ ProcessTypeOK'
           /\ Waiting(id)' = Waiting(id) \cup {nowRunning}
           /\ \A j \in Id \ {id} : Waiting(j)' = Waiting(j)
<1>1. /\ \A p \in Process \ {nowRunning} : /\ state'[p] = state[p]
                                           /\ blockedReason'[p] = blockedReason[p]
      /\ state'[nowRunning] = "BLOCKED" /\ blockedReason'[nowRunning] = Reason(id)
      /\ DOMAIN blockedReason' = Process
      /\ state' \in [Process -> {"NONE", "READY", "BLOCKED", "FINISHED"}]
      /\ nowRunning' \in Process /\ nowRunning \in Process
  BY DEF BlockRunning, ProcessTypeOK, Dispatch
<1>2. state[nowRunning] # "BLOCKED"
  BY DEF MayBlock
<1>3. ProcessTypeOK'
  BY <1>1 DEF ProcessTypeOK
<1>4. Waiting(id)' = Waiting(id) \cup {nowRunning}
  BY <1>1 DEF Waiting, BlockedFor, IsBlockedFor
<1>5. \A j \in Id \ {id} : Waiting(j)' = Waiting(j)
  BY <1>1, <1>2, ReasonsDiffer DEF Waiting, BlockedFor, IsBlockedFor
<1> QED
  BY <1>3, <1>4, <1>5

\* What postSem does to the list: the last element leaves, all others stay.
LEMMA FrontEffect ==
    ASSUME NEW S, NEW list \in Seq(S), list # <<>>
    PROVE  /\ Front(list) \in Seq(S) /\ Last(list) \in S
           /\ \A p \in ToSet(list) : p # Last(list) => p \in ToSet(Front(list))
<1>1. Len(list) \in Nat \ {0} /\ DOMAIN list = 1 .. Len(list)
  OBVIOUS
<1>2. Front(list) \in Seq(S) /\ Last(list) \in S
  BY <1>1 DEF Front, Last
<1>3. /\ Len(Front(list)) = Len(list) - 1
      /\ \A i \in 1 .. Len(list) - 1 : Front(list)[i] = list[i]
  BY <1>1 DEF Front
<1>4. ASSUME NEW p \in ToSet(list), p # Last(list)
      PROVE  p \in ToSet(Front(list))
  <2>1. PICK i \in 1 .. Len(list) : list[i] = p
    BY <1>1 DEF ToSet
  <2>2. i \in 1 .. Len(list) - 1
    BY <1>1, <2>1, <1>4 DEF Last
  <2> QED
    BY <1>2, <1>3, <2>1, <2>2 DEF ToSet
<1> QED
  BY <1>2, <1>4

\* A pid put at the head of the list joins the others.
LEMMA PushEffect ==
    ASSUME NEW S, NEW list \in Seq(S), NEW p \in S
    PROVE  /\ <<p>> \o list \in Seq(S)
           /\ ToSet(list) \cup {p} \subseteq ToSet(<<p>> \o list)
<1> DEFINE pushed == <<p>> \o list
<1>1. /\ pushed \in Seq(S) /\ Len(pushed) = Len(list) + 1
      /\ pushed[1] = p /\ \A i \in 1 .. Len(list) : pushed[i + 1] = list[i]
  OBVIOUS
<1>2. p \in ToSet(pushed)
  <2>1. 1 \in DOMAIN pushed
    BY <1>1
  <2> QED
    BY <1>1, <2>1 DEF ToSet
<1>3. ASSUME NEW q \in ToSet(list) PROVE q \in ToSet(pushed)
  <2>1. PICK i \in 1 .. Len(list) : list[i] = q
    BY DEF ToSet
  <2>2. i + 1 \in DOMAIN pushed /\ pushed[i + 1] = q
    BY <1>1, <2>1
  <2> QED
    BY <2>2 DEF ToSet
<1> QED
  BY <1>1, <1>2, <1>3

\* The part of SemInv about one semaphore.
SemOK(id) ==
    /\ Exists(id) /\ value[id] > 0 => blockedProcessList[id] = <<>> /\ semLock[id] = 0
    /\ Exists(id) /\ semLock[id] = 0 => Waiting(id) \subseteq ToSet(blockedProcessList[id])
    /\ id >= globalid => /\ ~Exists(id) /\ semLock[id] = 0
                         /\ blockedProcessList[id] = <<>> /\ Waiting(id) = {}

\* SemInv is the types, and SemOK of every semaphore; also after a step.
LEMMA SemInvParts == SemInv => TypeOK /\ \A id \in Id : SemOK(id)
BY DEF SemInv, SemOK

\* The same for the state after a step.
LEMMA SemInvNext ==
    ASSUME TypeOK', \A id \in Id : SemOK(id)'
    PROVE  SemInv'
BY DEF SemInv, SemOK

\* A step that leaves the semaphores alone and puts nobody to sleep.
LEMMA QuietStep ==
    ASSUME SemInv, TypeOK', \A id \in Id : Waiting(id)' \subseteq Waiting(id),
           UNCHANGED semVars
    PROVE  SemInv'
<1> SUFFICES ASSUME NEW id \in Id PROVE SemOK(id)'
  BY SemInvNext
<1>1. SemOK(id) /\ Waiting(id)' \subseteq Waiting(id)
  BY SemInvParts
<1> QED
  BY <1>1 DEF SemOK, Exists, semVars

\* The processes' part of the types of a step that wakes W and kills K.
LEMMA ChangeTypes ==
    ASSUME TypeOK, NEW W \in SUBSET Process, NEW K \in SUBSET Process, Change(W, K),
           nowRunning' \in Process
    PROVE  /\ ProcessTypeOK'
           /\ \A id \in Id : Waiting(id)' = Waiting(id) \ (W \cup K)
<1>1. ProcessTypeOK
  BY DEF TypeOK
<1> QED
  BY <1>1, ChangeEffect DEF ProcessTypeOK

\* An exit, a kill or the ESC key.
LEMMA EndStep ==
    ASSUME SemInv,
           Exit \/ (\E p \in Process : KillProcess(p)) \/ Escape
    PROVE  SemInv'
<1>t. TypeOK
  BY DEF SemInv
<1>n. nowRunning \in Process
  BY <1>t DEF TypeOK, ProcessTypeOK
<1>1. PICK K \in SUBSET Process : Change({}, K)
  BY <1>n, ProcessAssumption DEF Exit, KillProcess, Escape
<1>2. nowRunning' \in Process
  BY <1>n DEF Exit, KillProcess, Escape, Dispatch
<1>3. UNCHANGED <<semVars, waitingIn, holds, hung>>
  BY DEF Exit, KillProcess, Escape
<1>4. ProcessTypeOK' /\ \A id \in Id : Waiting(id)' \subseteq Waiting(id)
  BY <1>t, <1>1, <1>2, ChangeTypes
<1>5. TypeOK'
  BY <1>t, <1>3, <1>4 DEF TypeOK, semVars
<1> QED
  BY <1>3, <1>4, <1>5, QuietStep

\* A step that changes neither the states of the processes nor the semaphores.
LEMMA TurnStep ==
    ASSUME SemInv,
           ResumeWait \/ (\E p \in Process : Tick(p)) \/ Spin
    PROVE  SemInv'
<1>t. TypeOK
  BY DEF SemInv
<1>1. UNCHANGED <<state, blockedReason, semVars>> /\ nowRunning' \in Process
  BY <1>t DEF ResumeWait, Tick, Spin, processVars, TypeOK, ProcessTypeOK, Dispatch
<1>2. /\ waitingIn' \in [Process -> Id \cup {NULL}]
      /\ holds' \in [Process -> SUBSET Id]
      /\ hung' \in BOOLEAN
  <2>1. CASE ResumeWait
    <3>1. nowRunning \in Process /\ waitingIn[nowRunning] \in Id
      BY <1>t, <2>1 DEF ResumeWait, TypeOK, ProcessTypeOK
    <3> QED
      BY <1>t, <2>1, <3>1 DEF ResumeWait, TypeOK
  <2>2. CASE \E p \in Process : Tick(p)
    BY <1>t, <2>2 DEF Tick, TypeOK
  <2>3. CASE Spin
    BY <1>t, <2>3 DEF Spin, TypeOK
  <2> QED
    BY <2>1, <2>2, <2>3
<1>3. TypeOK'
  BY <1>t, <1>1, <1>2 DEF TypeOK, ProcessTypeOK, semVars
<1>4. \A id \in Id : Waiting(id)' = Waiting(id)
  BY <1>1 DEF Waiting, BlockedFor, IsBlockedFor
<1> QED
  BY <1>1, <1>3, <1>4, QuietStep

\* initializeSemaphore, the failing one included.
LEMMA InitializeStep ==
    ASSUME SemInv, NEW n \in Name, InitializeSemaphore(n)
    PROVE  SemInv'
<1>t. TypeOK
  BY DEF SemInv
<1>1. CASE Spin
  BY <1>1, TurnStep
<1>2. CASE /\ Create(n) \/ CreateOutOfMemory
           /\ globalid' = globalid + 1
           /\ UNCHANGED <<processVars, lockListPid, waitingIn, holds, hung>>
  <2>g. globalid \in Id /\ globalid <= MaxSemId /\ globalid \in Nat
    BY <1>t, SemAssumption DEF TypeOK, Id, InitializeSemaphore
  <2>1. /\ name' \in [Id -> Name \cup {NoName}] /\ value' \in [Id -> Nat]
        /\ lock' \in {0, 1} /\ globalid' \in 1 .. MaxSemId + 1
        /\ UNCHANGED <<semLock, blockedProcessList>>
    <3>1. globalid' \in 1 .. MaxSemId + 1
      BY <1>2, <2>g, SemAssumption
    <3>2. CASE Create(n)
      BY <1>t, <3>1, <3>2, <2>g, SemAssumption DEF Create, TypeOK
    <3>3. CASE CreateOutOfMemory
      BY <1>t, <3>1, <3>3 DEF CreateOutOfMemory, TypeOK
    <3> QED
      BY <1>2, <3>2, <3>3
  <2>2. TypeOK'
    BY <1>t, <1>2, <2>1 DEF TypeOK, ProcessTypeOK, processVars
  <2>3. \A id \in Id : Waiting(id)' = Waiting(id)
    BY <1>2 DEF processVars, Waiting, BlockedFor, IsBlockedFor
  <2>4. ASSUME NEW id \in Id PROVE SemOK(id)'
    <3>1. SemOK(id)
      BY SemInvParts
    <3>2. id >= globalid' => id >= globalid /\ id # globalid
      BY <1>2, <2>g DEF Id
    <3>3. id = globalid => id >= globalid
      BY <2>g
    <3>4. CASE Create(n)
      <4>1. CASE id = globalid
        <5>1. blockedProcessList'[id] = <<>> /\ semLock'[id] = 0 /\ Waiting(id)' = {}
          BY <2>1, <2>3, <3>1, <3>3, <4>1 DEF SemOK
        <5>2. ~(id >= globalid')
          BY <3>2, <4>1
        <5> QED
          BY <5>1, <5>2 DEF SemOK
      <4>2. CASE id # globalid
        <5>1. name'[id] = name[id] /\ value'[id] = value[id]
          BY <1>t, <3>4, <4>2 DEF Create, TypeOK
        <5> QED
          BY <2>1, <2>3, <3>1, <3>2, <5>1 DEF SemOK, Exists
      <4> QED
        BY <4>1, <4>2
    <3>5. CASE CreateOutOfMemory
      <4>1. value' = value /\ (name'[id] = name[id] \/ name'[id] = NoName)
        BY <3>5 DEF CreateOutOfMemory
      <4> QED
        BY <2>1, <2>3, <3>1, <3>2, <4>1 DEF SemOK, Exists
    <3> QED
      BY <1>2, <3>4, <3>5
  <2> QED
    BY <2>2, <2>4, SemInvNext
<1> QED
  BY <1>1, <1>2 DEF InitializeSemaphore

\* waitSem up to its block, the failing one included.
LEMMA WaitStep ==
    ASSUME SemInv, NEW id \in Id, WaitSem(id)
    PROVE  SemInv'
<1>t. TypeOK
  BY DEF SemInv
<1>r. nowRunning \in Process /\ value[id] \in Nat
  BY <1>t DEF TypeOK, ProcessTypeOK
<1>1. CASE Spin
  BY <1>1, TurnStep
<1>2. CASE semLock[id] = 0 /\ HasToken(id) /\ TakeToken(id)
           /\ UNCHANGED <<globalid, lock, lockListPid, hung>>
  <2>1. value' \in [Id -> Nat] /\ value'[id] < value[id]
        /\ \A j \in Id \ {id} : value'[j] = value[j]
    BY <1>t, <1>r, <1>2 DEF TakeToken, HasToken, TypeOK
  <2>2. holds' \in [Process -> SUBSET Id]
    BY <1>t, <1>r, <1>2 DEF TakeToken, TypeOK
  <2>3. TypeOK'
    BY <1>t, <1>2, <2>1, <2>2 DEF TakeToken, TypeOK, ProcessTypeOK, processVars
  <2>4. \A j \in Id : Waiting(j)' = Waiting(j)
    BY <1>2 DEF TakeToken, processVars, Waiting, BlockedFor, IsBlockedFor
  <2>5. ASSUME NEW j \in Id PROVE SemOK(j)'
    <3>1. SemOK(j) /\ (value'[j] > 0 => value[j] > 0)
      BY <1>r, <2>1, SemInvParts
    <3> QED
      BY <1>2, <2>4, <3>1 DEF SemOK, Exists, TakeToken
  <2> QED
    BY <2>3, <2>5, SemInvNext
<1>3. CASE semLock[id] = 0 /\ ~HasToken(id) /\ WaitForToken(id)
           /\ UNCHANGED <<globalid, lock, lockListPid, hung>>
  <2>1. value[id] = 0 /\ Exists(id)
    BY <1>r, <1>3 DEF HasToken, WaitSem
  <2>2. /\ blockedProcessList' \in [Id -> Seq(Process)]
        /\ ToSet(blockedProcessList[id]) \cup {nowRunning}
             \subseteq ToSet(blockedProcessList'[id])
        /\ \A j \in Id \ {id} : blockedProcessList'[j] = blockedProcessList[j]
    <3>1. PICK list \in Seq(Process) : list = blockedProcessList[id]
      BY <1>t DEF TypeOK
    <3>2. /\ <<nowRunning>> \o list \in Seq(Process)
          /\ ToSet(list) \cup {nowRunning} \subseteq ToSet(<<nowRunning>> \o list)
      BY <1>r, PushEffect
    <3>3. blockedProcessList' = [blockedProcessList EXCEPT ![id] = <<nowRunning>> \o list]
      BY <1>3, <3>1 DEF WaitForToken, Enlist
    <3>4. DOMAIN blockedProcessList = Id
      BY <1>t DEF TypeOK
    <3>5. blockedProcessList'[id] = <<nowRunning>> \o list
      BY <3>3, <3>4
    <3> QED
      BY <1>t, <3>1, <3>2, <3>3, <3>5 DEF TypeOK
  <2>3. /\ ProcessTypeOK'
        /\ Waiting(id)' \subseteq Waiting(id) \cup {nowRunning}
        /\ \A j \in Id \ {id} : Waiting(j)' = Waiting(j)
    <3>1. ProcessTypeOK
      BY <1>t DEF TypeOK
    <3>2. CASE MayBlock /\ BlockRunning(Reason(id))
      BY <3>1, <3>2, BlockEffect
    <3>3. CASE UNCHANGED processVars
      BY <3>1, <3>3 DEF processVars, ProcessTypeOK, Waiting, BlockedFor, IsBlockedFor
    <3> QED
      BY <1>3, <3>2, <3>3 DEF WaitForToken
  <2>4. waitingIn' \in [Process -> Id \cup {NULL}] /\ holds' \in [Process -> SUBSET Id]
    <3>1. waitingIn \in [Process -> Id \cup {NULL}] /\ holds \in [Process -> SUBSET Id]
      BY <1>t DEF TypeOK
    <3>2. CASE waitingIn' = [waitingIn EXCEPT ![nowRunning] = id] /\ UNCHANGED holds
      BY <3>1, <3>2
    <3>3. CASE /\ holds' = [holds EXCEPT ![nowRunning] = @ \cup {id}]
               /\ UNCHANGED waitingIn
      BY <1>r, <3>1, <3>3
    <3> QED
      BY <1>3, <3>2, <3>3 DEF WaitForToken
  <2>u. UNCHANGED <<name, value, semLock, globalid, lock, lockListPid, hung>>
    BY <1>3 DEF WaitForToken
  <2>5. TypeOK'
    BY <1>t, <2>2, <2>3, <2>4, <2>u DEF TypeOK
  <2>6. ASSUME NEW j \in Id PROVE SemOK(j)'
    <3>1. SemOK(j) /\ SemOK(id)
      BY SemInvParts
    <3>2. CASE j # id
      BY <2>2, <2>3, <2>u, <3>1, <3>2 DEF SemOK, Exists
    <3>3. CASE j = id
      <4>1. Waiting(id)' \subseteq ToSet(blockedProcessList'[id])
        BY <1>3, <2>1, <2>2, <2>3, <3>1 DEF SemOK
      <4>2. ~(id >= globalid) /\ value[id] = 0
        BY <2>1, <3>1 DEF SemOK
      <4> QED
        BY <2>u, <3>3, <4>1, <4>2 DEF SemOK, Exists
    <3> QED
      BY <3>2, <3>3
  <2> QED
    BY <2>5, <2>6, SemInvNext
<1>4. CASE semLock[id] = 0 /\ ~HasToken(id) /\ WaitOutOfMemory(id)
           /\ UNCHANGED <<globalid, lock, lockListPid, hung>>
  <2>1. value[id] = 0 /\ Exists(id)
    BY <1>r, <1>4 DEF HasToken, WaitSem
  <2>2. /\ blockedProcessList' \in [Id -> Seq(Process)]
        /\ \A j \in Id \ {id} : blockedProcessList'[j] = blockedProcessList[j]
        /\ semLock' \in [Id -> {0, 1}] /\ semLock'[id] = 1
        /\ \A j \in Id \ {id} : semLock'[j] = semLock[j]
    <3>1. blockedProcessList \in [Id -> Seq(Process)] /\ semLock \in [Id -> {0, 1}]
      BY <1>t DEF TypeOK
    <3>2. <<>> \in Seq(Process)
      OBVIOUS
    <3>3. /\ blockedProcessList' \in [Id -> Seq(Process)]
          /\ \A j \in Id \ {id} : blockedProcessList'[j] = blockedProcessList[j]
      BY <1>4, <3>1, <3>2 DEF WaitOutOfMemory
    <3>4. semLock' = [semLock EXCEPT ![id] = 1]
      BY <1>4 DEF WaitOutOfMemory
    <3> QED
      BY <3>1, <3>3, <3>4
  <2>u. UNCHANGED <<processVars, name, value, waitingIn, holds, globalid, lock,
                    lockListPid, hung>>
    BY <1>4 DEF WaitOutOfMemory
  <2>3. \A j \in Id : Waiting(j)' = Waiting(j)
    BY <2>u DEF processVars, Waiting, BlockedFor, IsBlockedFor
  <2>4. TypeOK'
    BY <1>t, <2>2, <2>u DEF TypeOK, ProcessTypeOK, processVars
  <2>5. ASSUME NEW j \in Id PROVE SemOK(j)'
    <3>1. SemOK(j) /\ SemOK(id)
      BY SemInvParts
    <3>2. CASE j # id
      BY <2>2, <2>3, <2>u, <3>1, <3>2 DEF SemOK, Exists
    <3>3. CASE j = id
      <4>1. ~(id >= globalid)
        BY <2>1, <3>1 DEF SemOK
      <4> QED
        BY <2>1, <2>2, <2>u, <3>3, <4>1 DEF SemOK
    <3> QED
      BY <3>2, <3>3
  <2> QED
    BY <2>4, <2>5, SemInvNext
<1> QED
  BY <1>1, <1>2, <1>3, <1>4 DEF WaitSem

\* postSem.
LEMMA PostStep ==
    ASSUME SemInv, NEW id \in Id, PostSem(id)
    PROVE  SemInv'
<1>t. TypeOK
  BY DEF SemInv
<1>r. nowRunning \in Process /\ value[id] \in Nat
  BY <1>t DEF TypeOK, ProcessTypeOK
<1>1. CASE Spin
  BY <1>1, TurnStep
<1>2. CASE /\ semLock[id] = 0 /\ SomebodyWaits(id) /\ WakeOldest(id)
           /\ holds' = [holds EXCEPT ![nowRunning] = @ \ {id}]
           /\ UNCHANGED <<name, semLock, globalid, lock, waitingIn, hung>>
  <2>1. PICK list \in Seq(Process) : list = blockedProcessList[id] /\ list # <<>>
    BY <1>t, <1>2 DEF TypeOK, SomebodyWaits
  <2>2. /\ Front(list) \in Seq(Process) /\ Last(list) \in Process
        /\ \A p \in ToSet(list) : p # Last(list) => p \in ToSet(Front(list))
    BY <2>1, FrontEffect
  <2>3. /\ blockedProcessList' \in [Id -> Seq(Process)]
        /\ blockedProcessList'[id] = Front(list)
        /\ \A j \in Id \ {id} : blockedProcessList'[j] = blockedProcessList[j]
    BY <1>t, <1>2, <2>1, <2>2 DEF WakeOldest, TypeOK
  <2>4. /\ ProcessTypeOK'
        /\ Waiting(id)' \subseteq Waiting(id) \ {Last(list)}
        /\ \A j \in Id : Waiting(j)' \subseteq Waiting(j)
    <3>1. CASE IsBlockedFor(Last(list), Reason(id))
      <4>1. Unblock(Last(list), id)
        BY <1>2, <2>1 DEF WakeOldest
      <4>2. Change({Last(list)}, {}) /\ nowRunning' = nowRunning
        BY <3>1, <4>1 DEF Unblock, Wake
      <4> QED
        <5>1. {Last(list)} \in SUBSET Process /\ nowRunning' \in Process
          BY <1>r, <2>2, <4>2
        <5>2. /\ ProcessTypeOK'
              /\ \A j \in Id : Waiting(j)' = Waiting(j) \ ({Last(list)} \cup {})
          BY <1>t, <4>2, <5>1, ChangeTypes
        <5> QED
          BY <5>2
    <3>2. CASE ~IsBlockedFor(Last(list), Reason(id))
      <4>1. UNCHANGED processVars
        BY <1>2, <2>1, <3>2 DEF WakeOldest, Unblock
      <4> QED
        BY <1>t, <3>2, <4>1 DEF processVars, TypeOK, ProcessTypeOK, Waiting, BlockedFor,
                                IsBlockedFor
    <3> QED
      BY <3>1, <3>2
  <2>u. UNCHANGED <<value, lockListPid, name, semLock, globalid, lock, waitingIn, hung>>
    BY <1>2 DEF WakeOldest
  <2>5. TypeOK'
    BY <1>t, <1>r, <1>2, <2>3, <2>4, <2>u DEF TypeOK
  <2>6. ASSUME NEW j \in Id PROVE SemOK(j)'
    <3>1. SemOK(j) /\ SemOK(id)
      BY SemInvParts
    <3>2. CASE j # id
      BY <2>3, <2>4, <2>u, <3>1, <3>2 DEF SemOK, Exists
    <3>3. CASE j = id
      <4>1. Exists(id) /\ value[id] = 0 /\ ~(id >= globalid)
        BY <1>2, <3>1 DEF SemOK, PostSem, SomebodyWaits
      <4>2. Waiting(id)' \subseteq ToSet(blockedProcessList'[id])
        BY <1>2, <2>1, <2>2, <2>3, <2>4, <3>1, <4>1 DEF SemOK
      <4> QED
        BY <2>u, <3>3, <4>1, <4>2 DEF SemOK
    <3> QED
      BY <3>2, <3>3
  <2> QED
    BY <2>5, <2>6, SemInvNext
<1>3. CASE /\ semLock[id] = 0 /\ ~SomebodyWaits(id)
           /\ value' = [value EXCEPT ![id] = @ + 1]
           /\ UNCHANGED <<processVars, blockedProcessList, lockListPid>>
           /\ holds' = [holds EXCEPT ![nowRunning] = @ \ {id}]
           /\ UNCHANGED <<name, semLock, globalid, lock, waitingIn, hung>>
  <2>1. value' \in [Id -> Nat] /\ \A j \in Id \ {id} : value'[j] = value[j]
    BY <1>t, <1>3 DEF TypeOK
  <2>2. holds' \in [Process -> SUBSET Id]
    BY <1>t, <1>r, <1>3 DEF TypeOK
  <2>3. TypeOK'
    BY <1>t, <1>3, <2>1, <2>2 DEF TypeOK, ProcessTypeOK, processVars
  <2>4. \A j \in Id : Waiting(j)' = Waiting(j)
    BY <1>3 DEF processVars, Waiting, BlockedFor, IsBlockedFor
  <2>5. ASSUME NEW j \in Id PROVE SemOK(j)'
    <3>1. SemOK(j) /\ SemOK(id)
      BY SemInvParts
    <3>2. CASE j # id
      BY <1>3, <2>1, <2>4, <3>1, <3>2 DEF SemOK, Exists
    <3>3. CASE j = id
      <4>1. blockedProcessList[id] = <<>> /\ Exists(id)
        BY <1>r, <1>3, <3>1 DEF SomebodyWaits, SemOK, PostSem
      <4>2. Waiting(id) \subseteq ToSet(blockedProcessList[id]) /\ ~(id >= globalid)
        BY <1>3, <3>1, <4>1 DEF SemOK
      <4> QED
        BY <1>3, <2>4, <3>3, <4>1, <4>2 DEF SemOK
    <3> QED
      BY <3>2, <3>3
  <2> QED
    BY <2>3, <2>5, SemInvNext
<1> QED
  BY <1>1, <1>2, <1>3 DEF PostSem

\* closeSem.
LEMMA CloseStep ==
    ASSUME SemInv, NEW id \in Id, CloseSem(id)
    PROVE  SemInv'
<1>t. TypeOK
  BY DEF SemInv
<1>e. <<>> \in Seq(Process)
  OBVIOUS
<1>1. /\ name' \in [Id -> Name \cup {NoName}] /\ name'[id] = NoName
      /\ \A j \in Id \ {id} : name'[j] = name[j]
      /\ blockedProcessList' \in [Id -> Seq(Process)]
      /\ blockedProcessList'[id] = <<>>
      /\ \A j \in Id \ {id} : blockedProcessList'[j] = blockedProcessList[j]
  BY <1>t, <1>e DEF CloseSem, TypeOK
<1>u. /\ UNCHANGED <<processVars, value, semLock, globalid, lock, lockListPid,
                     waitingIn, holds>>
      /\ hung' \in BOOLEAN
  BY DEF CloseSem
<1>2. \A j \in Id : Waiting(j)' = Waiting(j)
  BY <1>u DEF processVars, Waiting, BlockedFor, IsBlockedFor
<1>3. TypeOK'
  BY <1>t, <1>1, <1>u DEF TypeOK, ProcessTypeOK, processVars
<1>4. ASSUME NEW j \in Id PROVE SemOK(j)'
  <2>1. SemOK(j)
    BY SemInvParts
  <2>2. CASE j = id
    BY <1>1, <1>2, <1>u, <2>1, <2>2 DEF SemOK, Exists
  <2>3. CASE j # id
    BY <1>1, <1>2, <1>u, <2>1, <2>3 DEF SemOK, Exists
  <2> QED
    BY <2>2, <2>3
<1> QED
  BY <1>3, <1>4, SemInvNext

\* The invariant of the semaphores, whatever dies, is closed or fails.
THEOREM SemaphoresExact == Spec => []SemInv
<1>1. Init => SemInv
  <2> SUFFICES ASSUME Init PROVE SemInv
    OBVIOUS
  <2>1. TypeOK
    <3>1. <<>> \in Seq(Process)
      OBVIOUS
    <3>2. 1 \in 1 .. MaxSemId + 1
      BY SemAssumption
    <3> QED
      BY <3>1, <3>2, ProcessAssumption, SemAssumption DEF Init, TypeOK, ProcessTypeOK
  <2>2. \A id \in Id : Waiting(id) = {}
    BY DEF Init, Waiting, BlockedFor, IsBlockedFor
  <2> QED
    BY <2>1, <2>2 DEF Init, SemInv, Exists
<1>2. SemInv /\ [Next]_semaphoreVars => SemInv'
  <2> SUFFICES ASSUME SemInv, [Next]_semaphoreVars PROVE SemInv'
    OBVIOUS
  <2>1. CASE UNCHANGED semaphoreVars
    <3>1. TypeOK' /\ UNCHANGED semVars /\ UNCHANGED processVars
      BY <2>1 DEF semaphoreVars, semVars, processVars, SemInv, TypeOK, ProcessTypeOK
    <3>2. \A id \in Id : Waiting(id)' = Waiting(id)
      BY <3>1 DEF processVars, Waiting, BlockedFor, IsBlockedFor
    <3> QED
      BY <3>1, <3>2, QuietStep
  <2>2. CASE \E n \in Name : InitializeSemaphore(n)
    BY <2>2, InitializeStep
  <2>3. CASE \E id \in Id : WaitSem(id) \/ PostSem(id) \/ CloseSem(id)
    BY <2>3, WaitStep, PostStep, CloseStep
  <2>4. CASE ResumeWait \/ \E p \in Process : Tick(p)
    BY <2>4, TurnStep
  <2>5. CASE Exit \/ (\E p \in Process : KillProcess(p)) \/ Escape
    BY <2>5, EndStep
  <2> QED
    BY <2>1, <2>2, <2>3, <2>4, <2>5 DEF Next
<1> QED
  BY <1>1, <1>2, PTL DEF Spec

\* No process ever sleeps beside a free token.
THEOREM NobodySleepsBesideAToken == Spec => []NoIdleToken
<1>1. SemInv => NoIdleToken
  <2> SUFFICES ASSUME SemInv, NEW id \in Id, Exists(id), value[id] > 0
               PROVE  blockedProcessList[id] = <<>> /\ Waiting(id) = {}
    BY DEF NoIdleToken
  <2>1. blockedProcessList[id] = <<>> /\ semLock[id] = 0
    BY DEF SemInv
  <2>2. Waiting(id) \subseteq ToSet(blockedProcessList[id])
    BY <2>1 DEF SemInv
  <2>3. ToSet(<<>>) = {}
    BY DEF ToSet
  <2> QED
    BY <2>1, <2>2, <2>3
<1> QED
  BY <1>1, SemaphoresExact, PTL

-----------------------------------------------------------------------------
\* Nobody posts what it does not hold: neither on purpose, nor because the ESC key
\* killed it inside waitSem, which then returns without a token.
PostsWhatItHolds == ~Asks("freePost") /\ ~Asks("zombieWait")

\* No allocation fails.
MemoryLasts == ~Asks("outOfMemory")

-----------------------------------------------------------------------------
(* The locks, when no allocation fails.                                    *)

\* Between two calls every lock is free.
LocksFree ==
    /\ lock = 0 /\ lockListPid = 0 /\ ~hung
    /\ \A id \in Id : semLock[id] = 0

\* Every step of a call that gets all its memory releases what it acquires.
LEMMA LocksFreeStep ==
    ASSUME MemoryLasts, TypeOK, LocksFree, [Next]_semaphoreVars
    PROVE  LocksFree'
<1>1. CASE UNCHANGED semaphoreVars
  BY <1>1 DEF LocksFree, semaphoreVars, semVars
<1>2. CASE \E n \in Name : InitializeSemaphore(n)
  BY <1>2 DEF LocksFree, InitializeSemaphore, Create, CreateOutOfMemory, MemoryLasts
<1>3. ASSUME NEW id \in Id, WaitSem(id) PROVE LocksFree'
  BY <1>3 DEF LocksFree, WaitSem, TakeToken, WaitForToken, WaitOutOfMemory, MemoryLasts
<1>4. ASSUME NEW id \in Id, PostSem(id) PROVE LocksFree'
  <2>1. CASE (semLock[id] = 1 \/ (value[id] = 0 /\ lockListPid = 1)) /\ Spin
    BY <2>1 DEF LocksFree
  <2>2. CASE /\ SomebodyWaits(id) /\ WakeOldest(id)
             /\ holds' = [holds EXCEPT ![nowRunning] = @ \ {id}]
             /\ UNCHANGED <<name, semLock, globalid, lock, waitingIn, hung>>
    BY <2>2 DEF LocksFree, WakeOldest
  <2>3. CASE /\ ~SomebodyWaits(id)
             /\ value' = [value EXCEPT ![id] = @ + 1]
             /\ UNCHANGED <<processVars, blockedProcessList, lockListPid>>
             /\ holds' = [holds EXCEPT ![nowRunning] = @ \ {id}]
             /\ UNCHANGED <<name, semLock, globalid, lock, waitingIn, hung>>
    BY <2>3 DEF LocksFree
  <2> QED
    BY <1>4, <2>1, <2>2, <2>3 DEF PostSem
<1>5. ASSUME NEW id \in Id, CloseSem(id) PROVE LocksFree'
  <2>1. lock' = lock /\ lockListPid' = lockListPid /\ semLock' = semLock
    BY <1>5 DEF CloseSem
  <2>2. hung' = (lock = 1) /\ lock # 1
    BY <1>5 DEF CloseSem, LocksFree
  <2>3. ~hung'
    BY <2>2, Zenon
  <2> QED
    BY <2>1, <2>3 DEF LocksFree
<1>6. CASE \/ ResumeWait \/ Exit \/ Escape
           \/ \E p \in Process : KillProcess(p) \/ Tick(p)
  <2>1. UNCHANGED semVars /\ UNCHANGED hung
    BY <1>6 DEF ResumeWait, Exit, Escape, KillProcess, Tick
  <2> QED
    BY <2>1 DEF LocksFree, semVars
<1> QED
  BY <1>1, <1>2, <1>3, <1>4, <1>5, <1>6 DEF Next

-----------------------------------------------------------------------------
(* Tokens are not made up.                                                 *)

Tokens(id) == value[id] + Cardinality(Granted(id)) + Cardinality(Holders(id))

\* A process asleep in waitSem sleeps for the semaphore it waits in; nobody waits in
\* or holds a semaphore that does not exist yet.
WaiterOK(p) ==
    /\ state[p] = "BLOCKED" /\ waitingIn[p] # NULL =>
          blockedReason[p] = Reason(waitingIn[p])
    /\ waitingIn[p] < globalid
    /\ \A id \in holds[p] : id < globalid

\* Whoever has the CPU in the middle of waitSem is awake, thus was granted its token.
RunnerOK == waitingIn[nowRunning] # NULL => state[nowRunning] = "READY"

TokensInv ==
    /\ SemInv
    /\ RunnerOK
    /\ \A p \in Process : WaiterOK(p)
    /\ \A id \in Id : Tokens(id) <= InitialValue

\* Adding an element to a set of processes, or taking it out, counts for one.
LEMMA CountProperties ==
    ASSUME NEW A \in SUBSET Process
    PROVE  /\ Cardinality(A) \in Nat
           /\ A = {} => Cardinality(A) = 0
           /\ \A B \in SUBSET A : Cardinality(B) <= Cardinality(A)
           /\ \A p : p \notin A => Cardinality(A \cup {p}) = Cardinality(A) + 1
           /\ \A p : p \in A => Cardinality(A \ {p}) = Cardinality(A) - 1
<1>1. IsFiniteSet(A)
  BY ProcessAssumption, FS_Subset
<1>2. Cardinality(A) \in Nat /\ (A = {} => Cardinality(A) = 0)
  BY <1>1, FS_CardinalityType, FS_EmptySet
<1>3. ASSUME NEW p, p \notin A PROVE Cardinality(A \cup {p}) = Cardinality(A) + 1
  BY <1>1, <1>3, FS_AddElement
<1>4. ASSUME NEW p, p \in A PROVE Cardinality(A \ {p}) = Cardinality(A) - 1
  BY <1>1, <1>4, FS_RemoveElement
<1>5. ASSUME NEW B \in SUBSET A PROVE Cardinality(B) <= Cardinality(A)
  BY <1>1, FS_Subset
<1> QED
  BY <1>2, <1>3, <1>4, <1>5

\* The granted and the holders of a semaphore are processes, before and after a step.
LEMMA CountedAreProcesses ==
    ASSUME NEW id \in Id
    PROVE  /\ Granted(id) \in SUBSET Process /\ Granted(id)' \in SUBSET Process
           /\ Holders(id) \in SUBSET Process /\ Holders(id)' \in SUBSET Process
BY DEF Granted, Holders

\* A semaphore whose value stays and of which nobody new gets a token.
LEMMA NoNewToken ==
    ASSUME TypeOK, NEW id \in Id, Tokens(id) <= InitialValue, value'[id] = value[id],
           Granted(id)' \subseteq Granted(id), Holders(id)' \subseteq Holders(id)
    PROVE  Tokens(id)' <= InitialValue
<1>1. /\ Cardinality(Granted(id)) \in Nat /\ Cardinality(Holders(id)) \in Nat
      /\ Cardinality(Granted(id)') \in Nat /\ Cardinality(Holders(id)') \in Nat
      /\ Cardinality(Granted(id)') <= Cardinality(Granted(id))
      /\ Cardinality(Holders(id)') <= Cardinality(Holders(id))
  BY CountedAreProcesses, CountProperties
<1>2. value[id] \in Nat /\ InitialValue \in Nat
  BY SemAssumption DEF TypeOK
<1> QED
  BY <1>1, <1>2 DEF Tokens

\* A step that changes nothing that is counted and, if at all, dispatches.
LEMMA StillStep ==
    ASSUME TokensInv, SemInv',
           UNCHANGED <<state, blockedReason, value, globalid, waitingIn, holds>>,
           nowRunning' = nowRunning \/ state[nowRunning'] = "READY"
    PROVE  TokensInv'
<1>1. RunnerOK' /\ \A p \in Process : WaiterOK(p)'
  BY DEF TokensInv, RunnerOK, WaiterOK
<1>2. ASSUME NEW id \in Id PROVE Tokens(id)' <= InitialValue
  <2>1. Granted(id)' = Granted(id) /\ Holders(id)' = Holders(id)
    BY DEF Granted, Holders
  <2> QED
    BY <2>1, NoNewToken DEF TokensInv, SemInv
<1> QED
  BY <1>1, <1>2 DEF TokensInv

\* initializeSemaphore: the new semaphore has all its tokens, and no users.
LEMMA NewSemaphoreStep ==
    ASSUME TokensInv, SemInv', NEW n \in Name, InitializeSemaphore(n), ~Spin
    PROVE  TokensInv'
<1>t. TypeOK /\ globalid \in Id
  BY DEF TokensInv, SemInv, InitializeSemaphore, TypeOK, Id
<1>1. /\ UNCHANGED <<processVars, waitingIn, holds>>
      /\ globalid' = globalid + 1
      /\ value' = [value EXCEPT ![globalid] = InitialValue] \/ value' = value
  BY DEF InitializeSemaphore, Create, CreateOutOfMemory
<1>2. RunnerOK'
  BY <1>1 DEF TokensInv, RunnerOK, processVars
<1>3. ASSUME NEW p \in Process PROVE WaiterOK(p)'
  <2>1. WaiterOK(p) /\ waitingIn[p] \in Id \cup {0} /\ holds[p] \in SUBSET Id
    BY <1>t DEF TokensInv, TypeOK, NULL
  <2> QED
    BY <1>1, <1>t, <2>1, SemAssumption DEF WaiterOK, processVars, Id
<1>4. ASSUME NEW id \in Id PROVE Tokens(id)' <= InitialValue
  <2>1. Granted(id)' = Granted(id) /\ Holders(id)' = Holders(id)
    BY <1>1 DEF Granted, Holders, processVars
  <2>2. CASE value'[id] = value[id]
    BY <1>t, <2>1, <2>2, NoNewToken DEF TokensInv
  <2>3. CASE value'[id] # value[id]
    <3>1. id = globalid /\ value'[id] = InitialValue
      BY <1>1, <1>t, <2>3 DEF TypeOK
    <3>2. \A p \in Process : waitingIn[p] # id /\ id \notin holds[p]
      BY <1>t, <3>1, SemAssumption DEF TokensInv, WaiterOK, Id
    <3>3. Granted(id) = {} /\ Holders(id) = {}
      BY <3>2 DEF Granted, Holders
    <3>4. Cardinality(Granted(id)') = 0 /\ Cardinality(Holders(id)') = 0
      BY <2>1, <3>3, CountedAreProcesses, CountProperties
    <3> QED
      BY <3>1, <3>4, SemAssumption DEF Tokens
  <2> QED
    BY <2>2, <2>3
<1> QED
  BY <1>2, <1>3, <1>4 DEF TokensInv

\* An exit, a kill or the ESC key: the tokens of the dead are lost, none is new.
LEMMA DeathStep ==
    ASSUME TokensInv, SemInv', Exit \/ (\E p \in Process : KillProcess(p)) \/ Escape
    PROVE  TokensInv'
<1>t. TypeOK
  BY DEF TokensInv, SemInv
<1>1. PICK K \in SUBSET Process :
        /\ Change({}, K)
        /\ Dispatch(state') \/ (nowRunning' = nowRunning /\ K = Foreground /\ InterruptsEnabled)
  BY <1>t, ProcessAssumption
     DEF Exit, KillProcess, Escape, TypeOK, ProcessTypeOK
<1>2. UNCHANGED <<value, globalid, waitingIn, holds>>
  BY DEF Exit, KillProcess, Escape, semVars
<1>3. \A p \in Process : /\ p \in K => state'[p] = "FINISHED"
                         /\ p \notin K => state'[p] = state[p]
                                          /\ blockedReason'[p] = blockedReason[p]
  BY <1>1 DEF Change
<1>4. RunnerOK'
  <2>1. CASE Dispatch(state')
    BY <2>1 DEF RunnerOK, Dispatch
  <2>2. CASE nowRunning' = nowRunning /\ K = Foreground /\ InterruptsEnabled
    <3>1. waitingIn[nowRunning] # NULL => nowRunning = InitPid
      BY <2>2 DEF InterruptsEnabled
    <3>2. InitPid \in Process \ K
      BY <2>2, ProcessAssumption
    <3> QED
      BY <1>2, <1>3, <2>2, <3>1, <3>2 DEF TokensInv, RunnerOK
  <2> QED
    BY <1>1, <2>1, <2>2
<1>5. \A p \in Process : WaiterOK(p)'
  BY <1>2, <1>3 DEF TokensInv, WaiterOK
<1>6. ASSUME NEW id \in Id PROVE Tokens(id)' <= InitialValue
  <2>1. Granted(id)' \subseteq Granted(id) /\ Holders(id)' = Holders(id)
    BY <1>2, <1>3 DEF Granted, Holders
  <2> QED
    BY <1>t, <1>2, <2>1, NoNewToken DEF TokensInv
<1> QED
  BY <1>4, <1>5, <1>6 DEF TokensInv

\* waitSem that finds a token: it passes from the value to its holder.
LEMMA TakeStep ==
    ASSUME TokensInv, SemInv', NEW id \in Id, Exists(id), HasToken(id), TakeToken(id),
           id \notin holds[nowRunning], UNCHANGED globalid
    PROVE  TokensInv'
<1>t. TypeOK /\ nowRunning \in Process /\ value[id] \in Nat
  BY DEF TokensInv, SemInv, TypeOK, ProcessTypeOK
<1>1. /\ UNCHANGED <<state, blockedReason, nowRunning, waitingIn>>
      /\ value' = [value EXCEPT ![id] = @ - 1]
      /\ holds' = [holds EXCEPT ![nowRunning] = @ \cup {id}]
  BY DEF TakeToken, processVars
<1>2. RunnerOK'
  BY <1>1 DEF TokensInv, RunnerOK
<1>3. id < globalid
  BY <1>t DEF TokensInv, SemInv, Exists, TypeOK, Id
<1>4. ASSUME NEW p \in Process PROVE WaiterOK(p)'
  <2>1. WaiterOK(p) /\ holds'[p] \subseteq holds[p] \cup {id}
    BY <1>t, <1>1 DEF TokensInv, TypeOK
  <2> QED
    BY <1>1, <1>3, <2>1 DEF WaiterOK
<1>5. ASSUME NEW j \in Id PROVE Tokens(j)' <= InitialValue
  <2>1. Granted(j)' = Granted(j)
    BY <1>1 DEF Granted
  <2>2. CASE j = id
    <3>1. nowRunning \notin Holders(id) /\ Holders(id)' = Holders(id) \cup {nowRunning}
      BY <1>t, <1>1 DEF Holders, TypeOK
    <3>2. /\ Cardinality(Holders(id)') = Cardinality(Holders(id)) + 1
          /\ Cardinality(Holders(id)) \in Nat /\ Cardinality(Granted(id)) \in Nat
      BY <3>1, CountedAreProcesses, CountProperties
    <3>3. value'[id] = value[id] - 1 /\ InitialValue \in Nat
      BY <1>t, <1>1, SemAssumption DEF TypeOK
    <3> QED
      BY <1>t, <2>1, <2>2, <3>2, <3>3 DEF TokensInv, Tokens
  <2>3. CASE j # id
    <3>1. Holders(j)' = Holders(j) /\ value'[j] = value[j]
      BY <1>t, <1>1, <2>3 DEF Holders, TypeOK
    <3> QED
      BY <1>t, <2>1, <3>1, NoNewToken DEF TokensInv
  <2> QED
    BY <2>2, <2>3
<1> QED
  BY <1>2, <1>4, <1>5 DEF TokensInv

\* waitSem that blocks: nobody gets a token.
LEMMA SleepStep ==
    ASSUME TokensInv, SemInv', NEW id \in Id, Exists(id), InUserCode,
           MayBlock, BlockRunning(Reason(id)),
           waitingIn' = [waitingIn EXCEPT ![nowRunning] = id],
           UNCHANGED <<value, globalid, holds>>
    PROVE  TokensInv'
<1>t. TypeOK /\ nowRunning \in Process
  BY DEF TokensInv, SemInv, TypeOK, ProcessTypeOK
<1>1. /\ \A p \in Process \ {nowRunning} :
            state'[p] = state[p] /\ blockedReason'[p] = blockedReason[p]
            /\ waitingIn'[p] = waitingIn[p]
      /\ state'[nowRunning] = "BLOCKED" /\ blockedReason'[nowRunning] = Reason(id)
      /\ waitingIn'[nowRunning] = id
      /\ Dispatch(state')
  BY <1>t DEF BlockRunning, TypeOK, ProcessTypeOK
<1>2. RunnerOK'
  BY <1>1 DEF RunnerOK, Dispatch
<1>3. id < globalid
  BY <1>t DEF TokensInv, SemInv, Exists, TypeOK, Id
<1>4. ASSUME NEW p \in Process PROVE WaiterOK(p)'
  BY <1>1, <1>3 DEF TokensInv, WaiterOK
<1>5. ASSUME NEW j \in Id PROVE Tokens(j)' <= InitialValue
  <2>1. Granted(j)' \subseteq Granted(j) /\ Holders(j)' = Holders(j)
    BY <1>1 DEF Granted, Holders
  <2> QED
    BY <1>t, <2>1, NoNewToken DEF TokensInv
<1> QED
  BY <1>2, <1>4, <1>5 DEF TokensInv

\* waitSem that returns: the granted token is now held.
LEMMA ResumeStep ==
    ASSUME TokensInv, SemInv', ResumeWait
    PROVE  TokensInv'
<1>t. TypeOK /\ nowRunning \in Process
  BY DEF TokensInv, SemInv, TypeOK, ProcessTypeOK
<1>i. PICK id \in Id : /\ id = waitingIn[nowRunning] /\ id < globalid
                       /\ nowRunning \in Granted(id)
  BY <1>t DEF ResumeWait, TokensInv, RunnerOK, WaiterOK, TypeOK, Granted
<1>1. /\ UNCHANGED <<state, blockedReason, nowRunning, value, globalid>>
      /\ holds' = [holds EXCEPT ![nowRunning] = @ \cup {id}]
      /\ waitingIn' = [waitingIn EXCEPT ![nowRunning] = NULL]
  BY <1>i DEF ResumeWait, processVars, semVars
<1>2. RunnerOK'
  BY <1>t, <1>1 DEF RunnerOK, TypeOK
<1>3. ASSUME NEW p \in Process PROVE WaiterOK(p)'
  <2>1. /\ WaiterOK(p) /\ holds'[p] \subseteq holds[p] \cup {id}
        /\ waitingIn'[p] = waitingIn[p] \/ waitingIn'[p] = 0
    BY <1>t, <1>1 DEF TokensInv, TypeOK, NULL
  <2>2. 0 < globalid
    BY <1>t, SemAssumption DEF TypeOK
  <2> QED
    BY <1>i, <1>1, <2>1, <2>2 DEF WaiterOK, NULL
<1>4. ASSUME NEW j \in Id PROVE Tokens(j)' <= InitialValue
  <2>1. CASE j = id
    <3>1. Granted(id)' = Granted(id) \ {nowRunning}
          /\ Holders(id)' = Holders(id) \cup {nowRunning}
      BY <1>t, <1>i, <1>1 DEF Granted, Holders, TypeOK, NULL, Id
    <3>2. /\ Cardinality(Granted(id)') = Cardinality(Granted(id)) - 1
          /\ Cardinality(Granted(id)) \in Nat
      BY <1>i, <3>1, CountedAreProcesses, CountProperties
    <3>3. /\ Cardinality(Holders(id)') <= Cardinality(Holders(id)) + 1
          /\ Cardinality(Holders(id)) \in Nat /\ Cardinality(Holders(id)') \in Nat
      <4>1. Holders(id) \in SUBSET Process
        BY <1>i, CountedAreProcesses
      <4>2. CASE nowRunning \in Holders(id)
        BY <3>1, <4>1, <4>2, CountProperties
      <4>3. CASE nowRunning \notin Holders(id)
        BY <3>1, <4>1, <4>3, CountProperties
      <4> QED
        BY <4>2, <4>3
    <3>4. value'[id] = value[id] /\ value[id] \in Nat /\ InitialValue \in Nat
      BY <1>t, <1>i, <1>1, SemAssumption DEF TypeOK
    <3>5. Tokens(id) <= InitialValue
      BY <1>i DEF TokensInv
    <3> QED
      BY <2>1, <3>2, <3>3, <3>4, <3>5 DEF Tokens
  <2>2. CASE j # id
    <3>1. Granted(j)' \subseteq Granted(j) /\ Holders(j)' = Holders(j)
      BY <1>t, <1>i, <1>1, <2>2 DEF Granted, Holders, TypeOK, NULL, Id
    <3> QED
      BY <1>t, <1>1, <3>1, NoNewToken DEF TokensInv
  <2> QED
    BY <2>1, <2>2
<1> QED
  BY <1>2, <1>3, <1>4 DEF TokensInv

\* postSem that wakes: the poster's token goes to the process it wakes, if it wakes one.
LEMMA HandOverStep ==
    ASSUME TokensInv, SemInv', NEW id \in Id, InUserCode, id \in holds[nowRunning],
           NEW p \in Process, Unblock(p, id),
           holds' = [holds EXCEPT ![nowRunning] = @ \ {id}],
           UNCHANGED <<value, globalid, waitingIn>>
    PROVE  TokensInv'
<1>t. TypeOK /\ nowRunning \in Process
  BY DEF TokensInv, SemInv, TypeOK, ProcessTypeOK
<1>1. /\ nowRunning' = nowRunning
      /\ \A q \in Process \ {p} :
            state'[q] = state[q] /\ blockedReason'[q] = blockedReason[q]
      /\ \/ state'[p] = state[p] /\ blockedReason'[p] = blockedReason[p]
         \/ state'[p] = "READY" /\ IsBlockedFor(p, Reason(id))
  <2>1. CASE IsBlockedFor(p, Reason(id))
    <3>1. Change({p}, {}) /\ nowRunning' = nowRunning
      BY <2>1 DEF Unblock, Wake
    <3>2. /\ \A q \in Process : q \in {p} \ {} => state'[q] = "READY"
          /\ \A q \in Process : q \notin {p} \cup {} =>
                state'[q] = state[q] /\ blockedReason'[q] = blockedReason[q]
      BY <3>1 DEF Change
    <3> QED
      BY <2>1, <3>1, <3>2
  <2>2. CASE ~IsBlockedFor(p, Reason(id))
    BY <2>2 DEF Unblock, processVars
  <2> QED
    BY <2>1, <2>2
<1>2. RunnerOK'
  BY <1>1 DEF InUserCode, RunnerOK
<1>3. ASSUME NEW q \in Process PROVE WaiterOK(q)'
  <2>1. WaiterOK(q) /\ holds'[q] \subseteq holds[q]
    BY <1>t DEF TokensInv, TypeOK
  <2>2. state'[q] = "BLOCKED" => state[q] = "BLOCKED" /\ blockedReason'[q] = blockedReason[q]
    BY <1>1
  <2> QED
    BY <2>1, <2>2 DEF WaiterOK
<1>4. ASSUME NEW j \in Id PROVE Tokens(j)' <= InitialValue
  <2>1. CASE j = id
    <3>1. Granted(id)' \subseteq Granted(id) \cup {p}
          /\ Holders(id)' = Holders(id) \ {nowRunning} /\ nowRunning \in Holders(id)
      BY <1>t, <1>1 DEF Granted, Holders, TypeOK
    <3>2. /\ Cardinality(Granted(id)') <= Cardinality(Granted(id)) + 1
          /\ Cardinality(Granted(id)) \in Nat /\ Cardinality(Granted(id)') \in Nat
      <4>1. /\ Granted(id) \in SUBSET Process /\ Granted(id) \cup {p} \in SUBSET Process
            /\ Granted(id)' \in SUBSET Process /\ Granted(id)' \in SUBSET (Granted(id) \cup {p})
        BY <3>1, CountedAreProcesses
      <4>2. /\ Cardinality(Granted(id)') <= Cardinality(Granted(id) \cup {p})
            /\ Cardinality(Granted(id)) \in Nat /\ Cardinality(Granted(id)') \in Nat
        BY <4>1, CountProperties
      <4>3. CASE p \in Granted(id)
        <5>1. Granted(id)' \in SUBSET Granted(id)
          BY <4>1, <4>3
        <5>2. Cardinality(Granted(id)') <= Cardinality(Granted(id))
          BY <4>1, <5>1, CountProperties
        <5> QED
          BY <4>2, <5>2
      <4>4. CASE p \notin Granted(id)
        BY <4>1, <4>2, <4>4, CountProperties
      <4> QED
        BY <4>3, <4>4
    <3>3. /\ Cardinality(Holders(id)') = Cardinality(Holders(id)) - 1
          /\ Cardinality(Holders(id)) \in Nat
      BY <3>1, CountedAreProcesses, CountProperties
    <3>4. value[id] \in Nat /\ InitialValue \in Nat /\ Tokens(id) <= InitialValue
      BY <1>t, SemAssumption DEF TypeOK, TokensInv
    <3> QED
      BY <2>1, <3>2, <3>3, <3>4 DEF Tokens
  <2>2. CASE j # id
    <3>1. Holders(j)' = Holders(j)
      BY <1>t, <2>2 DEF Holders, TypeOK
    <3>2. state'[p] = "READY" /\ waitingIn[p] = j => state[p] = "READY"
      <4>1. CASE IsBlockedFor(p, Reason(id))
        <5>1. WaiterOK(p) /\ j # NULL
          BY DEF TokensInv, Id, NULL
        <5> QED
          BY <2>2, <4>1, <5>1, ReasonsDiffer DEF IsBlockedFor, WaiterOK
      <4>2. CASE ~IsBlockedFor(p, Reason(id))
        BY <1>1, <4>2
      <4> QED
        BY <4>1, <4>2
    <3>3. Granted(j)' \subseteq Granted(j)
      BY <1>1, <3>2 DEF Granted
    <3> QED
      BY <1>t, <3>1, <3>3, NoNewToken DEF TokensInv
  <2> QED
    BY <2>1, <2>2
<1> QED
  BY <1>2, <1>3, <1>4 DEF TokensInv

\* postSem that finds nobody: the poster's token goes back to the value.
LEMMA GiveBackStep ==
    ASSUME TokensInv, SemInv', NEW id \in Id, id \in holds[nowRunning],
           value' = [value EXCEPT ![id] = @ + 1],
           holds' = [holds EXCEPT ![nowRunning] = @ \ {id}],
           UNCHANGED <<processVars, globalid, waitingIn>>
    PROVE  TokensInv'
<1>t. TypeOK /\ nowRunning \in Process
  BY DEF TokensInv, SemInv, TypeOK, ProcessTypeOK
<1>1. UNCHANGED <<state, blockedReason, nowRunning>>
  BY DEF processVars
<1>2. RunnerOK'
  BY <1>1 DEF TokensInv, RunnerOK
<1>3. ASSUME NEW q \in Process PROVE WaiterOK(q)'
  <2>1. WaiterOK(q) /\ holds'[q] \subseteq holds[q]
    BY <1>t DEF TokensInv, TypeOK
  <2> QED
    BY <1>1, <2>1 DEF WaiterOK
<1>4. ASSUME NEW j \in Id PROVE Tokens(j)' <= InitialValue
  <2>1. Granted(j)' = Granted(j)
    BY <1>1 DEF Granted
  <2>2. CASE j = id
    <3>1. Holders(id)' = Holders(id) \ {nowRunning} /\ nowRunning \in Holders(id)
      BY <1>t DEF Holders, TypeOK
    <3>2. /\ Cardinality(Holders(id)') = Cardinality(Holders(id)) - 1
          /\ Cardinality(Holders(id)) \in Nat /\ Cardinality(Granted(id)) \in Nat
      BY <3>1, CountedAreProcesses, CountProperties
    <3>3. /\ value[id] \in Nat /\ value'[id] = value[id] + 1 /\ InitialValue \in Nat
          /\ Tokens(id) <= InitialValue
      BY <1>t, SemAssumption DEF TypeOK, TokensInv
    <3> QED
      BY <2>1, <2>2, <3>2, <3>3 DEF Tokens
  <2>3. CASE j # id
    <3>1. Holders(j)' = Holders(j) /\ value'[j] = value[j]
      BY <1>t, <2>3 DEF Holders, TypeOK
    <3> QED
      BY <1>t, <2>1, <3>1, NoNewToken DEF TokensInv
  <2> QED
    BY <2>2, <2>3
<1> QED
  BY <1>2, <1>3, <1>4 DEF TokensInv

\* Every step of users who post only what they hold.
LEMMA TokensInvStep ==
    ASSUME PostsWhatItHolds, TokensInv, SemInv', [Next]_semaphoreVars
    PROVE  TokensInv'
<1>t. TypeOK /\ nowRunning \in Process
  BY DEF TokensInv, SemInv, TypeOK, ProcessTypeOK
<1>s. ASSUME Spin PROVE TokensInv'
  BY <1>s, StillStep DEF Spin, processVars, semVars
<1>1. CASE UNCHANGED semaphoreVars
  BY <1>1, StillStep DEF semaphoreVars, processVars, semVars
<1>2. ASSUME NEW n \in Name, InitializeSemaphore(n) PROVE TokensInv'
  BY <1>2, <1>s, NewSemaphoreStep
<1>3. ASSUME NEW id \in Id, WaitSem(id) PROVE TokensInv'
  <2>0. InUserCode /\ Exists(id) /\ id \notin holds[nowRunning]
    BY <1>3 DEF WaitSem
  <2>1. CASE semLock[id] = 0 /\ HasToken(id) /\ TakeToken(id)
             /\ UNCHANGED <<globalid, lock, lockListPid, hung>>
    BY <2>0, <2>1, TakeStep
  <2>2. CASE semLock[id] = 0 /\ ~HasToken(id) /\ WaitForToken(id)
             /\ UNCHANGED <<globalid, lock, lockListPid, hung>>
    BY <2>0, <2>2, SleepStep DEF WaitForToken, PostsWhatItHolds
  <2>3. CASE semLock[id] = 0 /\ ~HasToken(id) /\ WaitOutOfMemory(id)
             /\ UNCHANGED <<globalid, lock, lockListPid, hung>>
    BY <2>3, StillStep DEF WaitOutOfMemory, processVars
  <2> QED
    BY <1>3, <1>s, <2>1, <2>2, <2>3 DEF WaitSem
<1>4. ASSUME NEW id \in Id, PostSem(id) PROVE TokensInv'
  <2>0. InUserCode /\ id \in holds[nowRunning]
    BY <1>4 DEF PostSem, PostsWhatItHolds
  <2>1. CASE /\ semLock[id] = 0 /\ SomebodyWaits(id) /\ WakeOldest(id)
             /\ holds' = [holds EXCEPT ![nowRunning] = @ \ {id}]
             /\ UNCHANGED <<name, semLock, globalid, lock, waitingIn, hung>>
    <3>1. PICK list \in Seq(Process) : list = blockedProcessList[id] /\ list # <<>>
      BY <1>t, <2>1 DEF TypeOK, SomebodyWaits
    <3>2. Last(list) \in Process
      BY <3>1, FrontEffect
    <3>3. Unblock(Last(list), id) /\ UNCHANGED value
      BY <2>1, <3>1 DEF WakeOldest
    <3> QED
      BY <2>0, <2>1, <3>2, <3>3, HandOverStep
  <2>2. CASE /\ semLock[id] = 0 /\ ~SomebodyWaits(id)
             /\ value' = [value EXCEPT ![id] = @ + 1]
             /\ UNCHANGED <<processVars, blockedProcessList, lockListPid>>
             /\ holds' = [holds EXCEPT ![nowRunning] = @ \ {id}]
             /\ UNCHANGED <<name, semLock, globalid, lock, waitingIn, hung>>
    BY <2>0, <2>2, GiveBackStep
  <2> QED
    BY <1>4, <1>s, <2>1, <2>2 DEF PostSem
<1>5. ASSUME NEW id \in Id, CloseSem(id) PROVE TokensInv'
  BY <1>5, StillStep DEF CloseSem, processVars
<1>6. CASE ResumeWait
  BY <1>6, ResumeStep
<1>7. CASE Exit \/ (\E p \in Process : KillProcess(p)) \/ Escape
  BY <1>7, DeathStep
<1>8. ASSUME NEW p \in Process, Tick(p) PROVE TokensInv'
  BY <1>8, StillStep DEF Tick, Dispatch, semVars
<1> QED
  BY <1>1, <1>2, <1>3, <1>4, <1>5, <1>6, <1>7, <1>8 DEF Next

LEMMA TokensInvHolds == ASSUME PostsWhatItHolds PROVE Spec => []TokensInv
<1>1. Init /\ SemInv => TokensInv
  <2> SUFFICES ASSUME Init, SemInv PROVE TokensInv
    OBVIOUS
  <2>1. RunnerOK /\ \A p \in Process : WaiterOK(p)
    BY ProcessAssumption DEF Init, RunnerOK, WaiterOK, NULL
  <2>2. ASSUME NEW id \in Id PROVE Tokens(id) <= InitialValue
    <3>1. Granted(id) = {} /\ Holders(id) = {}
      BY DEF Init, Granted, Holders, NULL, Id
    <3>2. Cardinality(Granted(id)) = 0 /\ Cardinality(Holders(id)) = 0
      BY <3>1, FS_EmptySet
    <3> QED
      BY <3>2, SemAssumption DEF Init, Tokens
  <2> QED
    BY <2>1, <2>2 DEF TokensInv
<1>2. TokensInv /\ SemInv' /\ [Next]_semaphoreVars => TokensInv'
  BY TokensInvStep
<1> QED
  BY <1>1, <1>2, SemaphoresExact, PTL DEF Spec

\* However many processes wait, post, die or close, a semaphore never hands out more
\* tokens than it was created with: with one token, never two in the critical section.
THEOREM NoTokenMadeUp == ASSUME PostsWhatItHolds PROVE Spec => []TokensNotMadeUp
<1>1. TokensInv => TokensNotMadeUp
  BY DEF TokensInv, Tokens, TokensNotMadeUp
<1> QED
  BY <1>1, TokensInvHolds, PTL

-----------------------------------------------------------------------------
\* Whoever has the CPU is awake, or was killed by the ESC key and goes on.
RunnerAwake == state[nowRunning] \in {"READY", "FINISHED"}

\* A pid in the list of a semaphore is of a process that sleeps for this semaphore,
\* once in the list, or of one that has died.
ListOK(id) ==
    \A i \in DOMAIN blockedProcessList[id] :
        \/ state[blockedProcessList[id][i]] = "FINISHED"
        \/ /\ IsBlockedFor(blockedProcessList[id][i], Reason(id))
           /\ \A j \in DOMAIN blockedProcessList[id] :
                 blockedProcessList[id][j] = blockedProcessList[id][i] => j = i

ListsInv == SemInv /\ RunnerAwake /\ \A id \in Id : ListOK(id)

\* ListOK of the state after a step, from what the list is then.
LEMMA ListOKNext ==
    ASSUME NEW id \in Id, NEW list, blockedProcessList'[id] = list,
           \A i \in DOMAIN list : state'[list[i]] # "FINISHED" =>
              /\ state'[list[i]] = "BLOCKED" /\ blockedReason'[list[i]] = Reason(id)
              /\ \A j \in DOMAIN list : list[j] = list[i] => j = i
    PROVE  ListOK(id)'
BY DEF ListOK, IsBlockedFor

\* The lists after a step that only puts to death or to sleep, and changes no list.
LEMMA ListUntouched ==
    ASSUME NEW id \in Id, ListOK(id), TypeOK,
           blockedProcessList'[id] = blockedProcessList[id],
           \A p \in Process :
              /\ state[p] = "FINISHED" => state'[p] = "FINISHED"
              /\ IsBlockedFor(p, Reason(id)) =>
                    IsBlockedFor(p, Reason(id))' \/ state'[p] = "FINISHED"
    PROVE  ListOK(id)'
<1>1. PICK list \in Seq(Process) : list = blockedProcessList[id]
  BY DEF TypeOK
<1>2. \A i \in DOMAIN list : list[i] \in Process
  BY <1>1
<1>3. \A i \in DOMAIN list : state[list[i]] # "FINISHED" =>
         /\ IsBlockedFor(list[i], Reason(id))
         /\ \A j \in DOMAIN list : list[j] = list[i] => j = i
  BY <1>1 DEF ListOK
<1>4. \A i \in DOMAIN list : state'[list[i]] # "FINISHED" =>
         /\ state'[list[i]] = "BLOCKED" /\ blockedReason'[list[i]] = Reason(id)
         /\ state[list[i]] # "FINISHED"
  BY <1>2, <1>3 DEF IsBlockedFor
<1> QED
  BY <1>1, <1>3, <1>4, ListOKNext

\* Emptied, or without elements, a list is in order.
LEMMA EmptyListOK ==
    ASSUME NEW id \in Id, blockedProcessList'[id] = <<>>
    PROVE  ListOK(id)'
BY DEF ListOK

\* The running process comes to the head of the list.
LEMMA EnlistOK ==
    ASSUME NEW id \in Id, ListOK(id), TypeOK, Enlist(id), state[nowRunning] # "BLOCKED",
           \/ state'[nowRunning] = "BLOCKED" /\ blockedReason'[nowRunning] = Reason(id)
           \/ state'[nowRunning] = "FINISHED",
           state[nowRunning] = "FINISHED" => state'[nowRunning] = "FINISHED",
           \A p \in Process \ {nowRunning} :
              state'[p] = state[p] /\ blockedReason'[p] = blockedReason[p]
    PROVE  ListOK(id)'
<1>t. nowRunning \in Process
  BY DEF TypeOK, ProcessTypeOK
<1>1. PICK list \in Seq(Process) : list = blockedProcessList[id]
  BY DEF TypeOK
<1>n. PICK new : new = <<nowRunning>> \o list
  OBVIOUS
<1>2. /\ Len(list) \in Nat /\ DOMAIN list = 1 .. Len(list) /\ DOMAIN new = 1 .. Len(list) + 1
      /\ new[1] = nowRunning /\ \A i \in 1 .. Len(list) : new[i + 1] = list[i]
  BY <1>t, <1>1, <1>n
<1>3. blockedProcessList'[id] = new
  <2>1. DOMAIN blockedProcessList = Id
    BY DEF TypeOK
  <2> QED
    BY <1>1, <1>n, <2>1 DEF Enlist
<1>4. \A i \in 1 .. Len(list) :
        /\ list[i] \in Process
        /\ state[list[i]] # "FINISHED" =>
              /\ IsBlockedFor(list[i], Reason(id)) /\ list[i] # nowRunning
              /\ \A j \in 1 .. Len(list) : list[j] = list[i] => j = i
  <2>1. ASSUME NEW i \in 1 .. Len(list)
        PROVE  /\ list[i] \in Process
               /\ state[list[i]] # "FINISHED" =>
                     /\ IsBlockedFor(list[i], Reason(id))
                     /\ \A j \in 1 .. Len(list) : list[j] = list[i] => j = i
    <3>1. list[i] \in Process
      BY <1>1, <1>2
    <3>2. \/ state[list[i]] = "FINISHED"
          \/ /\ IsBlockedFor(list[i], Reason(id))
             /\ \A j \in DOMAIN list : list[j] = list[i] => j = i
      BY <1>1, <1>2, Zenon DEF ListOK
    <3> QED
      BY <1>2, <3>1, <3>2
  <2>2. \A p : IsBlockedFor(p, Reason(id)) => p # nowRunning
    BY DEF IsBlockedFor
  <2> QED
    BY <2>1, <2>2
<1>5. ASSUME NEW i \in 1 .. Len(list) + 1, state'[new[i]] # "FINISHED"
      PROVE  /\ IsBlockedFor(new[i], Reason(id))'
             /\ \A j \in 1 .. Len(list) + 1 : new[j] = new[i] => j = i
  <2>1. CASE i = 1
    <3>1. /\ state[nowRunning] # "FINISHED"
          /\ state'[nowRunning] = "BLOCKED" /\ blockedReason'[nowRunning] = Reason(id)
      BY <1>2, <1>5, <2>1
    <3>2. ASSUME NEW j \in 1 .. Len(list) + 1, j # 1 PROVE new[j] # nowRunning
      <4>1. j - 1 \in 1 .. Len(list) /\ new[j] = list[j - 1]
        BY <1>2, <3>2
      <4>2. list[j - 1] # nowRunning
        BY <1>4, <3>1, <4>1
      <4> QED
        BY <4>1, <4>2
    <3> QED
      BY <1>2, <2>1, <3>1, <3>2 DEF IsBlockedFor
  <2>2. CASE i # 1
    <3>1. i - 1 \in 1 .. Len(list) /\ new[i] = list[i - 1]
      BY <1>2, <2>2
    <3>2. state[list[i - 1]] # "FINISHED" /\ list[i - 1] # nowRunning
      BY <1>2, <1>4, <1>5, <3>1
    <3>3. IsBlockedFor(list[i - 1], Reason(id))'
      BY <1>4, <3>1, <3>2 DEF IsBlockedFor
    <3>4. ASSUME NEW j \in 1 .. Len(list) + 1, new[j] = new[i] PROVE j = i
      <4>1. j # 1
        BY <1>2, <3>1, <3>2, <3>4
      <4>2. j - 1 \in 1 .. Len(list) /\ list[j - 1] = list[i - 1]
        BY <1>2, <3>1, <3>4, <4>1
      <4>3. j - 1 = i - 1
        BY <1>4, <3>1, <3>2, <4>2
      <4> QED
        BY <4>3
    <3> QED
      BY <3>1, <3>3, <3>4
  <2> QED
    BY <2>1, <2>2
<1> QED
  <2>1. \A i \in DOMAIN new : state'[new[i]] # "FINISHED" =>
           /\ state'[new[i]] = "BLOCKED" /\ blockedReason'[new[i]] = Reason(id)
           /\ \A j \in DOMAIN new : new[j] = new[i] => j = i
    BY <1>2, <1>5 DEF IsBlockedFor
  <2> QED
    BY <1>3, <2>1, ListOKNext

\* The last pid leaves the list, and its process wakes if it sleeps for the semaphore.
LEMMA UnlistOK ==
    ASSUME NEW id \in Id, ListOK(id), TypeOK, SomebodyWaits(id), WakeOldest(id)
    PROVE  /\ ListOK(id)'
           /\ \A p \in Process : /\ state[p] = "FINISHED" => state'[p] = "FINISHED"
                                 /\ ~IsBlockedFor(p, Reason(id)) =>
                                        /\ state'[p] = state[p]
                                        /\ blockedReason'[p] = blockedReason[p]
           /\ nowRunning' = nowRunning
<1>1. PICK list \in Seq(Process) : list = blockedProcessList[id] /\ list # <<>>
  BY DEF TypeOK, SomebodyWaits
<1>2. /\ Len(list) \in Nat \ {0} /\ DOMAIN list = 1 .. Len(list)
      /\ Last(list) = list[Len(list)] /\ Last(list) \in Process
  BY <1>1 DEF Last
<1>3. blockedProcessList'[id] = Front(list)
  <2>1. DOMAIN blockedProcessList = Id
    BY DEF TypeOK
  <2> QED
    BY <1>1, <2>1 DEF WakeOldest
<1>4. DOMAIN Front(list) = 1 .. Len(list) - 1
      /\ \A i \in 1 .. Len(list) - 1 : Front(list)[i] = list[i]
  BY <1>2 DEF Front
<1>5. \A i \in 1 .. Len(list) :
        /\ list[i] \in Process
        /\ state[list[i]] # "FINISHED" =>
              /\ IsBlockedFor(list[i], Reason(id))
              /\ \A j \in 1 .. Len(list) : list[j] = list[i] => j = i
  BY <1>1, <1>2 DEF ListOK
<1>6. /\ \A p \in Process \ {Last(list)} :
            state'[p] = state[p] /\ blockedReason'[p] = blockedReason[p]
      /\ ~IsBlockedFor(Last(list), Reason(id)) =>
            /\ state'[Last(list)] = state[Last(list)]
            /\ blockedReason'[Last(list)] = blockedReason[Last(list)]
      /\ nowRunning' = nowRunning
  <2>0. Unblock(Last(list), id)
    BY <1>1 DEF WakeOldest
  <2>1. CASE IsBlockedFor(Last(list), Reason(id))
    <3>1. Change({Last(list)}, {}) /\ nowRunning' = nowRunning
      BY <2>0, <2>1 DEF Unblock, Wake
    <3>2. \A q \in Process : q \notin {Last(list)} \cup {} =>
                state'[q] = state[q] /\ blockedReason'[q] = blockedReason[q]
      BY <3>1 DEF Change
    <3> QED
      BY <2>1, <3>1, <3>2
  <2>2. CASE ~IsBlockedFor(Last(list), Reason(id))
    BY <2>0, <2>2 DEF Unblock, processVars
  <2> QED
    BY <2>1, <2>2
<1>7. ASSUME NEW i \in 1 .. Len(list) - 1, state'[list[i]] # "FINISHED"
      PROVE  /\ IsBlockedFor(list[i], Reason(id))'
             /\ \A j \in 1 .. Len(list) - 1 : list[j] = list[i] => j = i
  <2>1. CASE list[i] = Last(list)
    <3>1. state[list[i]] = "FINISHED"
      BY <1>2, <1>5, <2>1
    <3> QED
      BY <1>6, <1>7, <2>1, <3>1 DEF IsBlockedFor
  <2>2. CASE list[i] # Last(list)
    BY <1>2, <1>5, <1>6, <1>7, <2>2 DEF IsBlockedFor
  <2> QED
    BY <2>1, <2>2
<1>8. ListOK(id)'
  BY <1>3, <1>4, <1>7 DEF ListOK
<1> QED
  BY <1>6, <1>8, <1>2 DEF IsBlockedFor

\* A step that leaves the lists alone, and the processes but for who has the CPU.
LEMMA ListsStay ==
    ASSUME ListsInv, SemInv', UNCHANGED <<state, blockedReason, blockedProcessList>>,
           nowRunning' = nowRunning \/ state[nowRunning'] = "READY"
    PROVE  ListsInv'
<1>1. RunnerAwake'
  BY DEF ListsInv, RunnerAwake
<1>2. ASSUME NEW id \in Id PROVE ListOK(id)'
  BY ListUntouched DEF ListsInv, SemInv, IsBlockedFor
<1> QED
  BY <1>1, <1>2 DEF ListsInv

\* waitSem that does not find a token.
LEMMA ListsWait ==
    ASSUME ListsInv, SemInv', NEW id \in Id, WaitForToken(id)
    PROVE  ListsInv'
<1>t. TypeOK /\ nowRunning \in Process
  BY DEF ListsInv, SemInv, TypeOK, ProcessTypeOK
<1>0. state[nowRunning] \in {"READY", "FINISHED"}
  BY DEF ListsInv, RunnerAwake
<1>1. /\ \A p \in Process \ {nowRunning} :
            state'[p] = state[p] /\ blockedReason'[p] = blockedReason[p]
      /\ \/ /\ state[nowRunning] = "READY" /\ state'[nowRunning] = "BLOCKED"
            /\ blockedReason'[nowRunning] = Reason(id)
         \/ state[nowRunning] = "FINISHED" /\ state'[nowRunning] = "FINISHED"
      /\ state'[nowRunning'] \in {"READY", "FINISHED"}
  <2>1. CASE MayBlock /\ BlockRunning(Reason(id))
    BY <1>t, <2>1 DEF MayBlock, BlockRunning, Dispatch, TypeOK, ProcessTypeOK
  <2>2. CASE ~MayBlock /\ UNCHANGED processVars
    BY <1>0, <2>2 DEF MayBlock, processVars
  <2> QED
    BY <2>1, <2>2 DEF WaitForToken
<1>2. RunnerAwake'
  BY <1>1 DEF RunnerAwake
<1>3. Enlist(id)
  BY DEF WaitForToken
<1>4. ListOK(id)'
  BY <1>t, <1>1, <1>3, EnlistOK DEF ListsInv
<1>5. ASSUME NEW j \in Id, j # id PROVE ListOK(j)'
  <2>1. blockedProcessList'[j] = blockedProcessList[j]
    BY <1>t, <1>3, <1>5 DEF Enlist, TypeOK
  <2>2. ASSUME NEW p \in Process
        PROVE  /\ state[p] = "FINISHED" => state'[p] = "FINISHED"
               /\ IsBlockedFor(p, Reason(j)) => IsBlockedFor(p, Reason(j))'
    BY <1>1 DEF IsBlockedFor
  <2> QED
    BY <1>t, <2>1, <2>2, ListUntouched DEF ListsInv
<1> QED
  BY <1>2, <1>4, <1>5 DEF ListsInv

\* postSem that takes a pid out of the list.
LEMMA ListsPost ==
    ASSUME ListsInv, SemInv', NEW id \in Id, SomebodyWaits(id), WakeOldest(id)
    PROVE  ListsInv'
<1>t. TypeOK /\ nowRunning \in Process
  BY DEF ListsInv, SemInv, TypeOK, ProcessTypeOK
<1>1. /\ ListOK(id)' /\ nowRunning' = nowRunning
      /\ \A p \in Process : /\ state[p] = "FINISHED" => state'[p] = "FINISHED"
                            /\ ~IsBlockedFor(p, Reason(id)) =>
                                   /\ state'[p] = state[p]
                                   /\ blockedReason'[p] = blockedReason[p]
  BY <1>t, UnlistOK DEF ListsInv
<1>2. RunnerAwake'
  <2>1. ~IsBlockedFor(nowRunning, Reason(id))
    BY DEF ListsInv, RunnerAwake, IsBlockedFor
  <2> QED
    BY <1>t, <1>1, <2>1 DEF ListsInv, RunnerAwake
<1>3. ASSUME NEW j \in Id, j # id PROVE ListOK(j)'
  <2>1. blockedProcessList'[j] = blockedProcessList[j]
    BY <1>t, <1>3 DEF WakeOldest, TypeOK
  <2>2. ASSUME NEW p \in Process, IsBlockedFor(p, Reason(j)) PROVE IsBlockedFor(p, Reason(j))'
    <3>1. ~IsBlockedFor(p, Reason(id))
      BY <1>3, <2>2, ReasonsDiffer DEF IsBlockedFor
    <3> QED
      BY <1>1, <2>2, <3>1 DEF IsBlockedFor
  <2> QED
    BY <1>t, <1>1, <2>1, <2>2, ListUntouched DEF ListsInv
<1> QED
  BY <1>1, <1>2, <1>3 DEF ListsInv

\* closeSem, or a waitSem that runs out of memory: a list is emptied.
LEMMA ListsEmptied ==
    ASSUME ListsInv, SemInv', NEW id \in Id, UNCHANGED processVars,
           blockedProcessList' = [blockedProcessList EXCEPT ![id] = <<>>]
    PROVE  ListsInv'
<1>t. TypeOK
  BY DEF ListsInv, SemInv
<1>1. RunnerAwake'
  BY DEF ListsInv, RunnerAwake, processVars
<1>2. ASSUME NEW j \in Id PROVE ListOK(j)'
  <2>1. CASE j = id
    <3>1. blockedProcessList'[id] = <<>>
      BY <1>t DEF TypeOK
    <3> QED
      BY <2>1, <3>1, EmptyListOK
  <2>2. CASE j # id
    <3>1. blockedProcessList'[j] = blockedProcessList[j]
      BY <1>t, <2>2 DEF TypeOK
    <3> QED
      BY <1>t, <3>1, ListUntouched DEF ListsInv, IsBlockedFor, processVars
  <2> QED
    BY <2>1, <2>2
<1> QED
  BY <1>1, <1>2 DEF ListsInv

\* An exit, a kill or the ESC key: the pids of the dead stay in the lists.
LEMMA ListsDeath ==
    ASSUME ListsInv, SemInv', Exit \/ (\E p \in Process : KillProcess(p)) \/ Escape
    PROVE  ListsInv'
<1>t. TypeOK /\ nowRunning \in Process
  BY DEF ListsInv, SemInv, TypeOK, ProcessTypeOK
<1>1. PICK K \in SUBSET Process :
        Change({}, K) /\ (Dispatch(state') \/ nowRunning' = nowRunning)
  BY <1>t, ProcessAssumption DEF Exit, KillProcess, Escape
<1>2. UNCHANGED blockedProcessList
  BY DEF Exit, KillProcess, Escape, semVars
<1>3. \A p \in Process : /\ p \in K => state'[p] = "FINISHED"
                         /\ p \notin K => state'[p] = state[p]
                                          /\ blockedReason'[p] = blockedReason[p]
  BY <1>1 DEF Change
<1>4. RunnerAwake'
  <2>1. CASE Dispatch(state')
    BY <2>1 DEF RunnerAwake, Dispatch
  <2>2. CASE nowRunning' = nowRunning
    BY <1>t, <1>3, <2>2 DEF ListsInv, RunnerAwake
  <2> QED
    BY <1>1, <2>1, <2>2
<1>5. ASSUME NEW id \in Id PROVE ListOK(id)'
  BY <1>t, <1>2, <1>3, ListUntouched DEF ListsInv, IsBlockedFor
<1> QED
  BY <1>4, <1>5 DEF ListsInv

LEMMA ListsInvStep ==
    ASSUME ListsInv, SemInv', [Next]_semaphoreVars
    PROVE  ListsInv'
<1>s. ASSUME Spin PROVE ListsInv'
  BY <1>s, ListsStay DEF Spin, processVars, semVars
<1>1. CASE UNCHANGED semaphoreVars
  BY <1>1, ListsStay DEF semaphoreVars, processVars, semVars
<1>2. ASSUME NEW n \in Name, InitializeSemaphore(n) PROVE ListsInv'
  BY <1>2, <1>s, ListsStay DEF InitializeSemaphore, Create, CreateOutOfMemory, processVars
<1>3. ASSUME NEW id \in Id, WaitSem(id) PROVE ListsInv'
  <2>1. CASE semLock[id] = 0 /\ HasToken(id) /\ TakeToken(id)
             /\ UNCHANGED <<globalid, lock, lockListPid, hung>>
    BY <2>1, ListsStay DEF TakeToken, processVars
  <2>2. CASE semLock[id] = 0 /\ ~HasToken(id) /\ WaitForToken(id)
             /\ UNCHANGED <<globalid, lock, lockListPid, hung>>
    BY <2>2, ListsWait
  <2>3. CASE semLock[id] = 0 /\ ~HasToken(id) /\ WaitOutOfMemory(id)
             /\ UNCHANGED <<globalid, lock, lockListPid, hung>>
    BY <2>3, ListsStay, ListsEmptied DEF WaitOutOfMemory, processVars
  <2> QED
    BY <1>3, <1>s, <2>1, <2>2, <2>3 DEF WaitSem
<1>4. ASSUME NEW id \in Id, PostSem(id) PROVE ListsInv'
  <2>1. CASE /\ semLock[id] = 0 /\ SomebodyWaits(id) /\ WakeOldest(id)
             /\ holds' = [holds EXCEPT ![nowRunning] = @ \ {id}]
             /\ UNCHANGED <<name, semLock, globalid, lock, waitingIn, hung>>
    BY <2>1, ListsPost
  <2>2. CASE /\ semLock[id] = 0 /\ ~SomebodyWaits(id)
             /\ value' = [value EXCEPT ![id] = @ + 1]
             /\ UNCHANGED <<processVars, blockedProcessList, lockListPid>>
             /\ holds' = [holds EXCEPT ![nowRunning] = @ \ {id}]
             /\ UNCHANGED <<name, semLock, globalid, lock, waitingIn, hung>>
    BY <2>2, ListsStay DEF processVars
  <2> QED
    BY <1>4, <1>s, <2>1, <2>2 DEF PostSem
<1>5. ASSUME NEW id \in Id, CloseSem(id) PROVE ListsInv'
  BY <1>5, ListsEmptied DEF CloseSem
<1>6. CASE ResumeWait
  BY <1>6, ListsStay DEF ResumeWait, processVars, semVars
<1>7. CASE Exit \/ (\E p \in Process : KillProcess(p)) \/ Escape
  BY <1>7, ListsDeath
<1>8. ASSUME NEW p \in Process, Tick(p) PROVE ListsInv'
  BY <1>8, ListsStay DEF Tick, Dispatch, semVars
<1> QED
  BY <1>1, <1>2, <1>3, <1>4, <1>5, <1>6, <1>7, <1>8 DEF Next

LEMMA ListsInvHolds == Spec => []ListsInv
<1>1. Init /\ SemInv => ListsInv
  BY ProcessAssumption DEF Init, ListsInv, RunnerAwake, ListOK
<1>2. ListsInv /\ SemInv' /\ [Next]_semaphoreVars => ListsInv'
  BY ListsInvStep
<1> QED
  BY <1>1, <1>2, SemaphoresExact, PTL DEF Spec

\* Between the calls of processes that get their memory, the locks are free.
LEMMA LocksFreeHolds == ASSUME MemoryLasts PROVE Spec => []LocksFree
<1>1. Init => LocksFree
  BY DEF Init, LocksFree
<1>2. SemInv /\ LocksFree /\ [Next]_semaphoreVars => LocksFree'
  BY LocksFreeStep DEF SemInv
<1> QED
  BY <1>1, <1>2, SemaphoresExact, PTL DEF Spec

\* Whoever sleeps in waitSem is in the list that postSem walks, exactly once, whatever
\* else dies, is closed or runs out of memory: a list that was forgotten is behind a
\* lock that stays taken, so no post walks it.
THEOREM SleepersAreListed == Spec => []WaitersListed
<1>1. ListsInv => WaitersListed
  <2> SUFFICES ASSUME ListsInv, NEW id \in Id, Exists(id), semLock[id] = 0,
                      NEW p \in Waiting(id)
               PROVE  Cardinality({i \in DOMAIN blockedProcessList[id] :
                                      blockedProcessList[id][i] = p}) = 1
    BY DEF WaitersListed
  <2>1. IsBlockedFor(p, Reason(id)) /\ state[p] # "FINISHED"
    BY DEF Waiting, BlockedFor, IsBlockedFor
  <2>2. p \in ToSet(blockedProcessList[id])
    BY DEF ListsInv, SemInv
  <2>3. PICK k \in DOMAIN blockedProcessList[id] : blockedProcessList[id][k] = p
    BY <2>2 DEF ToSet
  <2>4. \A j \in DOMAIN blockedProcessList[id] : blockedProcessList[id][j] = p => j = k
    BY <2>1, <2>3 DEF ListsInv, ListOK
  <2>5. {i \in DOMAIN blockedProcessList[id] : blockedProcessList[id][i] = p} = {k}
    BY <2>3, <2>4
  <2> QED
    BY <2>5, FS_Singleton
<1> QED
  BY <1>1, ListsInvHolds, PTL

-----------------------------------------------------------------------------
(* Tokens are not lost either.                                             *)

\* Nobody dies.
NobodyDies == ~Asks("exit") /\ ~Asks("kill") /\ ~Asks("esc")

\* A process is awake, or asleep in waitSem; it does not hold what it waits for.
AwakeOrWaiting(p) ==
    /\ state[p] = "READY" \/ (state[p] = "BLOCKED" /\ waitingIn[p] # NULL)
    /\ waitingIn[p] \notin holds[p]

ConservedInv ==
    /\ ListsInv /\ TokensInv
    /\ \A p \in Process : AwakeOrWaiting(p)
    /\ \A id \in Id : Tokens(id) >= InitialValue

\* A semaphore whose value stays and of which nobody loses a token.
LEMMA NoTokenLost ==
    ASSUME TypeOK, NEW id \in Id, Tokens(id) >= InitialValue, value'[id] = value[id],
           Granted(id) \subseteq Granted(id)', Holders(id) \subseteq Holders(id)'
    PROVE  Tokens(id)' >= InitialValue
<1>1. /\ Cardinality(Granted(id)) \in Nat /\ Cardinality(Holders(id)) \in Nat
      /\ Cardinality(Granted(id)') \in Nat /\ Cardinality(Holders(id)') \in Nat
      /\ Cardinality(Granted(id)) <= Cardinality(Granted(id)')
      /\ Cardinality(Holders(id)) <= Cardinality(Holders(id)')
  BY CountedAreProcesses, CountProperties
<1>2. value[id] \in Nat /\ InitialValue \in Nat
  BY SemAssumption DEF TypeOK
<1> QED
  BY <1>1, <1>2 DEF Tokens

\* A step that changes nothing that is counted.
LEMMA ConservedStill ==
    ASSUME ConservedInv, ListsInv', TokensInv',
           UNCHANGED <<state, value, waitingIn, holds>>
    PROVE  ConservedInv'
<1>t. TypeOK
  BY DEF ConservedInv, ListsInv, SemInv
<1>1. \A p \in Process : AwakeOrWaiting(p)'
  BY DEF ConservedInv, AwakeOrWaiting
<1>2. ASSUME NEW id \in Id PROVE Tokens(id)' >= InitialValue
  <2>1. Granted(id)' = Granted(id) /\ Holders(id)' = Holders(id)
    BY DEF Granted, Holders
  <2> QED
    BY <1>t, <2>1, NoTokenLost DEF ConservedInv
<1> QED
  BY <1>1, <1>2 DEF ConservedInv

\* A new semaphore has all its tokens.
LEMMA ConservedNew ==
    ASSUME ConservedInv, ListsInv', TokensInv', NEW n \in Name, InitializeSemaphore(n), ~Spin
    PROVE  ConservedInv'
<1>t. TypeOK /\ globalid \in Id
  BY DEF ConservedInv, ListsInv, SemInv, InitializeSemaphore, TypeOK, Id
<1>1. /\ UNCHANGED <<state, waitingIn, holds>>
      /\ value' = [value EXCEPT ![globalid] = InitialValue] \/ value' = value
  BY DEF InitializeSemaphore, Create, CreateOutOfMemory, processVars
<1>2. \A p \in Process : AwakeOrWaiting(p)'
  BY <1>1 DEF ConservedInv, AwakeOrWaiting
<1>3. ASSUME NEW id \in Id PROVE Tokens(id)' >= InitialValue
  <2>1. CASE value'[id] = value[id]
    <3>1. Granted(id)' = Granted(id) /\ Holders(id)' = Holders(id)
      BY <1>1 DEF Granted, Holders
    <3> QED
      BY <1>t, <2>1, <3>1, NoTokenLost DEF ConservedInv
  <2>2. CASE value'[id] # value[id]
    <3>1. value'[id] = InitialValue
      BY <1>1, <1>t, <2>2 DEF TypeOK
    <3>2. Cardinality(Granted(id)') \in Nat /\ Cardinality(Holders(id)') \in Nat
      BY CountedAreProcesses, CountProperties
    <3> QED
      BY <3>1, <3>2, SemAssumption DEF Tokens
  <2> QED
    BY <2>1, <2>2
<1> QED
  BY <1>2, <1>3 DEF ConservedInv

\* waitSem that finds a token.
LEMMA ConservedTake ==
    ASSUME ConservedInv, ListsInv', TokensInv', NEW id \in Id, InUserCode, TakeToken(id),
           id \notin holds[nowRunning]
    PROVE  ConservedInv'
<1>t. TypeOK /\ nowRunning \in Process /\ value[id] \in Nat
  BY DEF ConservedInv, ListsInv, SemInv, TypeOK, ProcessTypeOK
<1>1. /\ UNCHANGED <<state, waitingIn>>
      /\ value' = [value EXCEPT ![id] = @ - 1]
      /\ holds' = [holds EXCEPT ![nowRunning] = @ \cup {id}]
  BY DEF TakeToken, processVars
<1>2. ASSUME NEW p \in Process PROVE AwakeOrWaiting(p)'
  <2>1. CASE p = nowRunning
    <3>1. holds'[p] \subseteq Id /\ waitingIn'[p] \notin Id
      BY <1>t, <1>1, <2>1 DEF InUserCode, TypeOK, NULL, Id
    <3> QED
      BY <1>1, <3>1 DEF ConservedInv, AwakeOrWaiting
  <2>2. CASE p # nowRunning
    BY <1>t, <1>1, <2>2 DEF ConservedInv, AwakeOrWaiting, TypeOK
  <2> QED
    BY <2>1, <2>2
<1>3. ASSUME NEW j \in Id PROVE Tokens(j)' >= InitialValue
  <2>1. Granted(j)' = Granted(j)
    BY <1>1 DEF Granted
  <2>2. CASE j = id
    <3>1. nowRunning \notin Holders(id) /\ Holders(id)' = Holders(id) \cup {nowRunning}
      BY <1>t, <1>1 DEF Holders, TypeOK
    <3>2. /\ Cardinality(Holders(id)') = Cardinality(Holders(id)) + 1
          /\ Cardinality(Holders(id)) \in Nat /\ Cardinality(Granted(id)) \in Nat
      BY <3>1, CountedAreProcesses, CountProperties
    <3>3. value'[id] = value[id] - 1 /\ InitialValue \in Nat
      BY <1>t, <1>1, SemAssumption DEF TypeOK
    <3> QED
      BY <1>t, <2>1, <2>2, <3>2, <3>3 DEF ConservedInv, Tokens
  <2>3. CASE j # id
    <3>1. Holders(j)' = Holders(j) /\ value'[j] = value[j]
      BY <1>t, <1>1, <2>3 DEF Holders, TypeOK
    <3> QED
      BY <1>t, <2>1, <3>1, NoTokenLost DEF ConservedInv
  <2> QED
    BY <2>2, <2>3
<1> QED
  BY <1>2, <1>3 DEF ConservedInv

\* waitSem that blocks.
LEMMA ConservedSleep ==
    ASSUME ConservedInv, ListsInv', TokensInv', NEW id \in Id, InUserCode,
           id \notin holds[nowRunning], BlockRunning(Reason(id)),
           waitingIn' = [waitingIn EXCEPT ![nowRunning] = id],
           UNCHANGED <<value, holds>>
    PROVE  ConservedInv'
<1>t. TypeOK /\ nowRunning \in Process /\ id # NULL
  BY DEF ConservedInv, ListsInv, SemInv, TypeOK, ProcessTypeOK, NULL, Id
<1>1. /\ \A p \in Process \ {nowRunning} :
            state'[p] = state[p] /\ waitingIn'[p] = waitingIn[p]
      /\ state'[nowRunning] = "BLOCKED" /\ waitingIn'[nowRunning] = id
  BY <1>t DEF BlockRunning, TypeOK, ProcessTypeOK
<1>2. \A p \in Process : AwakeOrWaiting(p)'
  BY <1>t, <1>1 DEF ConservedInv, AwakeOrWaiting
<1>3. ASSUME NEW j \in Id PROVE Tokens(j)' >= InitialValue
  <2>1. nowRunning \notin Granted(j)
    BY DEF InUserCode, Granted, NULL, Id
  <2>2. Granted(j) \subseteq Granted(j)' /\ Holders(j)' = Holders(j)
    BY <1>1, <2>1 DEF Granted, Holders
  <2> QED
    BY <1>t, <2>2, NoTokenLost DEF ConservedInv
<1> QED
  BY <1>2, <1>3 DEF ConservedInv

\* waitSem that returns.
LEMMA ConservedResume ==
    ASSUME ConservedInv, ListsInv', TokensInv', ResumeWait
    PROVE  ConservedInv'
<1>t. TypeOK /\ nowRunning \in Process
  BY DEF ConservedInv, ListsInv, SemInv, TypeOK, ProcessTypeOK
<1>i. PICK id \in Id : id = waitingIn[nowRunning] /\ nowRunning \notin Holders(id)
  BY <1>t DEF ResumeWait, ConservedInv, AwakeOrWaiting, TypeOK, Holders
<1>1. /\ UNCHANGED <<state, value>>
      /\ holds' = [holds EXCEPT ![nowRunning] = @ \cup {id}]
      /\ waitingIn' = [waitingIn EXCEPT ![nowRunning] = NULL]
  BY <1>i DEF ResumeWait, processVars, semVars
<1>r. state[nowRunning] = "READY"
  BY <1>t DEF ConservedInv, AwakeOrWaiting, ListsInv, RunnerAwake
<1>2. ASSUME NEW p \in Process PROVE AwakeOrWaiting(p)'
  <2>1. CASE p = nowRunning
    <3>1. holds'[p] \subseteq Id /\ waitingIn'[p] \notin Id
      BY <1>t, <1>1, <2>1 DEF TypeOK, NULL, Id
    <3> QED
      BY <1>r, <1>1, <2>1, <3>1 DEF AwakeOrWaiting
  <2>2. CASE p # nowRunning
    BY <1>t, <1>1, <2>2 DEF ConservedInv, AwakeOrWaiting, TypeOK
  <2> QED
    BY <2>1, <2>2
<1>3. ASSUME NEW j \in Id PROVE Tokens(j)' >= InitialValue
  <2>1. CASE j = id
    <3>1. /\ Granted(id)' = Granted(id) \ {nowRunning} /\ nowRunning \in Granted(id)
          /\ Holders(id)' = Holders(id) \cup {nowRunning}
      BY <1>t, <1>i, <1>r, <1>1 DEF Granted, Holders, TypeOK, NULL, Id
    <3>2. /\ Cardinality(Granted(id)') = Cardinality(Granted(id)) - 1
          /\ Cardinality(Granted(id)) \in Nat
      BY <3>1, CountedAreProcesses, CountProperties
    <3>3. /\ Cardinality(Holders(id)') = Cardinality(Holders(id)) + 1
          /\ Cardinality(Holders(id)) \in Nat
      BY <1>i, <3>1, CountedAreProcesses, CountProperties
    <3>4. value'[id] = value[id] /\ value[id] \in Nat /\ InitialValue \in Nat
      BY <1>t, <1>i, <1>1, SemAssumption DEF TypeOK
    <3> QED
      BY <2>1, <3>2, <3>3, <3>4 DEF ConservedInv, Tokens
  <2>2. CASE j # id
    <3>1. Granted(j) \subseteq Granted(j)' /\ Holders(j)' = Holders(j)
      BY <1>t, <1>i, <1>1, <2>2 DEF Granted, Holders, TypeOK, NULL, Id
    <3> QED
      BY <1>t, <1>1, <3>1, NoTokenLost DEF ConservedInv
  <2> QED
    BY <2>1, <2>2
<1> QED
  BY <1>2, <1>3 DEF ConservedInv

\* postSem that wakes: the oldest pid of the list is of a process asleep for this
\* semaphore, which gets the poster's token.
LEMMA ConservedHandOver ==
    ASSUME ConservedInv, ListsInv', TokensInv', NEW id \in Id, InUserCode,
           id \in holds[nowRunning], SomebodyWaits(id), WakeOldest(id),
           holds' = [holds EXCEPT ![nowRunning] = @ \ {id}],
           UNCHANGED waitingIn
    PROVE  ConservedInv'
<1>t. TypeOK /\ nowRunning \in Process
  BY DEF ConservedInv, ListsInv, SemInv, TypeOK, ProcessTypeOK
<1>1. PICK p \in Process : IsBlockedFor(p, Reason(id)) /\ Unblock(p, id)
  <2>1. PICK list \in Seq(Process) : list = blockedProcessList[id] /\ list # <<>>
    BY <1>t DEF TypeOK, SomebodyWaits
  <2>2. Len(list) \in DOMAIN list /\ Last(list) = list[Len(list)] /\ Last(list) \in Process
    BY <2>1 DEF Last
  <2>3. state[Last(list)] # "FINISHED"
    BY <2>2 DEF ConservedInv, AwakeOrWaiting
  <2>4. IsBlockedFor(Last(list), Reason(id))
    BY <2>1, <2>2, <2>3 DEF ConservedInv, ListsInv, ListOK
  <2> QED
    BY <2>1, <2>2, <2>4 DEF WakeOldest
<1>2. /\ state'[p] = "READY"
      /\ \A q \in Process \ {p} : state'[q] = state[q]
  <2>1. Change({p}, {})
    BY <1>1 DEF Unblock, Wake
  <2>2. /\ \A q \in Process : q \in {p} \ {} => state'[q] = "READY"
        /\ \A q \in Process : q \notin {p} \cup {} => state'[q] = state[q]
    BY <2>1 DEF Change
  <2> QED
    BY <2>2
<1>3. state[p] = "BLOCKED" /\ waitingIn[p] = id
  <2>1. state[p] = "BLOCKED" /\ blockedReason[p] = Reason(id) /\ waitingIn[p] # NULL
    BY <1>1 DEF IsBlockedFor, ConservedInv, AwakeOrWaiting
  <2>2. blockedReason[p] = Reason(waitingIn[p])
    BY <2>1 DEF ConservedInv, TokensInv, WaiterOK
  <2>3. waitingIn[p] \in Id
    BY <1>t, <2>1 DEF TypeOK
  <2> QED
    BY <2>1, <2>2, <2>3, ReasonsDiffer
<1>4. \A q \in Process : AwakeOrWaiting(q)'
  <2>1. \A q \in Process : AwakeOrWaiting(q) /\ holds'[q] \subseteq holds[q]
    BY <1>t DEF ConservedInv, TypeOK
  <2> QED
    BY <1>2, <2>1 DEF AwakeOrWaiting
<1>5. ASSUME NEW j \in Id PROVE Tokens(j)' >= InitialValue
  <2>0. value'[j] = value[j] /\ value[j] \in Nat /\ InitialValue \in Nat
    BY <1>t, SemAssumption DEF WakeOldest, TypeOK
  <2>1. CASE j = id
    <3>1. /\ p \notin Granted(id) /\ Granted(id)' = Granted(id) \cup {p}
          /\ Holders(id)' = Holders(id) \ {nowRunning} /\ nowRunning \in Holders(id)
      BY <1>t, <1>2, <1>3 DEF Granted, Holders, TypeOK
    <3>2. /\ Cardinality(Granted(id)') = Cardinality(Granted(id)) + 1
          /\ Cardinality(Granted(id)) \in Nat
      BY <3>1, CountedAreProcesses, CountProperties
    <3>3. /\ Cardinality(Holders(id)') = Cardinality(Holders(id)) - 1
          /\ Cardinality(Holders(id)) \in Nat
      BY <3>1, CountedAreProcesses, CountProperties
    <3> QED
      BY <2>0, <2>1, <3>2, <3>3 DEF ConservedInv, Tokens
  <2>2. CASE j # id
    <3>1. Granted(j) \subseteq Granted(j)' /\ Holders(j)' = Holders(j)
      BY <1>t, <1>2, <1>3, <2>2 DEF Granted, Holders, TypeOK
    <3> QED
      BY <1>t, <2>0, <3>1, NoTokenLost DEF ConservedInv
  <2> QED
    BY <2>1, <2>2
<1> QED
  BY <1>4, <1>5 DEF ConservedInv

\* postSem that finds nobody.
LEMMA ConservedGiveBack ==
    ASSUME ConservedInv, ListsInv', TokensInv', NEW id \in Id, id \in holds[nowRunning],
           value' = [value EXCEPT ![id] = @ + 1],
           holds' = [holds EXCEPT ![nowRunning] = @ \ {id}],
           UNCHANGED <<processVars, waitingIn>>
    PROVE  ConservedInv'
<1>t. TypeOK /\ nowRunning \in Process
  BY DEF ConservedInv, ListsInv, SemInv, TypeOK, ProcessTypeOK
<1>1. \A q \in Process : AwakeOrWaiting(q)'
  <2>1. \A q \in Process : AwakeOrWaiting(q) /\ holds'[q] \subseteq holds[q]
    BY <1>t DEF ConservedInv, TypeOK
  <2> QED
    BY <2>1 DEF AwakeOrWaiting, processVars
<1>2. ASSUME NEW j \in Id PROVE Tokens(j)' >= InitialValue
  <2>1. Granted(j)' = Granted(j)
    BY DEF Granted, processVars
  <2>2. CASE j = id
    <3>1. Holders(id)' = Holders(id) \ {nowRunning} /\ nowRunning \in Holders(id)
      BY <1>t DEF Holders, TypeOK
    <3>2. /\ Cardinality(Holders(id)') = Cardinality(Holders(id)) - 1
          /\ Cardinality(Holders(id)) \in Nat /\ Cardinality(Granted(id)) \in Nat
      BY <3>1, CountedAreProcesses, CountProperties
    <3>3. /\ value[id] \in Nat /\ value'[id] = value[id] + 1 /\ InitialValue \in Nat
          /\ Tokens(id) >= InitialValue
      BY <1>t, SemAssumption DEF TypeOK, ConservedInv
    <3> QED
      BY <2>1, <2>2, <3>2, <3>3 DEF Tokens
  <2>3. CASE j # id
    <3>1. Holders(j)' = Holders(j) /\ value'[j] = value[j]
      BY <1>t, <2>3 DEF Holders, TypeOK
    <3> QED
      BY <1>t, <2>1, <3>1, NoTokenLost DEF ConservedInv
  <2> QED
    BY <2>2, <2>3
<1> QED
  BY <1>1, <1>2 DEF ConservedInv

LEMMA ConservedStep ==
    ASSUME PostsWhatItHolds, NobodyDies, ConservedInv, ListsInv', TokensInv',
           [Next]_semaphoreVars
    PROVE  ConservedInv'
<1>s. ASSUME Spin PROVE ConservedInv'
  BY <1>s, ConservedStill DEF Spin, processVars, semVars
<1>1. CASE UNCHANGED semaphoreVars
  BY <1>1, ConservedStill DEF semaphoreVars, processVars, semVars
<1>2. ASSUME NEW n \in Name, InitializeSemaphore(n) PROVE ConservedInv'
  BY <1>2, <1>s, ConservedNew
<1>3. ASSUME NEW id \in Id, WaitSem(id) PROVE ConservedInv'
  <2>0. InUserCode /\ id \notin holds[nowRunning]
    BY <1>3 DEF WaitSem
  <2>1. CASE semLock[id] = 0 /\ HasToken(id) /\ TakeToken(id)
             /\ UNCHANGED <<globalid, lock, lockListPid, hung>>
    BY <2>0, <2>1, ConservedTake
  <2>2. CASE semLock[id] = 0 /\ ~HasToken(id) /\ WaitForToken(id)
             /\ UNCHANGED <<globalid, lock, lockListPid, hung>>
    BY <2>0, <2>2, ConservedSleep DEF WaitForToken, PostsWhatItHolds
  <2>3. CASE semLock[id] = 0 /\ ~HasToken(id) /\ WaitOutOfMemory(id)
             /\ UNCHANGED <<globalid, lock, lockListPid, hung>>
    BY <2>3, ConservedStill DEF WaitOutOfMemory, processVars
  <2> QED
    BY <1>3, <1>s, <2>1, <2>2, <2>3 DEF WaitSem
<1>4. ASSUME NEW id \in Id, PostSem(id) PROVE ConservedInv'
  <2>0. InUserCode /\ id \in holds[nowRunning]
    BY <1>4 DEF PostSem, PostsWhatItHolds
  <2>1. CASE /\ semLock[id] = 0 /\ SomebodyWaits(id) /\ WakeOldest(id)
             /\ holds' = [holds EXCEPT ![nowRunning] = @ \ {id}]
             /\ UNCHANGED <<name, semLock, globalid, lock, waitingIn, hung>>
    BY <2>0, <2>1, ConservedHandOver
  <2>2. CASE /\ semLock[id] = 0 /\ ~SomebodyWaits(id)
             /\ value' = [value EXCEPT ![id] = @ + 1]
             /\ UNCHANGED <<processVars, blockedProcessList, lockListPid>>
             /\ holds' = [holds EXCEPT ![nowRunning] = @ \ {id}]
             /\ UNCHANGED <<name, semLock, globalid, lock, waitingIn, hung>>
    BY <2>0, <2>2, ConservedGiveBack
  <2> QED
    BY <1>4, <1>s, <2>1, <2>2 DEF PostSem
<1>5. ASSUME NEW id \in Id, CloseSem(id) PROVE ConservedInv'
  BY <1>5, ConservedStill DEF CloseSem, processVars
<1>6. CASE ResumeWait
  BY <1>6, ConservedResume
<1>7. CASE Exit \/ (\E p \in Process : KillProcess(p)) \/ Escape
  BY <1>7 DEF Exit, KillProcess, Escape, NobodyDies
<1>8. ASSUME NEW p \in Process, Tick(p) PROVE ConservedInv'
  BY <1>8, ConservedStill DEF Tick, Dispatch, semVars
<1> QED
  BY <1>1, <1>2, <1>3, <1>4, <1>5, <1>6, <1>7, <1>8 DEF Next

\* Tokens are neither lost nor made up while users post only what they hold and nobody
\* dies: whatever a semaphore was created with is in it, on its way to a process that
\* postSem has woken, or held.
THEOREM NoTokenLostOrMadeUp ==
    ASSUME PostsWhatItHolds, NobodyDies PROVE Spec => []TokensConserved
<1>1. Init /\ ListsInv /\ TokensInv => ConservedInv
  <2> SUFFICES ASSUME Init, ListsInv, TokensInv PROVE ConservedInv
    OBVIOUS
  <2>1. \A p \in Process : AwakeOrWaiting(p)
    BY DEF Init, AwakeOrWaiting
  <2>2. ASSUME NEW id \in Id PROVE Tokens(id) >= InitialValue
    <3>1. Cardinality(Granted(id)) \in Nat /\ Cardinality(Holders(id)) \in Nat
      BY CountedAreProcesses, CountProperties
    <3> QED
      BY <3>1, SemAssumption DEF Init, Tokens
  <2> QED
    BY <2>1, <2>2 DEF ConservedInv
<1>2. ConservedInv /\ ListsInv' /\ TokensInv' /\ [Next]_semaphoreVars => ConservedInv'
  BY ConservedStep
<1>3. ConservedInv => TokensConserved
  <2> SUFFICES ASSUME ConservedInv, NEW id \in Id PROVE Tokens(id) = InitialValue
    BY DEF TokensConserved, Tokens
  <2>1. /\ value[id] \in Nat /\ InitialValue \in Nat
        /\ Cardinality(Granted(id)) \in Nat /\ Cardinality(Holders(id)) \in Nat
    BY SemAssumption, CountedAreProcesses, CountProperties
       DEF ConservedInv, ListsInv, SemInv, TypeOK
  <2> QED
    BY <2>1 DEF ConservedInv, TokensInv, Tokens
<1> QED
  BY <1>1, <1>2, <1>3, ListsInvHolds, TokensInvHolds, PTL DEF Spec

-----------------------------------------------------------------------------
(* The abstract semaphore.                                                 *)

\* Nobody is killed while it sleeps, and no semaphore loses its list.
SleepersLeftAlone ==
    ~Asks("kill") /\ ~Asks("esc") /\ ~Asks("closeBusy") /\ ~Asks("outOfMemory")

\* The list of a semaphore holds exactly those who sleep for it; whoever has the CPU
\* is awake; ids not given yet have the value that Create will set.
ListsExact ==
    /\ state[nowRunning] = "READY"
    /\ \A id \in Id :
          /\ ToSet(blockedProcessList[id]) = Waiting(id)
          /\ id >= globalid => value[id] = InitialValue

FifoInv == ListsInv /\ LocksFree /\ ListsExact

Kept == ListsExact' /\ [Promise!Next]_(Promise!fifoVars)

\* Reverse keeps the length and turns the ends around.
LEMMA ReverseProperties ==
    ASSUME NEW S, NEW list \in Seq(S)
    PROVE  /\ Reverse(list) \in Seq(S) /\ Len(Reverse(list)) = Len(list)
           /\ \A i \in 1 .. Len(list) : Reverse(list)[i] = list[Len(list) - i + 1]
<1>1. Len(list) \in Nat /\ \A i \in 1 .. Len(list) : list[i] \in S
  OBVIOUS
<1>2. Reverse(list) = [i \in 1 .. Len(list) |-> list[Len(list) - i + 1]]
  BY DEF Reverse
<1>3. \A i \in 1 .. Len(list) : list[Len(list) - i + 1] \in S
  BY <1>1
<1>4. Reverse(list) \in [1 .. Len(list) -> S]
  BY <1>2, <1>3
<1> QED
  BY <1>1, <1>2, <1>4, IsASeq, LenProperties

\* What comes to the head of a list comes to the end of the reversed one.
LEMMA ReverseCons ==
    ASSUME NEW S, NEW list \in Seq(S), NEW e \in S
    PROVE  Reverse(<<e>> \o list) = Append(Reverse(list), e)
<1>0. <<e>> \in Seq(S)
  OBVIOUS
<1>1. PICK new \in Seq(S) : new = <<e>> \o list
  BY <1>0, ConcatProperties
<1>2. /\ Len(list) \in Nat /\ Len(new) = Len(list) + 1
      /\ new[1] = e /\ \A i \in 1 .. Len(list) : new[i + 1] = list[i]
  BY <1>1
<1>3. PICK rev \in Seq(S) : rev = Reverse(list)
  BY ReverseProperties
<1>4. Len(rev) = Len(list) /\ \A i \in 1 .. Len(list) : rev[i] = list[Len(list) - i + 1]
  BY <1>3, ReverseProperties
<1>5. /\ Append(rev, e) \in Seq(S) /\ Len(Append(rev, e)) = Len(list) + 1
      /\ Append(rev, e)[Len(list) + 1] = e
      /\ \A i \in 1 .. Len(list) : Append(rev, e)[i] = rev[i]
  BY <1>2, <1>4
<1>6. /\ Reverse(new) \in Seq(S) /\ Len(Reverse(new)) = Len(list) + 1
      /\ \A i \in 1 .. Len(list) + 1 : Reverse(new)[i] = new[Len(list) + 1 - i + 1]
  BY <1>2, ReverseProperties
<1>7. ASSUME NEW i \in 1 .. Len(list) + 1 PROVE Reverse(new)[i] = Append(rev, e)[i]
  <2>1. CASE i = Len(list) + 1
    BY <1>2, <1>5, <1>6, <2>1
  <2>2. CASE i # Len(list) + 1
    <3>1. i \in 1 .. Len(list) /\ Len(list) - i + 1 \in 1 .. Len(list)
      BY <1>2, <2>2
    <3>2. new[Len(list) + 1 - i + 1] = list[Len(list) - i + 1]
      BY <1>2, <3>1
    <3> QED
      BY <1>4, <1>5, <1>6, <3>1, <3>2
  <2> QED
    BY <2>1, <2>2
<1>8. Reverse(new) = Append(rev, e)
  BY <1>5, <1>6, <1>7, SeqEqual
<1> QED
  BY <1>1, <1>3, <1>8

\* What leaves the end of a list is the head of the reversed one.
LEMMA ReverseFront ==
    ASSUME NEW S, NEW list \in Seq(S), list # <<>>
    PROVE  /\ Reverse(list) # <<>> /\ Head(Reverse(list)) = Last(list)
           /\ Reverse(Front(list)) = Tail(Reverse(list))
<1>1. Len(list) \in Nat \ {0} /\ DOMAIN list = 1 .. Len(list)
  OBVIOUS
<1>2. PICK rev \in Seq(S) : rev = Reverse(list)
  BY ReverseProperties
<1>3. Len(rev) = Len(list) /\ \A i \in 1 .. Len(list) : rev[i] = list[Len(list) - i + 1]
  BY <1>2, ReverseProperties
<1>4. rev # <<>> /\ Head(rev) = Last(list)
  BY <1>1, <1>3 DEF Last
<1>5. /\ Front(list) \in Seq(S) /\ Len(Front(list)) = Len(list) - 1
      /\ \A i \in 1 .. Len(list) - 1 : Front(list)[i] = list[i]
  <2>1. Front(list) \in Seq(S)
    BY FrontEffect
  <2>2. /\ Len(Front(list)) = Len(list) - 1
        /\ \A i \in 1 .. Len(list) - 1 : Front(list)[i] = list[i]
    BY <1>1 DEF Front
  <2> QED
    BY <2>1, <2>2
<1>6. /\ Reverse(Front(list)) \in Seq(S) /\ Len(Reverse(Front(list))) = Len(list) - 1
      /\ \A i \in 1 .. Len(list) - 1 :
            Reverse(Front(list))[i] = Front(list)[Len(list) - 1 - i + 1]
  <2>1. PICK front \in Seq(S) : front = Front(list)
    BY <1>5
  <2>2. /\ Reverse(front) \in Seq(S) /\ Len(Reverse(front)) = Len(front)
        /\ \A i \in 1 .. Len(front) : Reverse(front)[i] = front[Len(front) - i + 1]
    BY <2>1, ReverseProperties
  <2> QED
    BY <1>5, <2>1, <2>2
<1>7. /\ Tail(rev) \in Seq(S) /\ Len(Tail(rev)) = Len(list) - 1
      /\ \A i \in 1 .. Len(list) - 1 : Tail(rev)[i] = rev[i + 1]
  BY <1>1, <1>3, <1>4
<1>8. ASSUME NEW i \in 1 .. Len(list) - 1 PROVE Reverse(Front(list))[i] = Tail(rev)[i]
  <2>1. Len(list) - 1 - i + 1 \in 1 .. Len(list) - 1 /\ i + 1 \in 1 .. Len(list)
    BY <1>1
  <2>2. Reverse(Front(list))[i] = list[Len(list) - 1 - i + 1]
    BY <1>5, <1>6, <2>1
  <2>3. Tail(rev)[i] = list[Len(list) - (i + 1) + 1]
    BY <1>3, <1>7, <2>1
  <2>4. Len(list) - 1 - i + 1 = Len(list) - (i + 1) + 1
    BY <1>1
  <2> QED
    BY <2>2, <2>3, <2>4
<1>9. Reverse(Front(list)) = Tail(rev)
  BY <1>6, <1>7, <1>8, SeqEqual
<1> QED
  BY <1>2, <1>4, <1>9

\* The set of a list that grows at its head, or shrinks at its end.
LEMMA ReverseSets ==
    ASSUME NEW S, NEW list \in Seq(S)
    PROVE  /\ \A e \in S : ToSet(<<e>> \o list) = ToSet(list) \cup {e}
           /\ list # <<>> /\ (\A i \in DOMAIN list : list[i] = Last(list) => i = Len(list))
                 => ToSet(Front(list)) = ToSet(list) \ {Last(list)}
<1>0. Len(list) \in Nat /\ DOMAIN list = 1 .. Len(list)
  OBVIOUS
<1>1. ASSUME NEW e \in S PROVE ToSet(<<e>> \o list) = ToSet(list) \cup {e}
  <2>1. PICK new : new = <<e>> \o list
    OBVIOUS
  <2>2. /\ DOMAIN new = 1 .. Len(list) + 1
        /\ new[1] = e /\ \A i \in 1 .. Len(list) : new[i + 1] = list[i]
    BY <1>0, <2>1
  <2>3. ToSet(new) \subseteq ToSet(list) \cup {e}
    <3>1. ASSUME NEW i \in 1 .. Len(list) + 1, i # 1 PROVE new[i] \in ToSet(list)
      <4>1. i - 1 \in 1 .. Len(list) /\ new[i] = list[i - 1]
        BY <1>0, <2>2, <3>1
      <4> QED
        BY <1>0, <4>1 DEF ToSet
    <3> QED
      BY <2>2, <3>1 DEF ToSet
  <2>4. ToSet(list) \cup {e} \subseteq ToSet(new)
    <3>1. ASSUME NEW i \in 1 .. Len(list) PROVE list[i] \in ToSet(new)
      <4>1. i + 1 \in DOMAIN new /\ new[i + 1] = list[i]
        BY <1>0, <2>2
      <4> QED
        BY <4>1 DEF ToSet
    <3>2. 1 \in DOMAIN new
      BY <1>0, <2>2
    <3>3. e \in ToSet(new)
      BY <2>2, <3>2 DEF ToSet
    <3> QED
      BY <1>0, <3>1, <3>3 DEF ToSet
  <2> QED
    BY <2>1, <2>3, <2>4
<1>2. ASSUME list # <<>>, \A i \in DOMAIN list : list[i] = Last(list) => i = Len(list)
      PROVE  ToSet(Front(list)) = ToSet(list) \ {Last(list)}
  <2>1. Len(list) # 0
    BY <1>0, <1>2
  <2>2. DOMAIN Front(list) = 1 .. Len(list) - 1
        /\ \A i \in 1 .. Len(list) - 1 : Front(list)[i] = list[i]
    BY <1>0, <2>1 DEF Front
  <2>3. \A i \in 1 .. Len(list) : list[i] = Last(list) <=> i = Len(list)
    BY <1>0, <1>2 DEF Last
  <2>4. PICK n \in Nat : n = Len(list)
    BY <1>0
  <2>5. \A i \in 1 .. n - 1 : i \in 1 .. n /\ i # n
    OBVIOUS
  <2>6. \A i \in 1 .. n : i = n \/ i \in 1 .. n - 1
    OBVIOUS
  <2> QED
    BY <1>0, <2>2, <2>3, <2>4, <2>5, <2>6 DEF ToSet
<1> QED
  BY <1>1, <1>2

LEMMA Unseen ==
    ASSUME FifoInv, UNCHANGED <<value, blockedProcessList>>, state'[nowRunning'] = "READY",
           globalid' = globalid \/ globalid' = globalid + 1,
           \A id \in Id : Waiting(id)' = Waiting(id)
    PROVE  Kept
<1>1. globalid \in Int
  BY DEF FifoInv, ListsInv, SemInv, TypeOK
<1>2. ListsExact'
  BY <1>1 DEF FifoInv, ListsExact, Id
<1>3. [id \in Id |-> Waiting(id)]' = [id \in Id |-> Waiting(id)]
  OBVIOUS
<1>4. UNCHANGED Promise!fifoVars
  BY <1>3 DEF Promise!fifoVars
<1> QED
  BY <1>2, <1>4 DEF Kept

\* Processes that only change who has the CPU.
LEMMA UnseenCpu ==
    ASSUME FifoInv, UNCHANGED <<state, blockedReason, value, blockedProcessList>>,
           state[nowRunning'] = "READY", globalid' = globalid \/ globalid' = globalid + 1
    PROVE  Kept
BY Unseen DEF Waiting, BlockedFor, IsBlockedFor

\* waitSem that finds a token takes it; nobody waits.
LEMMA TakeSeen ==
    ASSUME FifoInv, NEW id \in Id, Exists(id), HasToken(id), TakeToken(id),
           UNCHANGED globalid
    PROVE  Kept
<1>t. TypeOK
  BY DEF FifoInv, ListsInv, SemInv
<1>1. UNCHANGED <<state, blockedReason, nowRunning, blockedProcessList>>
      /\ value' = [value EXCEPT ![id] = @ - 1]
  BY DEF TakeToken, processVars
<1>2. \A j \in Id : Waiting(j)' = Waiting(j)
  BY <1>1 DEF Waiting, BlockedFor, IsBlockedFor
<1>3. blockedProcessList[id] = <<>> /\ value[id] > 0 /\ id < globalid
  BY <1>t DEF FifoInv, ListsInv, SemInv, HasToken, Exists, TypeOK, Id
<1>4. ListsExact'
  <2>1. ASSUME NEW j \in Id, j >= globalid PROVE value'[j] = InitialValue
    <3>1. j # id /\ value[j] = InitialValue
      BY <1>t, <1>3, <2>1 DEF FifoInv, ListsExact, TypeOK, Id
    <3> QED
      BY <1>t, <1>1, <3>1 DEF TypeOK
  <2> QED
    BY <1>1, <1>2, <2>1 DEF FifoInv, ListsExact
<1>5. Promise!Take(id)
  <2>1. Reverse(blockedProcessList[id]) = <<>>
    BY <1>3 DEF Reverse
  <2>2. [j \in Id |-> Waiting(j)]' = [j \in Id |-> Waiting(j)]
    BY <1>2
  <2>3. [j \in Id |-> Reverse(blockedProcessList[j])]' = [j \in Id |-> Reverse(blockedProcessList[j])]
    BY <1>1
  <2> QED
    BY <1>1, <1>3, <2>1, <2>2, <2>3 DEF Promise!Take
<1> QED
  BY <1>4, <1>5 DEF Kept, Promise!Next

\* waitSem that does not: its caller joins the queue.
LEMMA JoinSeen ==
    ASSUME FifoInv, NEW id \in Id, Exists(id), ~HasToken(id), WaitForToken(id),
           UNCHANGED globalid
    PROVE  Kept
<1>t. TypeOK /\ nowRunning \in Process /\ state[nowRunning] = "READY"
  BY DEF FifoInv, ListsInv, SemInv, TypeOK, ProcessTypeOK, ListsExact
<1>1. /\ \A p \in Process \ {nowRunning} :
            state'[p] = state[p] /\ blockedReason'[p] = blockedReason[p]
      /\ state'[nowRunning] = "BLOCKED" /\ blockedReason'[nowRunning] = Reason(id)
      /\ state'[nowRunning'] = "READY" /\ value' = value
  BY <1>t DEF WaitForToken, MayBlock, BlockRunning, Dispatch, TypeOK, ProcessTypeOK
<1>2. \A j \in Id : Waiting(j)' = IF j = id THEN Waiting(j) \cup {nowRunning} ELSE Waiting(j)
  <2>1. \A j \in Id : nowRunning \notin Waiting(j)
    BY <1>t DEF Waiting, BlockedFor, IsBlockedFor
  <2>2. \A j \in Id : nowRunning \in Waiting(j)' <=> j = id
    BY <1>t, <1>1, ReasonsDiffer DEF Waiting, BlockedFor, IsBlockedFor
  <2>3. \A j \in Id : \A p \in Process \ {nowRunning} : p \in Waiting(j)' <=> p \in Waiting(j)
    BY <1>1 DEF Waiting, BlockedFor, IsBlockedFor
  <2>4. \A j \in Id : Waiting(j) \subseteq Process /\ Waiting(j)' \subseteq Process
    BY DEF Waiting, BlockedFor
  <2> QED
    BY <1>t, <2>1, <2>2, <2>3, <2>4
<1>3. blockedProcessList' = [blockedProcessList EXCEPT ![id] = <<nowRunning>> \o @]
      /\ DOMAIN blockedProcessList = Id
  BY <1>t DEF WaitForToken, Enlist, TypeOK
<1>4. ListsExact'
  <2>1. ASSUME NEW j \in Id PROVE ToSet(blockedProcessList'[j]) = Waiting(j)'
    <3>1. ToSet(blockedProcessList[j]) = Waiting(j)
      BY DEF FifoInv, ListsExact
    <3>2. CASE j = id
      <4>1. PICK list \in Seq(Process) : list = blockedProcessList[id]
        BY <1>t DEF TypeOK
      <4>2. ToSet(<<nowRunning>> \o list) = ToSet(list) \cup {nowRunning}
        BY <1>t, ReverseSets
      <4> QED
        BY <1>2, <1>3, <3>1, <3>2, <4>1, <4>2
    <3>3. CASE j # id
      BY <1>2, <1>3, <3>1, <3>3
    <3> QED
      BY <3>2, <3>3
  <2> QED
    BY <1>1, <2>1 DEF FifoInv, ListsExact
<1>5. Promise!Join(id, nowRunning)
  <2>1. value[id] = 0 /\ nowRunning \notin Waiting(id)
    BY <1>t DEF HasToken, TypeOK, Waiting, BlockedFor, IsBlockedFor
  <2>2. [j \in Id |-> Waiting(j)]'
          = [[j \in Id |-> Waiting(j)] EXCEPT ![id] = @ \cup {nowRunning}]
    BY <1>2
  <2>3. [j \in Id |-> Reverse(blockedProcessList[j])]'
          = [[j \in Id |-> Reverse(blockedProcessList[j])] EXCEPT ![id] = Append(@, nowRunning)]
    <3>1. Reverse(<<nowRunning>> \o blockedProcessList[id])
            = Append(Reverse(blockedProcessList[id]), nowRunning)
      BY <1>t, ReverseCons DEF TypeOK
    <3>2. \A j \in Id : Reverse(blockedProcessList'[j])
              = IF j = id THEN Append(Reverse(blockedProcessList[id]), nowRunning)
                          ELSE Reverse(blockedProcessList[j])
      BY <1>3, <3>1
    <3> QED
      BY <3>2
  <2> QED
    BY <1>1, <2>1, <2>2, <2>3 DEF Promise!Join
<1> QED
  BY <1>t, <1>4, <1>5 DEF Kept, Promise!Next

\* postSem that wakes gives its token to the first of the queue.
LEMMA GiveSeen ==
    ASSUME FifoInv, NEW id \in Id, SomebodyWaits(id), WakeOldest(id), UNCHANGED globalid
    PROVE  Kept
<1>t. TypeOK /\ nowRunning \in Process /\ state[nowRunning] = "READY"
  BY DEF FifoInv, ListsInv, SemInv, TypeOK, ProcessTypeOK, ListsExact
<1>1. PICK list \in Seq(Process) : list = blockedProcessList[id] /\ list # <<>>
  BY <1>t DEF TypeOK, SomebodyWaits
<1>p. PICK p \in Process : p = Last(list) /\ p \in ToSet(list)
  <2>1. Len(list) \in DOMAIN list /\ Last(list) = list[Len(list)] /\ Last(list) \in Process
    BY <1>1 DEF Last
  <2> QED
    BY <2>1 DEF ToSet
<1>2. p \in Waiting(id) /\ IsBlockedFor(p, Reason(id)) /\ p # nowRunning
  BY <1>t, <1>1, <1>p DEF FifoInv, ListsExact, Waiting, BlockedFor, IsBlockedFor
<1>3. /\ state'[p] = "READY" /\ UNCHANGED <<nowRunning, value>>
      /\ \A q \in Process \ {p} :
            state'[q] = state[q] /\ blockedReason'[q] = blockedReason[q]
  <2>1. Change({p}, {}) /\ UNCHANGED <<nowRunning, value>>
    BY <1>1, <1>p, <1>2 DEF WakeOldest, Unblock, Wake
  <2>2. /\ \A q \in Process : q \in {p} \ {} => state'[q] = "READY"
        /\ \A q \in Process : q \notin {p} \cup {} =>
              state'[q] = state[q] /\ blockedReason'[q] = blockedReason[q]
    BY <2>1 DEF Change
  <2> QED
    BY <2>1, <2>2
<1>4. \A j \in Id : Waiting(j)' = IF j = id THEN Waiting(j) \ {p} ELSE Waiting(j)
  <2>1. \A j \in Id : p \in Waiting(j) <=> j = id
    BY <1>2, ReasonsDiffer DEF Waiting, BlockedFor, IsBlockedFor
  <2>2. \A j \in Id : p \notin Waiting(j)'
    BY <1>3 DEF Waiting, BlockedFor, IsBlockedFor
  <2>3. \A j \in Id : \A q \in Process \ {p} : q \in Waiting(j)' <=> q \in Waiting(j)
    BY <1>3 DEF Waiting, BlockedFor, IsBlockedFor
  <2>4. \A j \in Id : Waiting(j) \subseteq Process /\ Waiting(j)' \subseteq Process
    BY DEF Waiting, BlockedFor
  <2>5. \A j \in Id : Waiting(j)' = Waiting(j) \ {p}
    BY <2>2, <2>3, <2>4
  <2> QED
    BY <2>1, <2>5
<1>5. /\ blockedProcessList' = [blockedProcessList EXCEPT ![id] = Front(@)]
      /\ DOMAIN blockedProcessList = Id
  BY <1>t DEF WakeOldest, TypeOK
<1>6. ListsExact'
  <2>1. ASSUME NEW j \in Id PROVE ToSet(blockedProcessList'[j]) = Waiting(j)'
    <3>1. ToSet(blockedProcessList[j]) = Waiting(j)
      BY DEF FifoInv, ListsExact
    <3>2. CASE j = id
      <4>1. \A i \in DOMAIN list : list[i] = Last(list) => i = Len(list)
        <5>1. Len(list) \in DOMAIN list /\ list[Len(list)] = Last(list)
          BY <1>1 DEF Last
        <5>2. state[list[Len(list)]] # "FINISHED"
          BY <1>p, <1>2, <5>1 DEF IsBlockedFor
        <5> QED
          BY <1>1, <5>1, <5>2 DEF FifoInv, ListsInv, ListOK
      <4>2. ToSet(Front(list)) = ToSet(list) \ {p}
        BY <1>1, <1>p, <4>1, ReverseSets
      <4> QED
        BY <1>1, <1>4, <1>5, <3>1, <3>2, <4>2
    <3>3. CASE j # id
      BY <1>4, <1>5, <3>1, <3>3
    <3> QED
      BY <3>2, <3>3
  <2> QED
    BY <1>t, <1>2, <1>3, <2>1 DEF FifoInv, ListsExact
<1>7. Promise!GiveToFirst(id)
  <2>1. /\ Reverse(list) # <<>> /\ Head(Reverse(list)) = p
        /\ Reverse(Front(list)) = Tail(Reverse(list))
    BY <1>1, <1>p, ReverseFront
  <2>2. [j \in Id |-> Waiting(j)]' = [[j \in Id |-> Waiting(j)] EXCEPT ![id] = @ \ {p}]
    BY <1>4
  <2>3. [j \in Id |-> Reverse(blockedProcessList[j])]'
          = [[j \in Id |-> Reverse(blockedProcessList[j])] EXCEPT ![id] = Tail(@)]
    <3>1. \A j \in Id : Reverse(blockedProcessList'[j])
              = IF j = id THEN Tail(Reverse(list)) ELSE Reverse(blockedProcessList[j])
      BY <1>1, <1>5, <2>1
    <3> QED
      BY <1>1, <3>1
  <2> QED
    BY <1>1, <1>3, <2>1, <2>2, <2>3 DEF Promise!GiveToFirst
<1> QED
  BY <1>6, <1>7 DEF Kept, Promise!Next

\* postSem that finds nobody gives the token back.
LEMMA GiveBackSeen ==
    ASSUME FifoInv, NEW id \in Id, Exists(id), ~SomebodyWaits(id),
           value' = [value EXCEPT ![id] = @ + 1],
           UNCHANGED <<processVars, blockedProcessList, globalid>>
    PROVE  Kept
<1>t. TypeOK
  BY DEF FifoInv, ListsInv, SemInv
<1>1. UNCHANGED <<state, blockedReason, nowRunning>>
  BY DEF processVars
<1>2. \A j \in Id : Waiting(j)' = Waiting(j)
  BY <1>1 DEF Waiting, BlockedFor, IsBlockedFor
<1>3. blockedProcessList[id] = <<>> /\ id < globalid
  BY <1>t DEF FifoInv, ListsInv, SemInv, SomebodyWaits, Exists, TypeOK, Id
<1>4. ListsExact'
  <2>1. ASSUME NEW j \in Id, j >= globalid PROVE value'[j] = InitialValue
    <3>1. j # id /\ value[j] = InitialValue
      BY <1>t, <1>3, <2>1 DEF FifoInv, ListsExact, TypeOK, Id
    <3> QED
      BY <1>t, <3>1 DEF TypeOK
  <2> QED
    BY <1>1, <1>2, <2>1 DEF FifoInv, ListsExact
<1>5. Promise!GiveBack(id)
  <2>1. Reverse(blockedProcessList[id]) = <<>>
    BY <1>3 DEF Reverse
  <2>2. [j \in Id |-> Waiting(j)]' = [j \in Id |-> Waiting(j)]
    BY <1>2
  <2>3. [j \in Id |-> Reverse(blockedProcessList[j])]'
          = [j \in Id |-> Reverse(blockedProcessList[j])]
    OBVIOUS
  <2> QED
    BY <2>1, <2>2, <2>3 DEF Promise!GiveBack
<1> QED
  BY <1>4, <1>5 DEF Kept, Promise!Next

\* closeSem of a semaphore for which nobody sleeps: its list was empty.
LEMMA CloseUnseen ==
    ASSUME SleepersLeftAlone, FifoInv, NEW id \in Id, CloseSem(id)
    PROVE  Kept
<1>t. TypeOK
  BY DEF FifoInv, ListsInv, SemInv
<1>1. Waiting(id) = {}
  BY DEF CloseSem, SleepersLeftAlone, Waiting
<1>2. blockedProcessList[id] = <<>>
  <2>1. PICK list \in Seq(Process) : list = blockedProcessList[id]
    BY <1>t DEF TypeOK
  <2>2. \A i \in DOMAIN list : list[i] \in ToSet(list)
    BY DEF ToSet
  <2>3. ToSet(list) = {}
    BY <1>1, <2>1 DEF FifoInv, ListsExact
  <2>4. DOMAIN list = {} /\ DOMAIN list = 1 .. Len(list) /\ Len(list) \in Nat
    BY <2>1, <2>2, <2>3
  <2>5. Len(list) = 0
    BY <2>4
  <2> QED
    BY <2>1, <2>5, EmptySeq
<1>3. UNCHANGED blockedProcessList
  BY <1>t, <1>2 DEF CloseSem, TypeOK
<1>4. UNCHANGED <<processVars, value, globalid>>
  BY DEF CloseSem
<1> QED
  BY <1>3, <1>4, UnseenCpu DEF FifoInv, ListsExact, processVars

\* exit: the running process was not asleep.
LEMMA ExitUnseen ==
    ASSUME FifoInv, Exit
    PROVE  Kept
<1>t. nowRunning \in Process /\ state[nowRunning] = "READY"
  BY DEF FifoInv, ListsInv, SemInv, TypeOK, ProcessTypeOK, ListsExact
<1>1. /\ state'[nowRunning] = "FINISHED" /\ state'[nowRunning'] = "READY"
      /\ \A p \in Process \ {nowRunning} :
            state'[p] = state[p] /\ blockedReason'[p] = blockedReason[p]
  BY <1>t DEF Exit, Change, Dispatch
<1>2. ASSUME NEW id \in Id PROVE Waiting(id)' = Waiting(id)
  BY <1>t, <1>1 DEF Waiting, BlockedFor, IsBlockedFor
<1> QED
  BY <1>1, <1>2, Unseen DEF Exit, semVars

LEMMA StepKept ==
    ASSUME SleepersLeftAlone, FifoInv, [Next]_semaphoreVars
    PROVE  Kept
<1>r. state[nowRunning] = "READY" /\ lock = 0 /\ lockListPid = 0
      /\ \A id \in Id : semLock[id] = 0
  BY DEF FifoInv, ListsExact, LocksFree
<1>1. CASE UNCHANGED semaphoreVars
  BY <1>r, <1>1, UnseenCpu DEF semaphoreVars, processVars, semVars
<1>2. ASSUME NEW n \in Name, InitializeSemaphore(n) PROVE Kept
  <2>1. Create(n) /\ globalid' = globalid + 1 /\ UNCHANGED processVars
    BY <1>2, <1>r DEF InitializeSemaphore, CreateOutOfMemory, SleepersLeftAlone
  <2>2. value' = value
    <3>1. globalid \in Id /\ value[globalid] = InitialValue
      BY <1>2 DEF InitializeSemaphore, FifoInv, ListsInv, SemInv, TypeOK, ListsExact, Id
    <3> QED
      BY <2>1, <3>1 DEF Create, FifoInv, ListsInv, SemInv, TypeOK
  <2> QED
    BY <1>r, <2>1, <2>2, UnseenCpu DEF Create, processVars
<1>3. ASSUME NEW id \in Id, WaitSem(id) PROVE Kept
  <2>0. Exists(id)
    BY <1>3 DEF WaitSem
  <2>1. CASE HasToken(id) /\ TakeToken(id) /\ UNCHANGED <<globalid, lock, lockListPid, hung>>
    BY <2>0, <2>1, TakeSeen
  <2>2. CASE /\ ~HasToken(id) /\ (WaitForToken(id) \/ WaitOutOfMemory(id))
             /\ UNCHANGED <<globalid, lock, lockListPid, hung>>
    BY <2>0, <2>2, JoinSeen DEF WaitOutOfMemory, SleepersLeftAlone
  <2> QED
    BY <1>3, <1>r, <2>1, <2>2 DEF WaitSem
<1>4. ASSUME NEW id \in Id, PostSem(id) PROVE Kept
  <2>0. Exists(id)
    BY <1>4 DEF PostSem
  <2>1. CASE /\ SomebodyWaits(id) /\ WakeOldest(id)
             /\ holds' = [holds EXCEPT ![nowRunning] = @ \ {id}]
             /\ UNCHANGED <<name, semLock, globalid, lock, waitingIn, hung>>
    BY <2>1, GiveSeen
  <2>2. CASE /\ ~SomebodyWaits(id)
             /\ value' = [value EXCEPT ![id] = @ + 1]
             /\ UNCHANGED <<processVars, blockedProcessList, lockListPid>>
             /\ holds' = [holds EXCEPT ![nowRunning] = @ \ {id}]
             /\ UNCHANGED <<name, semLock, globalid, lock, waitingIn, hung>>
    BY <2>0, <2>2, GiveBackSeen
  <2> QED
    BY <1>4, <1>r, <2>1, <2>2 DEF PostSem
<1>5. ASSUME NEW id \in Id, CloseSem(id) PROVE Kept
  BY <1>5, CloseUnseen
<1>6. CASE ResumeWait
  BY <1>r, <1>6, UnseenCpu DEF ResumeWait, processVars, semVars
<1>7. CASE Exit \/ (\E p \in Process : KillProcess(p)) \/ Escape
  BY <1>7, ExitUnseen DEF KillProcess, Escape, SleepersLeftAlone
<1>8. ASSUME NEW p \in Process, Tick(p) PROVE Kept
  BY <1>8, UnseenCpu DEF Tick, Dispatch, semVars
<1> QED
  BY <1>1, <1>2, <1>3, <1>4, <1>5, <1>6, <1>7, <1>8 DEF Next

\* A semaphore is a first-come, first-served counter of tokens, for every number of
\* processes: the list that is kept newest first and walked to its end, and the states
\* the scheduler keeps, move together.
THEOREM FirstComeFirstServed == ASSUME SleepersLeftAlone PROVE Spec => ImplementsFifo
<1>1. Init => Promise!Init /\ ListsExact
  <2> SUFFICES ASSUME Init PROVE Promise!Init /\ ListsExact
    OBVIOUS
  <2>1. \A id \in Id : Waiting(id) = {} /\ ToSet(blockedProcessList[id]) = {}
    BY DEF Init, Waiting, BlockedFor, IsBlockedFor, ToSet
  <2>2. \A id \in Id : Reverse(blockedProcessList[id]) = <<>>
    BY DEF Init, Reverse
  <2> QED
    BY <2>1, <2>2, ProcessAssumption DEF Init, ListsExact, Promise!Init
<1>2. ListsInv /\ LocksFree /\ ListsExact /\ [Next]_semaphoreVars
        => ListsExact' /\ [Promise!Next]_(Promise!fifoVars)
  BY StepKept DEF FifoInv, Kept
<1>3. MemoryLasts
  BY DEF SleepersLeftAlone, MemoryLasts
<1>4. Spec => []LocksFree
  BY <1>3, LocksFreeHolds
<1> QED
  BY <1>1, <1>2, <1>4, ListsInvHolds, PTL DEF Spec, ImplementsFifo, Promise!Spec
=============================================================================

-------------------------- MODULE SchedulerProofs ---------------------------
(***************************************************************************)
(* Proofs about Scheduler, for every number of processes and priorities.   *)
(* The lists of the code and the types come first; then IndInv, which is   *)
(* inductive in the workloads Regular describes, and what follows from it: *)
(* the scheduler implements ProcessFamily, each step being one step of the *)
(* promise or invisible to it; the scan for the next process ends; the     *)
(* death list of the ESC key holds living processes only.                  *)
(***************************************************************************)
EXTENDS Scheduler, NaturalMinMax, SequenceTheorems, TLAPS

-----------------------------------------------------------------------------
(* Lists.                                                                  *)

\* Unlinking a node shifts the nodes behind it by one place.
LEMMA UnlinkElements ==
    ASSUME NEW S, NEW list \in Seq(S), NEW p \in ToSet(list)
    PROVE  LET k == IndexIn(list, p)
               u == Unlink(list, p)
           IN  /\ k \in 1 .. Len(list) /\ list[k] = p
               /\ u \in Seq(S) /\ Len(u) = Len(list) - 1
               /\ \A i \in 1 .. Len(list) - 1 :
                     u[i] = IF i < k THEN list[i] ELSE list[i + 1]
<1> DEFINE k == IndexIn(list, p)
           n == Len(list)
           a == SubSeq(list, 1, k - 1)
           b == SubSeq(list, k + 1, n)
           u == Unlink(list, p)
<1>1. n \in Nat /\ DOMAIN list = 1 .. n /\ \A i \in 1 .. n : list[i] \in S
  BY LenProperties, ElementOfSeq
<1>2. k \in 1 .. n /\ list[k] = p
  <2>1. \E i \in DOMAIN list : list[i] = p
    BY DEF ToSet
  <2> QED
    BY <2>1, <1>1 DEF IndexIn
<1> HIDE DEF k
<1>3. /\ a \in Seq(S) /\ Len(a) = k - 1
      /\ \A i \in 1 .. k - 1 : a[i] = list[i]
  <2>1. \A i \in 1 .. k - 1 : list[i] \in S
    BY <1>1, <1>2
  <2>2. 1 \in Int /\ k - 1 \in Int
    BY <1>1, <1>2
  <2>3. /\ SubSeq(list, 1, k - 1) \in Seq(S)
        /\ Len(SubSeq(list, 1, k - 1)) = IF 1 <= k - 1 THEN k - 1 - 1 + 1 ELSE 0
        /\ \A i \in 1 .. k - 1 - 1 + 1 : SubSeq(list, 1, k - 1)[i] = list[1 + i - 1]
    BY ONLY <2>1, <2>2, SubSeqProperties
  <2>4. ASSUME NEW i \in 1 .. k - 1 PROVE a[i] = list[i]
    <3>1. i \in 1 .. k - 1 - 1 + 1 /\ 1 + i - 1 = i
      BY <1>1, <1>2
    <3> QED
      BY <2>3, <3>1
  <2> QED
    BY <2>3, <2>4, <1>1, <1>2
<1>4. /\ b \in Seq(S) /\ Len(b) = n - k
      /\ \A i \in 1 .. n - k : b[i] = list[k + i]
  <2>1. \A i \in k + 1 .. n : list[i] \in S
    BY <1>1, <1>2
  <2>2. n \in Int /\ k + 1 \in Int
    BY <1>1, <1>2
  <2>3. /\ SubSeq(list, k + 1, n) \in Seq(S)
        /\ Len(SubSeq(list, k + 1, n)) = IF k + 1 <= n THEN n - (k + 1) + 1 ELSE 0
        /\ \A i \in 1 .. n - (k + 1) + 1 :
              SubSeq(list, k + 1, n)[i] = list[k + 1 + i - 1]
    BY ONLY <2>1, <2>2, SubSeqProperties
  <2>4. ASSUME NEW i \in 1 .. n - k PROVE b[i] = list[k + i]
    <3>1. i \in 1 .. n - (k + 1) + 1 /\ k + 1 + i - 1 = k + i
      BY <1>1, <1>2
    <3> QED
      BY <2>3, <3>1
  <2>5. (IF k + 1 <= n THEN n - (k + 1) + 1 ELSE 0) = n - k
    <3> HIDE DEF n
    <3>1. CASE k = n
      BY <3>1, <1>1, <1>2
    <3>2. CASE k < n
      BY <3>2, <1>1, <1>2
    <3> QED
      BY <3>1, <3>2, <1>1, <1>2
  <2>6. Len(b) = n - k
    BY <2>3, <2>5
  <2> QED
    BY <2>3, <2>4, <2>6
<1>5. u = a \o b
  BY DEF Unlink, RemoveAt, k
<1> HIDE DEF a, b, u
<1>6. /\ u \in Seq(S) /\ Len(u) = n - 1
      /\ \A i \in 1 .. n - 1 : u[i] = IF i < k THEN list[i] ELSE list[i + 1]
  <2>1. /\ a \o b \in Seq(S)
        /\ Len(a \o b) = Len(a) + Len(b)
        /\ \A i \in 1 .. Len(a) + Len(b) :
              (a \o b)[i] = IF i <= Len(a) THEN a[i] ELSE b[i - Len(a)]
    BY <1>3, <1>4, ConcatProperties
  <2>2. Len(a) + Len(b) = n - 1
    BY <1>1, <1>2, <1>3, <1>4
  <2>3. ASSUME NEW i \in 1 .. n - 1
        PROVE  u[i] = IF i < k THEN list[i] ELSE list[i + 1]
    <3>1. CASE i < k
      BY <3>1, <2>1, <2>2, <1>1, <1>2, <1>3, <1>5
    <3>2. CASE i >= k
      <4>1. u[i] = b[i - (k - 1)]
        BY <3>2, <2>1, <2>2, <1>1, <1>2, <1>3, <1>5
      <4>2. i - (k - 1) \in 1 .. n - k /\ k + (i - (k - 1)) = i + 1
        BY <3>2, <1>1, <1>2
      <4> QED
        BY <4>1, <4>2, <3>2, <1>1, <1>2, <1>4
    <3> QED
      BY <3>1, <3>2, <1>1, <1>2
  <2> QED
    BY <2>1, <2>2, <2>3, <1>5
<1> QED
  BY <1>1, <1>2, <1>6 DEF u, k

\* A list of processes stays one when a node is unlinked.
LEMMA UnlinkType ==
    ASSUME NEW S, NEW list \in Seq(S), NEW p
    PROVE  Unlink(list, p) \in Seq(S)
<1>1. CASE p \notin ToSet(list)
  BY <1>1 DEF Unlink
<1>2. CASE p \in ToSet(list)
  BY <1>2, UnlinkElements
<1> QED
  BY <1>1, <1>2

\* Unlinking a node (changePriority, removeFromList) yields a list without
\* repetitions, without that node and with all the others.
LEMMA UnlinkProperties ==
    ASSUME NEW S, NEW list \in Seq(S), NEW p, NoRepeats(list)
    PROVE  /\ NoRepeats(Unlink(list, p))
           /\ ToSet(Unlink(list, p)) = ToSet(list) \ {p}
<1>1. CASE p \notin ToSet(list)
  BY <1>1 DEF Unlink
<1>2. CASE p \in ToSet(list)
  <2> DEFINE k == IndexIn(list, p)
             n == Len(list)
             u == Unlink(list, p)
  <2>1. n \in Nat /\ DOMAIN list = 1 .. n /\ \A i \in 1 .. n : list[i] \in S
    BY LenProperties, ElementOfSeq
  <2>2. k \in 1 .. n /\ list[k] = p
    BY <1>2, UnlinkElements
  <2>6. /\ u \in Seq(S) /\ Len(u) = n - 1
        /\ \A i \in 1 .. n - 1 : u[i] = IF i < k THEN list[i] ELSE list[i + 1]
    BY <1>2, UnlinkElements
  <2> HIDE DEF k, u
  <2>7. DOMAIN u = 1 .. n - 1
    BY <2>6, LenProperties
  <2>8. NoRepeats(u)
    <3> DEFINE from(i) == IF i < k THEN i ELSE i + 1
    <3>1. \A i \in 1 .. n - 1 : from(i) \in 1 .. n /\ u[i] = list[from(i)]
      BY <2>1, <2>2, <2>6
    <3>2. \A i, j \in 1 .. n - 1 : from(i) = from(j) => i = j
      BY <2>1, <2>2
    <3> HIDE DEF from
    <3>3. \A i, j \in 1 .. n : list[i] = list[j] => i = j
      BY <2>1 DEF NoRepeats
    <3> QED
      BY <2>7, <3>1, <3>2, <3>3 DEF NoRepeats
  <2>9. ToSet(u) = ToSet(list) \ {p}
    <3>1. ASSUME NEW i \in 1 .. n - 1
          PROVE  u[i] \in ToSet(list) \ {p}
      <4> DEFINE j == IF i < k THEN i ELSE i + 1
      <4>1. j \in 1 .. n /\ j # k
        BY <2>1, <2>2
      <4>2. u[i] = list[j]
        BY <2>6
      <4> HIDE DEF j
      <4>3. list[j] # p
        BY <4>1, <2>1, <2>2 DEF NoRepeats
      <4> QED
        BY <4>1, <4>2, <4>3, <2>1 DEF ToSet
    <3>2. ASSUME NEW x \in ToSet(list), x # p
          PROVE  x \in ToSet(u)
      <4>1. PICK j \in 1 .. n : list[j] = x
        BY <2>1, <3>2 DEF ToSet
      <4>2. CASE j < k
        <5>1. j \in 1 .. n - 1
          BY <4>1, <4>2, <2>1, <2>2
        <5>2. u[j] = x
          BY <5>1, <4>1, <4>2, <2>6
        <5> QED
          BY <5>1, <5>2, <2>7 DEF ToSet
      <4>3. CASE j > k
        <5>1. j - 1 \in 1 .. n - 1 /\ ~(j - 1 < k) /\ (j - 1) + 1 = j
          BY <4>1, <4>3, <2>1, <2>2
        <5>2. u[j - 1] = x
          BY <5>1, <4>1, <2>6
        <5> QED
          BY <5>1, <5>2, <2>7 DEF ToSet
      <4>4. j # k
        BY <4>1, <3>2, <2>2
      <4> QED
        BY <4>2, <4>3, <4>4, <2>1, <2>2
    <3> QED
      BY <3>1, <3>2, <2>7 DEF ToSet
  <2> QED
    BY <2>8, <2>9 DEF u
<1> QED
  BY <1>1, <1>2

\* A list of processes stays one when a node enters at the head.
LEMMA PushType ==
    ASSUME NEW S, NEW list \in Seq(S), NEW p \in S
    PROVE  <<p>> \o list \in Seq(S)
<1>1. [i \in 1 .. 1 |-> p] \in Seq(S)
  BY IsASeq
<1>2. <<p>> \in Seq(S)
  BY <1>1
<1> QED
  BY <1>2, ConcatProperties

\* A node entering at the head (startProcess, changePriority) is added to the list.
LEMMA PushProperties ==
    ASSUME NEW S, NEW list \in Seq(S), NEW p \in S, NoRepeats(list),
           p \notin ToSet(list)
    PROVE  /\ <<p>> \o list \in Seq(S)
           /\ NoRepeats(<<p>> \o list)
           /\ ToSet(<<p>> \o list) = ToSet(list) \cup {p}
<1> DEFINE n == Len(list)
           u == <<p>> \o list
<1>1. n \in Nat /\ DOMAIN list = 1 .. n
  BY LenProperties
<1>2. <<p>> \in Seq(S) /\ Len(<<p>>) = 1 /\ <<p>>[1] = p
  <2>1. [i \in 1 .. 1 |-> p] \in Seq(S)
    BY IsASeq
  <2> QED
    BY <2>1
<1>3. /\ u \in Seq(S) /\ Len(u) = 1 + n
      /\ \A i \in 1 .. 1 + n : u[i] = IF i <= 1 THEN <<p>>[i] ELSE list[i - 1]
  BY <1>2, ConcatProperties
<1>4. DOMAIN u = 1 .. 1 + n
  BY <1>3, LenProperties
<1> HIDE DEF u, n
<1>5. u[1] = p /\ \A i \in 1 .. n : u[i + 1] = list[i]
  BY <1>1, <1>2, <1>3
<1>6. NoRepeats(u)
  <2>1. \A i \in 1 .. n : list[i] # p
    BY <1>1 DEF ToSet
  <2>2. ASSUME NEW i \in 1 .. 1 + n, NEW j \in 1 .. 1 + n, u[i] = u[j], i < j
        PROVE  FALSE
    <3>1. j - 1 \in 1 .. n /\ u[j] = list[j - 1]
      BY <1>1, <1>3, <2>2
    <3>2. CASE i = 1
      BY <1>5, <2>1, <2>2, <3>1, <3>2
    <3>3. CASE i > 1
      <4>1. i - 1 \in 1 .. n /\ u[i] = list[i - 1]
        BY <1>1, <1>3, <3>3
      <4>2. i - 1 = j - 1
        BY <1>1, <2>2, <3>1, <4>1 DEF NoRepeats
      <4> QED
        BY <4>2, <2>2, <1>1
    <3> QED
      BY <3>2, <3>3, <1>1
  <2>3. ASSUME NEW i \in 1 .. 1 + n, NEW j \in 1 .. 1 + n, u[i] = u[j]
        PROVE  i = j
    <3>1. ~(i < j) /\ ~(j < i)
      BY <2>2, <2>3
    <3> QED
      BY <3>1, <1>1
  <2> QED
    BY <2>3, <1>4 DEF NoRepeats
<1>7. ToSet(u) = ToSet(list) \cup {p}
  <2>1. ASSUME NEW i \in 1 .. 1 + n PROVE u[i] \in ToSet(list) \cup {p}
    <3>1. CASE i = 1
      BY <3>1, <1>5
    <3>2. CASE i > 1
      <4>1. i - 1 \in 1 .. n /\ u[i] = list[i - 1]
        BY <1>1, <1>3, <3>2
      <4> QED
        BY <4>1, <1>1 DEF ToSet
    <3> QED
      BY <3>1, <3>2, <1>1
  <2>2. p \in ToSet(u)
    <3>1. 1 \in 1 .. 1 + n
      BY <1>1
    <3> QED
      BY <3>1, <1>4, <1>5 DEF ToSet
  <2>3. ASSUME NEW i \in 1 .. n PROVE list[i] \in ToSet(u)
    <3>1. i + 1 \in 1 .. 1 + n /\ u[i + 1] = list[i]
      BY <1>1, <1>5
    <3> QED
      BY <3>1, <1>4 DEF ToSet
  <2> QED
    BY <2>1, <2>2, <2>3, <1>1, <1>4 DEF ToSet
<1> QED
  BY <1>3, <1>6, <1>7 DEF u

-----------------------------------------------------------------------------
(* Types.                                                                  *)

\* The uint8_t truncation of a ppid yields a pid or NULL.
LEMMA PpidTruncation ==
    ASSUME NEW p \in Pid
    PROVE  /\ p % PPID_RANGE \in PidOrNull
           /\ MaxPid < PPID_RANGE => p % PPID_RANGE = p
<1> USE MaxPidAssumption, PpidRangeAssumption
<1>1. p % PPID_RANGE \in 0 .. PPID_RANGE - 1
  BY DEF Pid
<1>2. CASE p < PPID_RANGE
  <2>1. p % PPID_RANGE = p
    BY <1>2 DEF Pid
  <2> QED
    BY <2>1 DEF Pid, PidOrNull
<1>3. CASE p >= PPID_RANGE
  <2>1. p % PPID_RANGE < p
    BY <1>1, <1>3 DEF Pid
  <2> QED
    BY <1>1, <1>3, <2>1 DEF Pid, PidOrNull
<1> QED
  BY <1>2, <1>3 DEF Pid

\* scheduler() keeps every quantum in 0 .. PRIORITY_COUNT and gives the CPU to
\* a process that is READY, or leaves it where it is.
LEMMA DispatchProperties ==
    ASSUME NEW st \in [Pid -> {"NONE", "READY", "BLOCKED", "FINISHED"}],
           NEW quantum \in [Pid -> 0 .. PRIORITY_COUNT],
           priority \in [Pid -> Priority], nowRunning \in Pid,
           Dispatch(st, quantum)
    PROVE  /\ remainingQuantum' \in [Pid -> 0 .. PRIORITY_COUNT]
           /\ nowRunning' \in Pid
           /\ st[nowRunning'] = "READY"
<1> USE PriorityAssumption
<1>1. CASE MayContinue(st, quantum)
  BY <1>1 DEF Dispatch, MayContinue
<1>2. CASE ~MayContinue(st, quantum)
  <2>1. nowRunning' \in FindNextProcess(st)
    BY <1>2 DEF Dispatch
  <2>2. PRIORITY_COUNT - priority[nowRunning] \in 0 .. PRIORITY_COUNT
    BY DEF Priority
  <2>3. remainingQuantum' \in [Pid -> 0 .. PRIORITY_COUNT]
    BY <1>2, <2>2 DEF Dispatch
  <2> QED
    BY <2>1, <2>3 DEF FindNextProcess
<1> QED
  BY <1>1, <1>2

\* What every action below needs to know of the constants and of the types.
LEMMA ConstantTypes ==
    /\ InitPid \in Pid /\ NULL \notin Pid /\ Pid \subseteq PidOrNull
    /\ NULL \in PidOrNull /\ 0 \in Priority
    /\ \A p \in PidOrNull : p # NULL => p \in Pid
    /\ \A p \in Pid : p + 1 \in 1 .. MaxPid + 1
    /\ \A pr \in Priority : PRIORITY_COUNT - pr \in 0 .. PRIORITY_COUNT
    /\ NoBlock \in BlockedReason
    /\ \A s \in Source, c \in Int : [source |-> s, id |-> c] \in BlockedReason
BY MaxPidAssumption, PriorityAssumption
   DEF Pid, PidOrNull, InitPid, NULL, Priority, NoBlock, BlockedReason, Source

\* _killProcess keeps the types.
LEMMA KillAllType ==
    ASSUME TypeOK, NEW K \in SUBSET Pid, KillAll(K)
    PROVE  /\ state' \in [Pid -> {"NONE", "READY", "BLOCKED", "FINISHED"}]
           /\ blockedReason' \in [Pid -> BlockedReason]
           /\ blockedProcesses' \in [Source -> SUBSET Pid]
           /\ deathList' \in SUBSET Pid
<1>1. state' \in [Pid -> {"NONE", "READY", "BLOCKED", "FINISHED"}]
  BY DEF TypeOK, KillAll, StateAfterKill, WithReady
<1>2. blockedReason' \in [Pid -> BlockedReason]
  BY ConstantTypes DEF TypeOK, KillAll, ClearReasons
<1>3. blockedProcesses' \in [Source -> SUBSET Pid]
  BY DEF TypeOK, KillAll, LeaveBlockedLists
<1> QED
  BY <1>1, <1>2, <1>3 DEF TypeOK, KillAll

\* startProcess keeps the types.
LEMMA StartProcessType ==
    ASSUME TypeOK, NEW prio \in Priority, NEW parent \in Pid, NEW dies \in BOOLEAN,
           StartProcess(prio, parent, dies), schedulerRunning' \in BOOLEAN
    PROVE  TypeOK'
<1> USE DEF StartProcess
<1>1. pidToGive \in Pid
  BY MaxPidAssumption DEF TypeOK, Pid
<1>2. parent % PPID_RANGE \in PidOrNull
  BY PpidTruncation
<1>3. <<pidToGive>> \o processes[prio] \in Seq(Pid)
  BY <1>1, PushType DEF TypeOK
<1>4. processes' \in [Priority -> Seq(Pid)]
  BY <1>3 DEF TypeOK
<1>5. deathList' \in SUBSET Pid
  <2>1. ASSUME NEW list \in AfterAdd(deathList, pidToGive) PROVE list \in SUBSET Pid
    BY <1>1 DEF TypeOK, AfterAdd
  <2> QED
    BY <2>1 DEF TypeOK
<1>6. pidToGive' \in 1 .. MaxPid + 1
  BY <1>1, ConstantTypes
<1>7. /\ state' \in [Pid -> {"NONE", "READY", "BLOCKED", "FINISHED"}]
      /\ ppid' \in [Pid -> PidOrNull]
      /\ priority' \in [Pid -> Priority]
      /\ remainingQuantum' \in [Pid -> 0 .. PRIORITY_COUNT]
      /\ children' \in [Pid -> SUBSET Pid]
  <2>1. PRIORITY_COUNT - prio \in 0 .. PRIORITY_COUNT
    BY ConstantTypes
  <2>2. remainingQuantum' \in [Pid -> 0 .. PRIORITY_COUNT]
    BY <2>1 DEF TypeOK
  <2>3. /\ state' \in [Pid -> {"NONE", "READY", "BLOCKED", "FINISHED"}]
        /\ priority' \in [Pid -> Priority]
    BY DEF TypeOK
  <2>4. ppid' \in [Pid -> PidOrNull]
    BY <1>2 DEF TypeOK
  <2>5. children' \in [Pid -> SUBSET Pid]
    BY <1>1 DEF TypeOK
  <2> QED
    BY <2>2, <2>3, <2>4, <2>5
<1> QED
  BY <1>4, <1>5, <1>6, <1>7 DEF TypeOK

\* blockProcessWithReason keeps the types.
LEMMA BlockAndDispatchType ==
    ASSUME TypeOK, nowRunning \in Pid, NEW p \in Pid, NEW reason \in BlockedReason,
           reason.source \in Source, BlockAndDispatch(p, reason)
    PROVE  /\ state' \in [Pid -> {"NONE", "READY", "BLOCKED", "FINISHED"}]
           /\ blockedReason' \in [Pid -> BlockedReason]
           /\ blockedProcesses' \in [Source -> SUBSET Pid]
           /\ remainingQuantum' \in [Pid -> 0 .. PRIORITY_COUNT]
           /\ nowRunning' \in Pid
<1>1. state' \in [Pid -> {"NONE", "READY", "BLOCKED", "FINISHED"}]
  BY DEF TypeOK, BlockAndDispatch
<1>2. blockedReason' \in [Pid -> BlockedReason]
  BY DEF TypeOK, BlockAndDispatch
<1>3. blockedProcesses' \in [Source -> SUBSET Pid]
  BY DEF TypeOK, BlockAndDispatch, AfterAdd
<1>4. remainingQuantum' \in [Pid -> 0 .. PRIORITY_COUNT] /\ nowRunning' \in Pid
  BY <1>1, DispatchProperties DEF TypeOK, BlockAndDispatch
<1> QED
  BY <1>1, <1>2, <1>3, <1>4

\* removeFromList and the tail of waitchild keep the types.
LEMMA ReapType ==
    ASSUME TypeOK, nowRunning \in Pid, NEW child \in Pid, Reap(child)
    PROVE  TypeOK'
<1>1. processes' \in [Priority -> Seq(Pid)]
  BY UnlinkType DEF TypeOK, Reap, Dequeue
<1>2. children' \in [Pid -> SUBSET Pid]
  BY ConstantTypes DEF TypeOK, Reap
<1>3. ppid' \in [Pid -> PidOrNull]
  BY ConstantTypes DEF TypeOK, Reap, AdoptedByInit
<1>4. /\ state' \in [Pid -> {"NONE", "READY", "BLOCKED", "FINISHED"}]
      /\ blockedReason' \in [Pid -> BlockedReason]
      /\ priority' \in [Pid -> Priority]
      /\ remainingQuantum' \in [Pid -> 0 .. PRIORITY_COUNT]
  <2>1. Free(child)
    BY DEF Reap
  <2>2. /\ state \in [Pid -> {"NONE", "READY", "BLOCKED", "FINISHED"}]
        /\ blockedReason \in [Pid -> BlockedReason]
        /\ priority \in [Pid -> Priority]
        /\ remainingQuantum \in [Pid -> 0 .. PRIORITY_COUNT]
    BY DEF TypeOK
  <2>3. state' \in [Pid -> {"NONE", "READY", "BLOCKED", "FINISHED"}]
    BY <2>1, <2>2 DEF Free
  <2>4. blockedReason' \in [Pid -> BlockedReason]
    BY <2>1, <2>2, ConstantTypes DEF Free
  <2>5. priority' \in [Pid -> Priority]
    BY <2>1, <2>2, ConstantTypes DEF Free
  <2>6. remainingQuantum' \in [Pid -> 0 .. PRIORITY_COUNT]
    BY <2>1, <2>2, PriorityAssumption DEF Free
  <2> QED
    BY <2>3, <2>4, <2>5, <2>6
<1>5. waitingFor' \in [Pid -> PidOrNull]
  BY ConstantTypes DEF TypeOK, Reap
<1> QED
  BY <1>1, <1>2, <1>3, <1>4, <1>5 DEF TypeOK, Reap, cpuVars

\* No step of the kernel leaves the types.
LEMMA TypeStep ==
    ASSUME TypeOK, [Next]_schedVars
    PROVE  TypeOK'
<1> USE ConstantTypes
<1>run. InUserCode \/ InInit => nowRunning \in Pid
  BY DEF TypeOK, InUserCode, InInit, Pid, PidOrNull, NULL
<1>1. CASE BootStart
  BY <1>1, StartProcessType DEF BootStart
<1>2. CASE StartInit
  BY <1>2 DEF StartInit, TypeOK, tableVars, listVars
<1>3. CASE Tick
  <2>1. nowRunning \in Pid
    BY <1>3, <1>run DEF Tick, InterruptsEnabled
  <2>2. remainingQuantum' \in [Pid -> 0 .. PRIORITY_COUNT] /\ nowRunning' \in Pid
    BY <2>1, <1>3, DispatchProperties DEF Tick, TypeOK
  <2> QED
    BY <2>2, <1>3 DEF Tick, TypeOK, listVars
<1>4. CASE Escape
  BY <1>4, KillAllType DEF Escape, TypeOK, cpuVars
<1>5. CASE InitStep
  <2>1. ASSUME NEW c \in Pid, InitUnlink(c) PROVE TypeOK'
    BY <2>1 DEF InitUnlink, TypeOK, listVars
  <2>2. CASE InitDequeue
    <3>1. processes' = [processes EXCEPT ![priority[reaping.pid]] = Unlink(@, reaping.pid)]
      BY <2>2 DEF InitDequeue, Dequeue
    <3>2. processes' \in [Priority -> Seq(Pid)]
      BY <3>1, UnlinkType DEF TypeOK
    <3> QED
      <4>1. reaping' \in {Idle} \cup [pid : Pid, step : {"unlinked", "dequeued"}]
        <5>1. reaping \in [pid : Pid, step : {"unlinked", "dequeued"}]
          BY <2>2 DEF InitDequeue, TypeOK, Idle
        <5>2. reaping' \in [pid : Pid, step : {"unlinked", "dequeued"}]
          BY <2>2, <5>1 DEF InitDequeue
        <5> QED
          BY <5>2
      <4> QED
        BY <3>2, <4>1, <2>2 DEF InitDequeue, TypeOK, tableVars
  <2>3. CASE InitInherit
    <3>p. reaping.pid \in Pid
      BY <2>3 DEF InitInherit, TypeOK, Idle
    <3>1. children' \in [Pid -> SUBSET Pid]
      BY <2>3, <3>p DEF InitInherit, TypeOK
    <3>2. ppid' \in [Pid -> PidOrNull]
      BY <2>3 DEF InitInherit, AdoptedByInit, TypeOK
    <3>3. /\ state' \in [Pid -> {"NONE", "READY", "BLOCKED", "FINISHED"}]
          /\ blockedReason' \in [Pid -> BlockedReason]
          /\ priority' \in [Pid -> Priority]
          /\ remainingQuantum' \in [Pid -> 0 .. PRIORITY_COUNT]
          /\ waitingFor' \in [Pid -> PidOrNull]
      <4>1. 0 \in 0 .. PRIORITY_COUNT
        BY PriorityAssumption
      <4> QED
        BY <2>3, <3>p, <4>1 DEF InitInherit, Free, TypeOK
    <3> QED
      BY <2>3, <3>1, <3>2, <3>3 DEF InitInherit, TypeOK, Idle, listVars
  <2> QED
    BY <1>5, <2>1, <2>2, <2>3 DEF InitStep
<1>6. CASE SystemCall
  <2>1. ASSUME NEW prio \in Priority, StartParentProcess(prio) PROVE TypeOK'
    BY <2>1, StartProcessType DEF StartParentProcess
  <2>2. ASSUME NEW dies \in BOOLEAN, StartChildProcess(dies) PROVE TypeOK'
    <3>1. nowRunning \in Pid /\ priority[nowRunning] \in Priority
      BY <2>2, <1>run DEF StartChildProcess, TypeOK
    <3>2. schedulerRunning' \in BOOLEAN
      BY <2>2 DEF StartChildProcess, TypeOK
    <3>3. StartProcess(priority[nowRunning], nowRunning, dies)
      BY <2>2 DEF StartChildProcess
    <3> QED
      BY <3>1, <3>2, <3>3, StartProcessType
  <2>3. CASE StartOutOfMemory
    BY <2>3, MaxPidAssumption DEF StartOutOfMemory, TypeOK, tableVars, listVars
  <2>4. CASE Exit
    <3>1. nowRunning \in Pid
      BY <2>4, <1>run DEF Exit
    <3>2. /\ state' \in [Pid -> {"NONE", "READY", "BLOCKED", "FINISHED"}]
          /\ blockedReason' \in [Pid -> BlockedReason]
          /\ blockedProcesses' \in [Source -> SUBSET Pid]
          /\ deathList' \in SUBSET Pid
      BY <2>4, <3>1, KillAllType DEF Exit
    <3>3. remainingQuantum' \in [Pid -> 0 .. PRIORITY_COUNT] /\ nowRunning' \in Pid
      BY <2>4, <3>1, <3>2, DispatchProperties DEF Exit, TypeOK
    <3> QED
      BY <2>4, <3>2, <3>3 DEF Exit, TypeOK
  <2>5. ASSUME NEW p \in Pid, KillProcess(p) PROVE TypeOK'
    <3>1. nowRunning \in Pid
      BY <2>5, <1>run DEF KillProcess
    <3>2. /\ state' \in [Pid -> {"NONE", "READY", "BLOCKED", "FINISHED"}]
          /\ blockedReason' \in [Pid -> BlockedReason]
          /\ blockedProcesses' \in [Source -> SUBSET Pid]
          /\ deathList' \in SUBSET Pid
      BY <2>5, KillAllType DEF KillProcess
    <3>3. remainingQuantum' \in [Pid -> 0 .. PRIORITY_COUNT] /\ nowRunning' \in Pid
      BY <2>5, <3>1, <3>2, DispatchProperties DEF KillProcess, TypeOK
    <3> QED
      BY <2>5, <3>2, <3>3 DEF KillProcess, TypeOK
  <2>6. ASSUME NEW c \in PidOrNull, WaitChild(c) PROVE TypeOK'
    <3>1. nowRunning \in Pid
      BY <2>6, <1>run DEF WaitChild
    <3>2. ASSUME NEW child \in Pid, Reap(child) PROVE TypeOK'
      BY <3>1, <3>2, ReapType
    <3>3. ASSUME NEW child \in Pid, BlockForChild(c, child) PROVE TypeOK'
      <4>1. /\ state' \in [Pid -> {"NONE", "READY", "BLOCKED", "FINISHED"}]
            /\ blockedReason' \in [Pid -> BlockedReason]
            /\ blockedProcesses' \in [Source -> SUBSET Pid]
            /\ remainingQuantum' \in [Pid -> 0 .. PRIORITY_COUNT]
            /\ nowRunning' \in Pid
        <5>1. "WAIT_CHILD" \in Source /\ c \in Int
          BY DEF Source, PidOrNull
        <5> QED
          BY <5>1, <3>1, <3>3, BlockAndDispatchType DEF BlockForChild
      <4> QED
        BY <3>3, <4>1 DEF BlockForChild, TypeOK
    <3>4. \E child \in Pid : Reap(child) \/ BlockForChild(c, child)
      BY <2>6, <3>1 DEF WaitChild, TypeOK
    <3> QED
      BY <3>2, <3>3, <3>4
  <2>7. CASE ResumeWaitChild
    <3>1. nowRunning \in Pid /\ waitingFor[nowRunning] \in Pid
      BY <2>7 DEF ResumeWaitChild, TypeOK, Pid, PidOrNull, NULL
    <3> QED
      BY <2>7, <3>1, ReapType DEF ResumeWaitChild
  <2>8. ASSUME NEW p \in Pid, BlockProcess(p) PROVE TypeOK'
    <3> DEFINE reason == [source |-> "ASKED_TO", id |-> 0]
    <3>1. nowRunning \in Pid
      BY <2>8, <1>run DEF BlockProcess
    <3>2. CASE BlockAndDispatch(p, reason)
      <4>1. reason \in BlockedReason /\ reason.source \in Source
        BY DEF Source
      <4>2. /\ state' \in [Pid -> {"NONE", "READY", "BLOCKED", "FINISHED"}]
            /\ blockedReason' \in [Pid -> BlockedReason]
            /\ blockedProcesses' \in [Source -> SUBSET Pid]
            /\ remainingQuantum' \in [Pid -> 0 .. PRIORITY_COUNT]
            /\ nowRunning' \in Pid
        BY <4>1, <3>1, <3>2, BlockAndDispatchType
      <4> QED
        BY <2>8, <4>2 DEF BlockProcess, TypeOK
    <3>3. CASE ~BlockAndDispatch(p, reason)
      <4>1. /\ state' \in [Pid -> {"NONE", "READY", "BLOCKED", "FINISHED"}]
            /\ blockedReason' \in [Pid -> BlockedReason]
            /\ blockedProcesses' \in [Source -> SUBSET Pid]
        <5>1. /\ state' = WithReady(state, {p})
              /\ ClearReasons({p})
              /\ LeaveBlockedLists({p})
          BY <2>8, <3>3 DEF BlockProcess
        <5>2. state' \in [Pid -> {"NONE", "READY", "BLOCKED", "FINISHED"}]
          BY <5>1 DEF WithReady, TypeOK
        <5>3. blockedReason' \in [Pid -> BlockedReason]
          BY <5>1 DEF ClearReasons, TypeOK
        <5>4. blockedProcesses' \in [Source -> SUBSET Pid]
          BY <5>1 DEF LeaveBlockedLists, TypeOK
        <5> QED
          BY <5>2, <5>3, <5>4
      <4> QED
        BY <2>8, <3>3, <4>1 DEF BlockProcess, TypeOK
    <3> QED
      BY <3>2, <3>3
  <2>9. ASSUME NEW p \in Pid, NEW prio \in Priority, ChangePriority(p, prio) PROVE TypeOK'
    <3>1. \A pr \in Priority : Unlink(processes[pr], p) \in Seq(Pid)
      BY UnlinkType DEF TypeOK
    <3>2. \A pr \in Priority : <<p>> \o Unlink(processes[pr], p) \in Seq(Pid)
      BY <3>1, PushType
    <3>3. processes' \in [Priority -> Seq(Pid)]
      BY <2>9, <3>1, <3>2 DEF ChangePriority
    <3> QED
      BY <2>9, <3>3 DEF ChangePriority, TypeOK, cpuVars
  <2>10. CASE Yield
    <3>1. nowRunning \in Pid
      BY <2>10, <1>run DEF Yield
    <3>2. [remainingQuantum EXCEPT ![nowRunning] = 0] \in [Pid -> 0 .. PRIORITY_COUNT]
      <4>1. 0 \in 0 .. PRIORITY_COUNT
        BY PriorityAssumption
      <4> QED
        BY <4>1 DEF TypeOK
    <3>3. remainingQuantum' \in [Pid -> 0 .. PRIORITY_COUNT] /\ nowRunning' \in Pid
      BY <2>10, <3>1, <3>2, DispatchProperties DEF Yield, TypeOK
    <3> QED
      BY <2>10, <3>3 DEF Yield, TypeOK, listVars
  <2> QED
    BY <1>6, <2>1, <2>2, <2>3, <2>4, <2>5, <2>6, <2>7, <2>8, <2>9, <2>10 DEF SystemCall
<1>7. CASE UNCHANGED schedVars
  BY <1>7 DEF schedVars, tableVars, listVars, cpuVars, TypeOK
<1> QED
  BY <1>1, <1>2, <1>3, <1>4, <1>5, <1>6, <1>7 DEF Next

\* initializeScheduler establishes the types.
LEMMA InitTypes == Init => TypeOK
<1> SUFFICES ASSUME Init PROVE TypeOK
  OBVIOUS
<1>1. processes \in [Priority -> Seq(Pid)]
  <2>1. <<InitPid>> \in Seq(Pid) /\ <<>> \in Seq(Pid)
    <3>1. [i \in 1 .. 1 |-> InitPid] \in Seq(Pid)
      BY ConstantTypes, IsASeq
    <3> QED
      BY <3>1, EmptySeq
  <2> QED
    BY <2>1 DEF Init
<1>2. /\ 1 \in 0 .. PRIORITY_COUNT /\ 0 \in 0 .. PRIORITY_COUNT
      /\ PRIORITY_COUNT - 1 \in Priority /\ InitPid + 1 \in 1 .. MaxPid + 1
  BY PriorityAssumption, MaxPidAssumption DEF Priority, InitPid
<1> QED
  BY <1>1, <1>2, ConstantTypes DEF Init, TypeOK, Idle

\* For every number of processes, priorities and every workload, the kernel keeps
\* its types; in particular no quantum leaves 0 .. PRIORITY_COUNT.
THEOREM TypeCorrect == Spec => []TypeOK
BY InitTypes, TypeStep, PTL DEF Spec

-----------------------------------------------------------------------------
(* IndInv.                                                                 *)

USE ConstantTypes

\* A process that has the CPU is a node; outside init's own steps it is not init.
LEMMA RunningIsNode ==
    ASSUME IndInv
    PROVE  /\ nowRunning # NULL => nowRunning \in Pid /\ Node(nowRunning)
           /\ InUserCode => nowRunning \in Pid \ {InitPid}
           /\ InInit => nowRunning \in Pid
BY DEF IndInv, TypeOK, CpuExact, Node, InUserCode, InInit, Pid, PidOrNull, NULL

\* While an interrupt or a system call is possible init removes nothing.
LEMMA NotReaping ==
    ASSUME IndInv, Regular, InUserCode \/ InterruptsEnabled
    PROVE  reaping = Idle
BY DEF IndInv, Regular, InterruptsEnabled, InUserCode, InInit, InitReapsTheDead, Asks

\* The parent a node names is found by findByPid, unless init is removing a node:
\* "init is always there".
LEMMA ParentFound ==
    ASSUME IndInv, reaping = Idle, NEW p \in Pid, Node(p), p # InitPid
    PROVE  Found(ppid[p])
<1>1. ppid[p] \in Pid /\ Node(ppid[p])
  <2>1. reaping.pid = NULL
    BY DEF Idle
  <2>2. ppid[p] # NULL /\ p \in children[ppid[p]]
    BY <2>1 DEF IndInv, FamilyExact
  <2>3. ppid[p] \in Pid
    BY <2>2 DEF IndInv, TypeOK, Pid, PidOrNull, NULL
  <2> QED
    BY <2>2, <2>3 DEF IndInv, FamilyExact
<1>2. ppid[p] \in ToSet(processes[priority[ppid[p]]]) /\ priority[ppid[p]] \in Priority
  BY <1>1 DEF IndInv, TypeOK, RunListsExact, Idle
<1> QED
  BY <1>1, <1>2 DEF Found, Queued

\* _killProcess, exactly: the victims are FINISHED, and of the others only the
\* parents asleep for one of them change, to READY.
LEMMA KillAllExact ==
    ASSUME IndInv, reaping = Idle, NEW K \in SUBSET Pid, KillAll(K),
           \A k \in K : Node(k) /\ k # InitPid
    PROVE  \A p \in Pid :
             /\ p \in K => state'[p] = "FINISHED" /\ blockedReason'[p] = NoBlock
             /\ p \notin K /\ AsleepInWait(p) /\ waitingFor[p] \in K =>
                  state'[p] = "READY" /\ blockedReason'[p] = NoBlock
             /\ p \notin K /\ ~(AsleepInWait(p) /\ waitingFor[p] \in K) =>
                  state'[p] = state[p] /\ blockedReason'[p] = blockedReason[p]
<1>1. Killed(K) = K
  BY ParentFound DEF Killed
<1>2. ASSUME NEW p \in Pid, NEW k \in K
      PROVE  (p = ppid[k] /\ WaitsFor(p, k)) <=> (AsleepInWait(p) /\ waitingFor[p] = k)
  <2>1. k \in Pid /\ k # 0
    BY DEF NULL
  <2>2. ASSUME p = ppid[k], WaitsFor(p, k) PROVE AsleepInWait(p) /\ waitingFor[p] = k
    BY <2>1, <2>2 DEF WaitsFor, AsleepInWait, IndInv, WaitExact, NULL
  <2>3. ASSUME AsleepInWait(p), waitingFor[p] = k PROVE p = ppid[k] /\ WaitsFor(p, k)
    <3>1. Live(p)
      BY <2>3 DEF IndInv, WaitExact, AsleepInWait, Live, NoBlock
    <3>2. k \in children[p] /\ blockedReason[p].id = k
      BY <2>1, <2>3, <3>1 DEF IndInv, WaitExact
    <3> QED
      BY <2>3, <3>2 DEF IndInv, FamilyExact, WaitsFor, AsleepInWait
  <2> QED
    BY <2>2, <2>3
<1>3. \A p \in Pid : p \in Released(K) <=> \/ p \in K /\ state[p] = "BLOCKED"
                                           \/ AsleepInWait(p) /\ waitingFor[p] \in K
  BY <1>1, <1>2 DEF Released
<1>4. \A p \in Pid :
        /\ state'[p] = IF p \in K THEN "FINISHED"
                       ELSE IF p \in Released(K) THEN "READY" ELSE state[p]
        /\ blockedReason'[p] = IF p \in Released(K) THEN NoBlock ELSE blockedReason[p]
  BY <1>1 DEF KillAll, StateAfterKill, WithReady, ClearReasons
<1>5. \A p \in Pid : state[p] # "BLOCKED" => blockedReason[p] = NoBlock
  BY DEF IndInv, WaitExact
<1> QED
  BY <1>3, <1>4, <1>5

\* What the conjuncts of IndInv say of the variables _killProcess leaves alone.
\* A kill, then a dispatch or the end of the interrupt, keeps the invariant.
LEMMA KillStep ==
    ASSUME IndInv, TypeOK', reaping = Idle,
           NEW K \in SUBSET Pid, KillAll(K),
           \A k \in K : Node(k) /\ k # InitPid,
           \/ nowRunning' \in Pid /\ state'[nowRunning'] = "READY"
           \/ /\ nowRunning' = nowRunning
              /\ nowRunning \in K => waitingFor[nowRunning] = NULL,
           UNCHANGED <<ppid, priority, children, waitingFor, processes, pidToGive, reaping>>
    PROVE  IndInv'
<1>k. \A p \in Pid :
        /\ p \in K => state'[p] = "FINISHED" /\ blockedReason'[p] = NoBlock
        /\ p \notin K /\ AsleepInWait(p) /\ waitingFor[p] \in K =>
             state'[p] = "READY" /\ blockedReason'[p] = NoBlock
        /\ p \notin K /\ ~(AsleepInWait(p) /\ waitingFor[p] \in K) =>
             state'[p] = state[p] /\ blockedReason'[p] = blockedReason[p]
  BY KillAllExact
<1>n. \A p \in Pid : Node(p)' <=> Node(p)
  <2>1. \A p \in Pid : AsleepInWait(p) => Node(p)
    BY DEF IndInv, WaitExact, AsleepInWait, Node, NoBlock
  <2> QED
    BY <1>k, <2>1 DEF Node
<1>1. PidsAhead'
  BY <1>n DEF IndInv, PidsAhead
<1>2. CpuExact'
  <2>1. InitPid \notin K /\ ~AsleepInWait(InitPid)
    BY DEF IndInv, CpuExact, WaitExact, AsleepInWait, NoBlock
  <2>2. state'[InitPid] = "READY" /\ waitingFor'[InitPid] = NULL /\ InitPid \notin deathList'
    BY <1>k, <2>1 DEF IndInv, CpuExact, KillAll
  <2>3. ASSUME nowRunning' # NULL
        PROVE  /\ state'[nowRunning'] \in {"READY", "FINISHED"}
               /\ waitingFor'[nowRunning'] # NULL => state'[nowRunning'] = "READY"
    <3>1. CASE nowRunning' \in Pid /\ state'[nowRunning'] = "READY"
      BY <3>1
    <3>2. CASE /\ nowRunning' = nowRunning
               /\ nowRunning \in K => waitingFor[nowRunning] = NULL
      <4>1. nowRunning \in Pid /\ state[nowRunning] \in {"READY", "FINISHED"}
        BY <2>3, <3>2, RunningIsNode DEF IndInv, CpuExact
      <4>2. ~AsleepInWait(nowRunning)
        BY <4>1 DEF IndInv, WaitExact, AsleepInWait, NoBlock
      <4>3. nowRunning # NULL /\ waitingFor[nowRunning] # NULL => state[nowRunning] = "READY"
        BY <2>3, <3>2 DEF IndInv, CpuExact
      <4> QED
        BY <1>k, <2>3, <3>2, <4>1, <4>2, <4>3
    <3> QED
      BY <3>1, <3>2
  <2> QED
    BY <2>2, <2>3 DEF CpuExact
<1>3. InitReapsTheDead'
  BY DEF InitReapsTheDead
<1>4. WaitExact'
  <2> SUFFICES ASSUME NEW p \in Pid
               PROVE  /\ state'[p] # "BLOCKED" => blockedReason'[p] = NoBlock
                      /\ AsleepInWait(p)' =>
                           /\ waitingFor[p] # NULL
                           /\ blockedReason'[p].id = waitingFor[p]
                      /\ waitingFor[p] # NULL /\ Live(p)' =>
                           /\ waitingFor[p] \in children[p]
                           /\ IF AsleepInWait(p)' THEN Live(waitingFor[p])'
                              ELSE state'[waitingFor[p]] = "FINISHED"
    BY DEF WaitExact, AsleepInWait, Live
  <2>1. CASE p \in K
    BY <1>k, <2>1 DEF AsleepInWait, Live, NoBlock
  <2>2. CASE p \notin K /\ AsleepInWait(p) /\ waitingFor[p] \in K
    <3>1. state'[p] = "READY" /\ blockedReason'[p] = NoBlock
      BY <1>k, <2>2
    <3>2. state'[waitingFor[p]] = "FINISHED"
      BY <1>k, <2>2
    <3>3. waitingFor[p] \in children[p]
      BY <2>2 DEF IndInv, WaitExact, AsleepInWait, Live, NoBlock
    <3> QED
      BY <3>1, <3>2, <3>3 DEF AsleepInWait, NoBlock
  <2>3. CASE p \notin K /\ ~(AsleepInWait(p) /\ waitingFor[p] \in K)
    <3>1. state'[p] = state[p] /\ blockedReason'[p] = blockedReason[p]
      BY <1>k, <2>3
    <3>2. /\ state[p] # "BLOCKED" => blockedReason[p] = NoBlock
          /\ AsleepInWait(p) => waitingFor[p] # NULL /\ blockedReason[p].id = waitingFor[p]
      BY DEF IndInv, WaitExact
    <3>3. ASSUME waitingFor[p] # NULL, Live(p)
          PROVE  /\ waitingFor[p] \in children[p]
                 /\ IF AsleepInWait(p) THEN Live(waitingFor[p])'
                    ELSE state'[waitingFor[p]] = "FINISHED"
      <4> DEFINE c == waitingFor[p]
      <4>1. /\ c \in children[p]
            /\ IF AsleepInWait(p) THEN Live(c) ELSE state[c] = "FINISHED"
        BY <3>3 DEF IndInv, WaitExact
      <4>2. c \in Pid
        BY <4>1 DEF IndInv, TypeOK
      <4>3. CASE AsleepInWait(p)
        <5>1. c \notin K
          BY <2>3, <4>3
        <5>2. state'[c] \in {state[c], "READY"}
          BY <1>k, <4>2, <5>1
        <5> QED
          BY <4>1, <4>3, <5>2 DEF Live
      <4>4. CASE ~AsleepInWait(p)
        <5>1. state[c] = "FINISHED" /\ ~AsleepInWait(c)
          BY <4>1, <4>2, <4>4 DEF IndInv, WaitExact, AsleepInWait, NoBlock
        <5> QED
          BY <1>k, <4>1, <4>2, <4>4, <5>1
      <4> QED
        BY <4>3, <4>4
    <3> QED
      BY <3>1, <3>2, <3>3 DEF AsleepInWait, Live
  <2> QED
    BY <2>1, <2>2, <2>3
<1>5. FamilyExact'
  BY <1>n DEF IndInv, FamilyExact, TypeOK
<1>6. RunListsExact'
  BY <1>n DEF IndInv, RunListsExact
<1> QED
  BY <1>1, <1>2, <1>3, <1>4, <1>5, <1>6 DEF IndInv

\* A dispatch alone (timer, yield) keeps the invariant.
LEMMA DispatchStep ==
    ASSUME IndInv, TypeOK', reaping = Idle,
           \/ nowRunning' \in Pid /\ state[nowRunning'] = "READY"
           \/ nowRunning' = nowRunning,
           \A p \in Pid : p >= pidToGive' => p >= pidToGive,
           UNCHANGED <<state, blockedReason, ppid, priority, children, waitingFor,
                       processes, deathList, reaping>>
    PROVE  IndInv'
<1>1. PidsAhead' /\ FamilyExact' /\ RunListsExact' /\ WaitExact'
  BY DEF IndInv, PidsAhead, FamilyExact, RunListsExact, WaitExact, Node, Live, AsleepInWait
<1>2. CpuExact' /\ InitReapsTheDead'
  BY DEF IndInv, CpuExact, InitReapsTheDead
<1> QED
  BY <1>1, <1>2 DEF IndInv

\* blockProcess: a READY process is blocked, or one blocked this way is READY again.
LEMMA BlockStep ==
    ASSUME IndInv, TypeOK', reaping = Idle, NEW p \in Pid, p # InitPid,
           \/ /\ state[p] = "READY"
              /\ state' = [state EXCEPT ![p] = "BLOCKED"]
              /\ blockedReason' =
                   [blockedReason EXCEPT ![p] = [source |-> "ASKED_TO", id |-> 0]]
              /\ nowRunning' \in Pid /\ state'[nowRunning'] = "READY"
           \/ /\ IsBlockedFor(p, [source |-> "ASKED_TO", id |-> 0])
              /\ state' = WithReady(state, {p}) /\ ClearReasons({p})
              /\ nowRunning' = nowRunning,
           UNCHANGED <<ppid, priority, children, waitingFor, processes, deathList,
                       pidToGive, reaping>>
    PROVE  IndInv'
<1>1. /\ \A q \in Pid : q # p => state'[q] = state[q] /\ blockedReason'[q] = blockedReason[q]
      /\ Live(p) /\ Live(p)' /\ ~AsleepInWait(p) /\ ~AsleepInWait(p)'
      /\ state'[p] # "BLOCKED" => blockedReason'[p] = NoBlock
  <2>1. state \in [Pid -> {"NONE", "READY", "BLOCKED", "FINISHED"}]
        /\ blockedReason \in [Pid -> BlockedReason]
    BY DEF IndInv, TypeOK
  <2>2. state[p] = "READY" => ~AsleepInWait(p)
    BY DEF IndInv, WaitExact, AsleepInWait, NoBlock
  <2> QED
    BY <2>1, <2>2 DEF IsBlockedFor, WithReady, ClearReasons, AsleepInWait, Live, NoBlock
<1>n. \A q \in Pid : Node(q)' <=> Node(q)
  BY <1>1 DEF Node, Live
<1>2. PidsAhead'
  BY <1>n DEF IndInv, PidsAhead
<1>3. CpuExact'
  <2>1. state'[InitPid] = "READY" /\ waitingFor'[InitPid] = NULL /\ InitPid \notin deathList'
    BY <1>1 DEF IndInv, CpuExact
  <2>2. CASE nowRunning' \in Pid /\ state'[nowRunning'] = "READY"
    BY <2>1, <2>2 DEF CpuExact
  <2>3. CASE nowRunning' = nowRunning /\ state[p] = "BLOCKED"
    <3>1. nowRunning # p /\ (nowRunning # NULL => nowRunning \in Pid)
      BY <2>3, RunningIsNode DEF IndInv, CpuExact
    <3> QED
      BY <1>1, <2>1, <2>3, <3>1 DEF IndInv, CpuExact
  <2> QED
    BY <2>2, <2>3 DEF IsBlockedFor
<1>4. InitReapsTheDead'
  BY DEF InitReapsTheDead
<1>5. WaitExact'
  <2> SUFFICES ASSUME NEW q \in Pid
               PROVE  /\ state'[q] # "BLOCKED" => blockedReason'[q] = NoBlock
                      /\ AsleepInWait(q)' =>
                           waitingFor[q] # NULL /\ blockedReason'[q].id = waitingFor[q]
                      /\ waitingFor[q] # NULL /\ Live(q)' =>
                           /\ waitingFor[q] \in children[q]
                           /\ IF AsleepInWait(q)' THEN Live(waitingFor[q])'
                              ELSE state'[waitingFor[q]] = "FINISHED"
    BY DEF WaitExact, AsleepInWait, Live
  <2>1. /\ state[q] # "BLOCKED" => blockedReason[q] = NoBlock
        /\ AsleepInWait(q) => waitingFor[q] # NULL /\ blockedReason[q].id = waitingFor[q]
        /\ waitingFor[q] # NULL /\ Live(q) =>
             /\ waitingFor[q] \in children[q]
             /\ IF AsleepInWait(q) THEN Live(waitingFor[q])
                ELSE state[waitingFor[q]] = "FINISHED"
    BY DEF IndInv, WaitExact
  <2>2. (AsleepInWait(q)' <=> AsleepInWait(q)) /\ (Live(q)' <=> Live(q))
    BY <1>1 DEF AsleepInWait, Live
  <2>3. waitingFor[q] \in children[q] =>
          /\ Live(waitingFor[q]) => Live(waitingFor[q])'
          /\ state[waitingFor[q]] = "FINISHED" => state'[waitingFor[q]] = "FINISHED"
    <3>1. waitingFor[q] \in children[q] => waitingFor[q] \in Pid
      BY DEF IndInv, TypeOK
    <3> QED
      BY <1>1, <3>1 DEF Live
  <2> QED
    BY <1>1, <2>1, <2>2, <2>3 DEF AsleepInWait
<1>6. FamilyExact'
  BY <1>n DEF IndInv, FamilyExact, TypeOK
<1>7. RunListsExact'
  BY <1>n DEF IndInv, RunListsExact
<1> QED
  BY <1>2, <1>3, <1>4, <1>5, <1>6, <1>7 DEF IndInv

\* waitchild on a living child: the caller sleeps for it.
LEMMA SleepStep ==
    ASSUME IndInv, TypeOK', reaping = Idle, InUserCode,
           NEW c \in children[nowRunning], state[c] # "FINISHED",
           state[nowRunning] = "READY", BlockForChild(c, c),
           nowRunning' \in Pid, state'[nowRunning'] = "READY"
    PROVE  IndInv'
<1> DEFINE r == nowRunning
<1>r. r \in Pid /\ r # InitPid
  BY RunningIsNode
<1>c. c \in Pid /\ c # r /\ Live(c) /\ c # NULL
  <2>1. c \in Pid /\ Node(c) /\ r < c
    BY <1>r DEF IndInv, FamilyExact, TypeOK
  <2>2. Live(c)
    BY <2>1 DEF Live, Node, IndInv, TypeOK
  <2>3. c # r
    BY <1>r, <2>1 DEF Pid
  <2> QED
    BY <2>1, <2>2, <2>3
<1>1. /\ \A q \in Pid : q # r => state'[q] = state[q]
      /\ \A q \in Pid : q # r => blockedReason'[q] = blockedReason[q]
      /\ \A q \in Pid : q # r => waitingFor'[q] = waitingFor[q]
      /\ state'[r] = "BLOCKED" /\ waitingFor'[r] = c
      /\ blockedReason'[r] = [source |-> "WAIT_CHILD", id |-> c]
  BY <1>r DEF IndInv, TypeOK, BlockForChild, BlockAndDispatch
<1>u. UNCHANGED <<ppid, priority, children, processes, deathList, pidToGive, reaping>>
  BY DEF BlockForChild
<1> HIDE DEF r
<1>n. \A q \in Pid : Node(q)' <=> Node(q)
  BY <1>1 DEF Node, r
<1>2. PidsAhead'
  <2>1. Node(r)
    BY <1>r, RunningIsNode DEF r, NULL, Pid
  <2> QED
    BY <2>1, <1>1, <1>n, <1>u DEF IndInv, PidsAhead
<1>3. CpuExact'
  <2>1. state'[InitPid] = "READY" /\ waitingFor'[InitPid] = NULL
    BY <1>1, <1>r DEF IndInv, CpuExact
  <2> QED
    BY <2>1, <1>u DEF IndInv, CpuExact
<1>4. InitReapsTheDead'
  BY <1>u DEF InitReapsTheDead
<1>5. WaitExact'
  <2>1. ASSUME NEW q \in Pid, q # r
        PROVE  /\ state'[q] # "BLOCKED" => blockedReason'[q] = NoBlock
               /\ AsleepInWait(q)' =>
                    waitingFor'[q] # NULL /\ blockedReason'[q].id = waitingFor'[q]
               /\ waitingFor'[q] # NULL /\ Live(q)' =>
                    /\ waitingFor'[q] \in children'[q]
                    /\ IF AsleepInWait(q)' THEN Live(waitingFor[q])'
                       ELSE state'[waitingFor'[q]] = "FINISHED"
    <3>1. /\ state[q] # "BLOCKED" => blockedReason[q] = NoBlock
          /\ AsleepInWait(q) => waitingFor[q] # NULL /\ blockedReason[q].id = waitingFor[q]
          /\ waitingFor[q] # NULL /\ Live(q) =>
               /\ waitingFor[q] \in children[q]
               /\ IF AsleepInWait(q) THEN Live(waitingFor[q])
                  ELSE state[waitingFor[q]] = "FINISHED"
      BY DEF IndInv, WaitExact
    <3>2. waitingFor[q] \in children[q] => waitingFor[q] \in Pid
      BY DEF IndInv, TypeOK
    <3>3. waitingFor[q] \in children[q] =>
            /\ Live(waitingFor[q]) => state'[waitingFor[q]] \in {"READY", "BLOCKED"}
            /\ state[waitingFor[q]] = "FINISHED" => state'[waitingFor[q]] = "FINISHED"
      BY <1>1, <3>2 DEF Live, r
    <3> QED
      BY <1>1, <1>u, <2>1, <3>1, <3>3 DEF AsleepInWait, Live
  <2>2. /\ state'[r] = "BLOCKED" /\ waitingFor'[r] = c /\ c # NULL
        /\ blockedReason'[r].id = c /\ blockedReason'[r].source = "WAIT_CHILD"
        /\ c \in children'[r]
        /\ state'[c] \in {"READY", "BLOCKED"}
    BY <1>1, <1>c, <1>u DEF r, Live
  <2> QED
    BY <2>1, <2>2 DEF WaitExact, AsleepInWait, Live
<1>6. FamilyExact'
  BY <1>n, <1>u DEF IndInv, FamilyExact, TypeOK
<1>7. RunListsExact'
  BY <1>n, <1>u DEF IndInv, RunListsExact
<1> QED
  BY <1>2, <1>3, <1>4, <1>5, <1>6, <1>7 DEF IndInv

\* startProcess: the new process is a leaf of the tree, at the head of its list.
LEMMA StartStep ==
    ASSUME IndInv, TypeOK', Regular, reaping = Idle,
           NEW prio \in Priority, NEW parent \in Pid, Node(parent), NEW dies \in BOOLEAN,
           StartProcess(prio, parent, dies)
    PROVE  IndInv'
<1>t. TypeOK
  BY DEF IndInv
<1>p. PICK new \in Pid : new = pidToGive
  BY <1>t, MaxPidAssumption DEF TypeOK, StartProcess, Pid
<1>w. ~Node(new) /\ new # InitPid /\ parent < new
  <2>1. new \in Pid /\ new = pidToGive
    BY <1>p
  <2>2. ~Node(new) /\ ~(parent >= new)
    BY <2>1 DEF IndInv, PidsAhead, Pid
  <2>3. new # InitPid
    BY <2>2 DEF IndInv, CpuExact, Node
  <2> QED
    BY <2>1, <2>2, <2>3 DEF Pid
<1>1. /\ \A q \in Pid : q # new => /\ state'[q] = state[q] /\ ppid'[q] = ppid[q]
                                   /\ priority'[q] = priority[q]
      /\ \A q \in Pid : q # parent => children'[q] = children[q]
      /\ children'[parent] = children[parent] \cup {new}
      /\ state'[new] = "READY" /\ priority'[new] = prio
      /\ ppid'[new] = parent
      /\ \A pr \in Priority : pr # prio => processes'[pr] = processes[pr]
      /\ processes'[prio] = <<new>> \o processes[prio]
  <2>1. parent % PPID_RANGE = parent
    BY PpidTruncation DEF Regular
  <2>2. ppid'[new] = parent
    BY <1>t, <1>p, <2>1 DEF TypeOK, StartProcess
  <2>3. /\ \A q \in Pid : q # new => /\ state'[q] = state[q] /\ ppid'[q] = ppid[q]
                                     /\ priority'[q] = priority[q]
        /\ state'[new] = "READY" /\ priority'[new] = prio
    BY <1>t, <1>p DEF TypeOK, StartProcess
  <2>4. /\ \A q \in Pid : q # parent => children'[q] = children[q]
        /\ children'[parent] = children[parent] \cup {new}
    BY <1>t, <1>p DEF TypeOK, StartProcess
  <2>5. /\ \A pr \in Priority : pr # prio => processes'[pr] = processes[pr]
        /\ processes'[prio] = <<new>> \o processes[prio]
    <3>1. processes' = [processes EXCEPT ![prio] = <<new>> \o processes[prio]]
      BY <1>p DEF StartProcess
    <3>2. DOMAIN processes = Priority
      BY <1>t DEF TypeOK
    <3> QED
      BY <3>1, <3>2
  <2> QED
    BY <2>2, <2>3, <2>4, <2>5
<1>u. /\ UNCHANGED <<blockedReason, waitingFor, nowRunning, reaping>>
      /\ pidToGive' = new + 1
      /\ deathList' \in SUBSET (deathList \cup {new})
  BY <1>p DEF StartProcess, AfterAdd
<1>i. new \in Int
  BY DEF Pid
<1>n. /\ \A q \in Pid : Node(q)' <=> Node(q) \/ q = new
      /\ Node(new)'
  BY <1>1, <1>w DEF Node
<1>2. PidsAhead'
  <2>1. ASSUME NEW q \in Pid, q >= new + 1 PROVE ~Node(q)' /\ waitingFor'[q] = NULL
    <3>1. q >= new /\ q # new
      BY <1>i, <2>1 DEF Pid
    <3> QED
      BY <1>n, <1>p, <1>u, <3>1 DEF IndInv, PidsAhead
  <2> QED
    BY <1>u, <2>1 DEF PidsAhead, Node
<1>3. CpuExact'
  <2>1. state'[InitPid] = "READY" /\ waitingFor'[InitPid] = NULL /\ InitPid \notin deathList'
    BY <1>1, <1>u, <1>w DEF IndInv, CpuExact
  <2>2. nowRunning # NULL => nowRunning \in Pid /\ nowRunning # new
    BY <1>w, RunningIsNode
  <2>3. nowRunning # NULL =>
          /\ state[nowRunning] \in {"READY", "FINISHED"}
          /\ waitingFor[nowRunning] # NULL => state[nowRunning] = "READY"
    BY DEF IndInv, CpuExact
  <2> QED
    BY <1>1, <1>u, <2>1, <2>2, <2>3 DEF CpuExact
<1>4. InitReapsTheDead'
  BY <1>u DEF InitReapsTheDead
<1>5. WaitExact'
  <2>b. ASSUME NEW q \in Pid
        PROVE  /\ state[q] # "BLOCKED" => blockedReason[q] = NoBlock
               /\ AsleepInWait(q) => waitingFor[q] # NULL /\ blockedReason[q].id = waitingFor[q]
               /\ waitingFor[q] # NULL /\ Live(q) =>
                    /\ waitingFor[q] \in children[q]
                    /\ IF AsleepInWait(q) THEN Live(waitingFor[q])
                       ELSE state[waitingFor[q]] = "FINISHED"
    BY DEF IndInv, WaitExact
  <2>1. ASSUME NEW q \in Pid, q # new
        PROVE  /\ state'[q] # "BLOCKED" => blockedReason'[q] = NoBlock
               /\ AsleepInWait(q)' =>
                    waitingFor'[q] # NULL /\ blockedReason'[q].id = waitingFor'[q]
               /\ waitingFor'[q] # NULL /\ Live(q)' =>
                    /\ waitingFor'[q] \in children'[q]
                    /\ IF AsleepInWait(q)' THEN Live(waitingFor[q])'
                       ELSE state'[waitingFor'[q]] = "FINISHED"
    <3>1. waitingFor[q] \in children[q] =>
            waitingFor[q] \in Pid /\ waitingFor[q] # new /\ waitingFor[q] \in children'[q]
      <4>1. \A c \in children[q] : c \in Pid /\ Node(c)
        BY <1>t DEF IndInv, TypeOK, FamilyExact
      <4>2. children[q] \subseteq children'[q]
        BY <1>1
      <4> QED
        BY <1>w, <4>1, <4>2
    <3>2. (AsleepInWait(q)' <=> AsleepInWait(q)) /\ (Live(q)' <=> Live(q))
      BY <1>1, <1>u, <2>1 DEF AsleepInWait, Live
    <3>3. waitingFor[q] \in children[q] =>
            state'[waitingFor[q]] = state[waitingFor[q]] /\ waitingFor'[q] = waitingFor[q]
      BY <1>1, <1>u, <3>1
    <3> QED
      BY <1>1, <1>u, <2>1, <2>b, <3>1, <3>2, <3>3 DEF Live
  <2>2. waitingFor[new] = NULL
    BY <1>p, <1>i DEF IndInv, PidsAhead
  <2>3. /\ state'[new] = "READY" /\ waitingFor'[new] = NULL
        /\ blockedReason'[new] = NoBlock
    BY <1>1, <1>u, <1>w, <2>b, <2>2 DEF Node
  <2>4. ~AsleepInWait(new)'
    BY <2>3 DEF AsleepInWait, NoBlock
  <2> QED
    BY <2>1, <2>3, <2>4 DEF WaitExact, AsleepInWait, Live
<1>6. FamilyExact'
  <2>1. ASSUME NEW q \in Pid, NEW p \in children'[q]
        PROVE  Node(p)' /\ Node(q)' /\ ppid'[p] = q /\ q < p
    <3>1. CASE q = parent /\ p = new
      BY <1>1, <1>n, <1>w, <3>1
    <3>2. CASE p \in children[q]
      <4>1. p \in Pid /\ Node(p) /\ Node(q) /\ ppid[p] = q /\ q < p
        BY <1>t, <3>2 DEF IndInv, FamilyExact, TypeOK
      <4>2. p # new
        BY <4>1, <1>w
      <4> QED
        BY <1>1, <1>n, <4>1, <4>2
    <3> QED
      BY <1>1, <2>1, <3>1, <3>2
  <2>2. ASSUME NEW p \in Pid, Node(p)', p # InitPid, p # reaping.pid
        PROVE  ppid'[p] # NULL /\ p \in children'[ppid'[p]]
    <3>1. CASE p = new
      BY <1>1, <3>1
    <3>2. CASE p # new
      <4>1. ppid[p] # NULL /\ p \in children[ppid[p]]
        BY <1>n, <2>2, <3>2 DEF IndInv, FamilyExact
      <4>2. ppid[p] \in Pid
        BY <1>t, <4>1 DEF TypeOK
      <4> QED
        BY <1>1, <3>2, <4>1, <4>2
    <3> QED
      BY <3>1, <3>2
  <2> QED
    BY <1>u, <2>1, <2>2 DEF FamilyExact, Node
<1>7. RunListsExact'
  <2>1. \A pr \in Priority : new \notin ToSet(processes[pr])
    BY <1>w DEF IndInv, RunListsExact
  <2>2. processes[prio] \in Seq(Pid) /\ NoRepeats(processes[prio])
    BY <1>t DEF TypeOK, IndInv, RunListsExact
  <2>3. NoRepeats(processes'[prio]) /\ ToSet(processes'[prio]) = ToSet(processes[prio]) \cup {new}
    BY <1>1, <1>w, <2>1, <2>2, PushProperties
  <2>4. ASSUME NEW pr \in Priority
        PROVE  /\ NoRepeats(processes'[pr])
               /\ ToSet(processes'[pr]) =
                    IF pr = prio THEN ToSet(processes[pr]) \cup {new} ELSE ToSet(processes[pr])
    BY <1>1, <2>3 DEF IndInv, RunListsExact
  <2>5. ASSUME NEW p \in Pid, NEW pr \in Priority
        PROVE  p \in ToSet(processes'[pr]) <=>
                 Node(p)' /\ priority'[p] = pr /\ reaping' # [pid |-> p, step |-> "dequeued"]
    <3>1. p \in ToSet(processes[pr]) <=>
            Node(p) /\ priority[p] = pr /\ reaping # [pid |-> p, step |-> "dequeued"]
      BY DEF IndInv, RunListsExact
    <3>2. reaping' # [pid |-> p, step |-> "dequeued"]
      BY <1>u DEF Idle
    <3>3. CASE p = new
      BY <1>1, <1>n, <2>1, <2>4, <3>2, <3>3
    <3>4. CASE p # new
      <4>1. p \in ToSet(processes'[pr]) <=> p \in ToSet(processes[pr])
        BY <2>4, <3>4
      <4>2. (Node(p)' <=> Node(p)) /\ priority'[p] = priority[p]
        BY <1>1, <1>n, <3>4
      <4> QED
        BY <1>u, <3>1, <4>1, <4>2
    <3> QED
      BY <3>3, <3>4
  <2> QED
    BY <2>4, <2>5 DEF RunListsExact, Node
<1> QED
  BY <1>2, <1>3, <1>4, <1>5, <1>6, <1>7 DEF IndInv

\* changePriority: a node moves from its list to the head of another.
LEMMA ChangePriorityStep ==
    ASSUME IndInv, TypeOK', reaping = Idle, NEW p \in Pid, Node(p),
           NEW newPriority \in Priority, ChangePriority(p, newPriority)
    PROVE  IndInv'
<1>t. TypeOK
  BY DEF IndInv
<1>u. UNCHANGED <<state, blockedReason, ppid, children, waitingFor, deathList,
                  nowRunning, pidToGive, reaping>>
  BY DEF ChangePriority, cpuVars
<1>1. PidsAhead' /\ CpuExact' /\ InitReapsTheDead' /\ WaitExact' /\ FamilyExact'
  BY <1>u DEF IndInv, PidsAhead, CpuExact, InitReapsTheDead, WaitExact, FamilyExact,
              Node, Live, AsleepInWait
<1>2. RunListsExact'
  <2>1. ASSUME NEW pr \in Priority
        PROVE  LET others == Unlink(processes[pr], p)
               IN  /\ others \in Seq(Pid) /\ NoRepeats(others)
                   /\ ToSet(others) = ToSet(processes[pr]) \ {p}
    <3>1. processes[pr] \in Seq(Pid) /\ NoRepeats(processes[pr])
      BY <1>t DEF TypeOK, IndInv, RunListsExact
    <3> QED
      BY <3>1, UnlinkType, UnlinkProperties
  <2>2. ASSUME NEW pr \in Priority
        PROVE  /\ NoRepeats(processes'[pr])
               /\ ToSet(processes'[pr]) = IF pr = newPriority
                                          THEN (ToSet(processes[pr]) \ {p}) \cup {p}
                                          ELSE ToSet(processes[pr]) \ {p}
    <3>1. processes'[pr] = LET others == Unlink(processes[pr], p)
                           IN  IF pr = newPriority THEN <<p>> \o others ELSE others
      BY DEF ChangePriority
    <3>2. CASE pr = newPriority
      <4> DEFINE others == Unlink(processes[pr], p)
      <4>1. /\ others \in Seq(Pid) /\ NoRepeats(others) /\ p \notin ToSet(others)
            /\ ToSet(others) = ToSet(processes[pr]) \ {p}
        BY <2>1
      <4>2. processes'[pr] = <<p>> \o others
        BY <3>1, <3>2
      <4> HIDE DEF others
      <4>3. NoRepeats(<<p>> \o others) /\ ToSet(<<p>> \o others) = ToSet(others) \cup {p}
        BY <4>1, PushProperties
      <4> QED
        BY <3>2, <4>1, <4>2, <4>3
    <3>3. CASE pr # newPriority
      BY <2>1, <3>1, <3>3
    <3> QED
      BY <3>2, <3>3
  <2>3. /\ \A q \in Pid : q # p => priority'[q] = priority[q]
        /\ priority'[p] = newPriority
    BY <1>t DEF ChangePriority, TypeOK
  <2>4. ASSUME NEW q \in Pid, NEW pr \in Priority
        PROVE  q \in ToSet(processes'[pr]) <=>
                 Node(q) /\ priority'[q] = pr /\ reaping # [pid |-> q, step |-> "dequeued"]
    <3>1. q \in ToSet(processes[pr]) <=>
            Node(q) /\ priority[q] = pr /\ reaping # [pid |-> q, step |-> "dequeued"]
      BY DEF IndInv, RunListsExact
    <3>2. CASE q = p
      <4>1. reaping # [pid |-> q, step |-> "dequeued"]
        BY DEF Idle
      <4> QED
        BY <2>2, <2>3, <3>2, <4>1
    <3>3. CASE q # p
      BY <2>2, <2>3, <3>1, <3>3
    <3> QED
      BY <3>2, <3>3
  <2> QED
    BY <1>u, <2>2, <2>4 DEF RunListsExact, Node
<1> QED
  BY <1>1, <1>2 DEF IndInv

\* Unlinking a node from its list leaves every other node where it is.
LEMMA DequeueLists ==
    ASSUME IndInv, NEW p \in Pid, Dequeue(p)
    PROVE  \A pr \in Priority :
             /\ NoRepeats(processes'[pr])
             /\ \A q \in Pid : q # p =>
                  (q \in ToSet(processes'[pr]) <=> q \in ToSet(processes[pr]))
             /\ pr = priority[p] => p \notin ToSet(processes'[pr])
             /\ pr # priority[p] => processes'[pr] = processes[pr]
<1> DEFINE mine == priority[p]
<1>1. /\ processes \in [Priority -> Seq(Pid)] /\ mine \in Priority
      /\ \A pr \in Priority : NoRepeats(processes[pr])
  BY DEF IndInv, TypeOK, RunListsExact
<1>2. processes' = [processes EXCEPT ![mine] = Unlink(processes[mine], p)]
  BY DEF Dequeue
<1>3. /\ NoRepeats(Unlink(processes[mine], p))
      /\ ToSet(Unlink(processes[mine], p)) = ToSet(processes[mine]) \ {p}
  BY <1>1, UnlinkProperties
<1>4. /\ processes'[mine] = Unlink(processes[mine], p)
      /\ \A pr \in Priority : pr # mine => processes'[pr] = processes[pr]
  BY <1>1, <1>2
<1> HIDE DEF mine
<1> QED
  BY <1>1, <1>3, <1>4 DEF mine

\* The end of waitchild: a dead child leaves its parent, its children go to init.
LEMMA ReapStep ==
    ASSUME IndInv, TypeOK', reaping = Idle, nowRunning \in Pid \ {InitPid},
           NEW child \in children[nowRunning], state[child] = "FINISHED", Reap(child)
    PROVE  IndInv'
<1>t. TypeOK
  BY DEF IndInv
<1>r. PICK r \in Pid \ {InitPid} : r = nowRunning
  OBVIOUS
<1>c. /\ child \in Pid /\ Node(child) /\ ppid[child] = r
      /\ child # r /\ child # InitPid
  <2>1. child \in Pid /\ ppid[child] = r /\ r < child
    BY <1>t, <1>r DEF IndInv, FamilyExact, TypeOK
  <2>2. child # r
    BY <1>r, <2>1 DEF Pid
  <2> QED
    BY <2>1, <2>2 DEF Node, IndInv, CpuExact
<1>f. \A q \in Pid : \A p \in children[q] :
         p \in Pid /\ Node(p) /\ Node(q) /\ ppid[p] = q /\ q < p
  BY <1>t DEF IndInv, FamilyExact, TypeOK
<1>1. /\ \A q \in Pid : q # child => /\ state'[q] = state[q]
                                     /\ blockedReason'[q] = blockedReason[q]
                                     /\ priority'[q] = priority[q]
      /\ state'[child] = "NONE" /\ blockedReason'[child] = NoBlock
  BY <1>t, <1>c DEF TypeOK, Reap, Free
<1>2. /\ children'[r] = children[r] \ {child}
      /\ children'[InitPid] = children[InitPid] \cup children[child]
      /\ children'[child] = {}
      /\ \A q \in Pid \ {r, InitPid, child} : children'[q] = children[q]
  <2>1. children' = [children EXCEPT ![r] = @ \ {child},
                                     ![InitPid] = @ \cup children[child],
                                     ![child] = {}]
    BY <1>r DEF Reap
  <2>2. DOMAIN children = Pid
    BY <1>t DEF TypeOK
  <2> QED
    BY <2>1, <2>2, <1>c, <1>r
<1>3. \A q \in Pid : ppid'[q] = IF q \in children[child] THEN InitPid
                                ELSE IF q = child THEN NULL ELSE ppid[q]
  BY DEF Reap, AdoptedByInit
<1>4. /\ waitingFor'[r] = NULL /\ waitingFor'[child] = NULL
      /\ \A q \in Pid \ {r, child} : waitingFor'[q] = waitingFor[q]
  BY <1>t, <1>c, <1>r DEF TypeOK, Reap
<1>u. Dequeue(child) /\ UNCHANGED <<deathList, nowRunning, pidToGive, reaping>>
  BY DEF Reap, cpuVars
<1>n. \A q \in Pid : Node(q)' <=> Node(q) /\ q # child
  BY <1>1 DEF Node
<1>5. PidsAhead'
  BY <1>n, <1>4, <1>u DEF IndInv, PidsAhead
<1>6. CpuExact'
  <2>1. /\ state[InitPid] = "READY" /\ waitingFor[InitPid] = NULL /\ InitPid \notin deathList
        /\ state[r] \in {"READY", "FINISHED"}
    BY <1>r DEF IndInv, CpuExact
  <2>2. /\ state'[InitPid] = "READY" /\ waitingFor'[InitPid] = NULL
        /\ state'[r] = state[r]
    BY <1>1, <1>4, <1>c, <2>1
  <2> QED
    BY <1>4, <1>r, <1>u, <2>1, <2>2 DEF CpuExact
<1>7. InitReapsTheDead'
  BY <1>u DEF InitReapsTheDead
<1>8. WaitExact'
  <2>b. ASSUME NEW q \in Pid
        PROVE  /\ state[q] # "BLOCKED" => blockedReason[q] = NoBlock
               /\ AsleepInWait(q) => waitingFor[q] # NULL /\ blockedReason[q].id = waitingFor[q]
               /\ waitingFor[q] # NULL /\ Live(q) =>
                    /\ waitingFor[q] \in children[q]
                    /\ IF AsleepInWait(q) THEN Live(waitingFor[q])
                       ELSE state[waitingFor[q]] = "FINISHED"
    BY DEF IndInv, WaitExact
  <2>1. ASSUME NEW q \in Pid, q # child, q # r
        PROVE  /\ state'[q] # "BLOCKED" => blockedReason'[q] = NoBlock
               /\ AsleepInWait(q)' =>
                    waitingFor'[q] # NULL /\ blockedReason'[q].id = waitingFor'[q]
               /\ waitingFor'[q] # NULL /\ Live(q)' =>
                    /\ waitingFor'[q] \in children'[q]
                    /\ IF AsleepInWait(q)' THEN Live(waitingFor[q])'
                       ELSE state'[waitingFor'[q]] = "FINISHED"
    <3>1. waitingFor'[q] = waitingFor[q]
      BY <1>4, <2>1
    <3>2. (AsleepInWait(q)' <=> AsleepInWait(q)) /\ (Live(q)' <=> Live(q))
      BY <1>1, <2>1 DEF AsleepInWait, Live
    <3>3. ASSUME waitingFor[q] \in children[q]
          PROVE  /\ waitingFor[q] \in children'[q] /\ waitingFor[q] \in Pid
                 /\ state'[waitingFor[q]] = state[waitingFor[q]]
      <4>1. waitingFor[q] \in Pid /\ ppid[waitingFor[q]] = q
        BY <1>f, <3>3
      <4>2. waitingFor[q] # child
        BY <1>c, <2>1, <4>1
      <4>3. waitingFor[q] \in children'[q]
        BY <1>2, <2>1, <3>3
      <4> QED
        BY <1>1, <4>1, <4>2, <4>3
    <3> QED
      BY <1>1, <2>1, <2>b, <3>1, <3>2, <3>3 DEF Live
  <2>2. /\ state'[r] # "BLOCKED" /\ blockedReason'[r] = NoBlock /\ waitingFor'[r] = NULL
    <3>1. state[r] \in {"READY", "FINISHED"}
      BY <1>r DEF IndInv, CpuExact
    <3> QED
      BY <1>1, <1>4, <1>c, <2>b, <3>1
  <2>3. /\ state'[child] # "BLOCKED" /\ blockedReason'[child] = NoBlock
        /\ waitingFor'[child] = NULL
    BY <1>1, <1>4
  <2>4. ~AsleepInWait(r)' /\ ~AsleepInWait(child)'
    BY <2>2, <2>3 DEF AsleepInWait, NoBlock
  <2> QED
    BY <2>1, <2>2, <2>3, <2>4 DEF WaitExact, AsleepInWait, Live
<1>9. FamilyExact'
  <2>1. ASSUME NEW q \in Pid, NEW p \in children'[q]
        PROVE  Node(p)' /\ Node(q)' /\ ppid'[p] = q /\ q < p
    <3>1. CASE q # InitPid
      <4>1. q # child /\ p \in children[q] /\ p # child
        BY <1>2, <1>c, <1>f, <2>1, <3>1
      <4>2. p \notin children[child]
        BY <1>c, <1>f, <4>1
      <4> QED
        BY <1>3, <1>f, <1>n, <4>1, <4>2
    <3>2. CASE q = InitPid /\ p \in children[InitPid]
      <4>1. p # child
        BY <1>c, <1>f, <3>2
      <4> QED
        BY <1>3, <1>c, <1>f, <1>n, <3>2, <4>1
    <3>3. CASE q = InitPid /\ p \in children[child]
      <4>1. p \in Pid /\ Node(p) /\ child < p
        BY <1>c, <1>f, <3>3
      <4>2. p # child /\ InitPid < p
        BY <1>c, <4>1 DEF Pid, InitPid
      <4>3. Node(InitPid)
        BY DEF IndInv, CpuExact, Node
      <4> QED
        BY <1>3, <1>c, <1>n, <3>3, <4>1, <4>2, <4>3
    <3> QED
      BY <1>2, <2>1, <3>1, <3>2, <3>3
  <2>2. ASSUME NEW p \in Pid, Node(p)', p # InitPid, p # NULL
        PROVE  ppid'[p] # NULL /\ p \in children'[ppid'[p]]
    <3>1. p # child /\ Node(p)
      BY <1>n, <2>2
    <3>2. ppid[p] # NULL /\ p \in children[ppid[p]] /\ ppid[p] \in Pid
      BY <1>t, <2>2, <3>1 DEF IndInv, FamilyExact, Idle, TypeOK
    <3>3. CASE p \in children[child]
      BY <1>2, <1>3, <3>3
    <3>4. CASE p \notin children[child]
      BY <1>2, <1>3, <1>c, <3>1, <3>2, <3>4
    <3> QED
      BY <3>3, <3>4
  <2> QED
    BY <1>u, <2>1, <2>2 DEF FamilyExact, Node, Idle
<1>10. RunListsExact'
  <2>1. ASSUME NEW pr \in Priority
        PROVE  /\ NoRepeats(processes'[pr])
               /\ \A q \in Pid : q # child =>
                    (q \in ToSet(processes'[pr]) <=> q \in ToSet(processes[pr]))
               /\ child \notin ToSet(processes'[pr])
    BY <1>c, <1>u, DequeueLists DEF IndInv, RunListsExact
  <2>2. ASSUME NEW q \in Pid, NEW pr \in Priority
        PROVE  q \in ToSet(processes'[pr]) <=>
                 Node(q)' /\ priority'[q] = pr /\ reaping # [pid |-> q, step |-> "dequeued"]
    <3>1. q \in ToSet(processes[pr]) <=>
            Node(q) /\ priority[q] = pr /\ reaping # [pid |-> q, step |-> "dequeued"]
      BY DEF IndInv, RunListsExact
    <3> QED
      BY <1>1, <1>n, <2>1, <3>1
  <2> QED
    BY <1>u, <2>1, <2>2 DEF RunListsExact, Node
<1> QED
  BY <1>5, <1>6, <1>7, <1>8, <1>9, <1>10 DEF IndInv

\* init, first step: the dead child leaves the sibling list.
LEMMA InitUnlinkStep ==
    ASSUME IndInv, TypeOK', NEW child \in Pid, InitUnlink(child)
    PROVE  IndInv'
<1>t. TypeOK
  BY DEF IndInv
<1>u. UNCHANGED <<state, blockedReason, ppid, priority, waitingFor, processes, deathList,
                  nowRunning, pidToGive>>
  BY DEF InitUnlink, listVars
<1>c. /\ child \in children[InitPid] /\ state[child] = "FINISHED"
      /\ nowRunning = InitPid /\ reaping = Idle
      /\ reaping' = [pid |-> child, step |-> "unlinked"]
  BY DEF InitUnlink, InitVisits, InInit
<1>f. \A q \in Pid : \A p \in children[q] :
         p \in Pid /\ Node(p) /\ Node(q) /\ ppid[p] = q /\ q < p
  BY <1>t DEF IndInv, FamilyExact, TypeOK
<1>1. /\ children'[InitPid] = children[InitPid] \ {child}
      /\ \A q \in Pid \ {InitPid} : children'[q] = children[q]
  BY <1>t DEF TypeOK, InitUnlink
<1>2. child # InitPid /\ ppid[child] = InitPid
  BY <1>c DEF IndInv, CpuExact, FamilyExact
<1>3. PidsAhead' /\ CpuExact'
  BY <1>u DEF IndInv, PidsAhead, CpuExact, Node
<1>4. InitReapsTheDead'
  <2>1. \A q \in Pid : child \notin children'[q]
    BY <1>1, <1>2, <1>f
  <2>2. reaping'.pid = child
    BY <1>c
  <2> QED
    BY <1>c, <1>u, <1>2, <2>1, <2>2 DEF InitReapsTheDead
<1>5. WaitExact'
  <2>1. waitingFor[InitPid] = NULL
    BY DEF IndInv, CpuExact
  <2>2. ASSUME NEW q \in Pid, waitingFor[q] # NULL PROVE children'[q] = children[q]
    BY <1>1, <2>1, <2>2
  <2> QED
    BY <1>u, <2>2 DEF IndInv, WaitExact, AsleepInWait, Live
<1>6. FamilyExact'
  <2>1. ASSUME NEW q \in Pid, NEW p \in children'[q]
        PROVE  Node(p) /\ Node(q) /\ ppid[p] = q /\ q < p
    BY <1>1, <1>f
  <2>2. ASSUME NEW p \in Pid, Node(p), p # InitPid, p # child
        PROVE  ppid[p] # NULL /\ p \in children'[ppid[p]]
    <3>1. ppid[p] # NULL /\ p \in children[ppid[p]] /\ ppid[p] \in Pid
      BY <1>t, <1>c, <2>2 DEF IndInv, FamilyExact, Idle, TypeOK
    <3> QED
      BY <1>1, <2>2, <3>1
  <2>3. reaping'.pid = child
    BY <1>c
  <2> QED
    BY <1>u, <2>1, <2>2, <2>3 DEF FamilyExact, Node
<1>7. RunListsExact'
  <2>1. ASSUME NEW p \in Pid
        PROVE  reaping # [pid |-> p, step |-> "dequeued"]
               /\ reaping' # [pid |-> p, step |-> "dequeued"]
    BY <1>c DEF Idle
  <2> QED
    BY <1>u, <2>1 DEF IndInv, RunListsExact, Node
<1> QED
  BY <1>3, <1>4, <1>5, <1>6, <1>7 DEF IndInv

\* init, second step: the node leaves its round-robin list.
LEMMA InitDequeueStep ==
    ASSUME IndInv, TypeOK', InitDequeue
    PROVE  IndInv'
<1>t. TypeOK
  BY DEF IndInv
<1>u. UNCHANGED <<state, blockedReason, ppid, priority, children, waitingFor, deathList,
                  nowRunning, pidToGive>>
  BY DEF InitDequeue, tableVars
<1>c. PICK child \in Pid : /\ reaping = [pid |-> child, step |-> "unlinked"]
                           /\ reaping' = [pid |-> child, step |-> "dequeued"]
  <2>1. reaping \in [pid : Pid, step : {"unlinked", "dequeued"}] /\ reaping.step = "unlinked"
    BY <1>t DEF InitDequeue, TypeOK, Idle
  <2>2. reaping' = [reaping EXCEPT !.step = "dequeued"]
    BY DEF InitDequeue
  <2> QED
    BY <2>1, <2>2
<1>d. Dequeue(child)
  BY <1>c DEF InitDequeue
<1>i. reaping # Idle /\ reaping.pid = child /\ reaping'.pid = child
  BY <1>c DEF Idle
<1>1. PidsAhead' /\ CpuExact' /\ WaitExact'
  BY <1>u DEF IndInv, PidsAhead, CpuExact, WaitExact, Node, Live, AsleepInWait
<1>2. InitReapsTheDead' /\ FamilyExact'
  BY <1>u, <1>i DEF IndInv, InitReapsTheDead, FamilyExact, Node
<1>3. RunListsExact'
  <2>1. \A pr \in Priority :
          /\ NoRepeats(processes'[pr])
          /\ \A q \in Pid : q # child =>
               (q \in ToSet(processes'[pr]) <=> q \in ToSet(processes[pr]))
          /\ pr = priority[child] => child \notin ToSet(processes'[pr])
          /\ pr # priority[child] => processes'[pr] = processes[pr]
    BY <1>d, DequeueLists
  <2>2. ASSUME NEW q \in Pid, NEW pr \in Priority
        PROVE  q \in ToSet(processes'[pr]) <=>
                 Node(q) /\ priority[q] = pr /\ reaping' # [pid |-> q, step |-> "dequeued"]
    <3>1. q \in ToSet(processes[pr]) <=> Node(q) /\ priority[q] = pr
      <4>1. reaping # [pid |-> q, step |-> "dequeued"]
        BY <1>c
      <4> QED
        BY <4>1 DEF IndInv, RunListsExact
    <3>2. reaping' = [pid |-> q, step |-> "dequeued"] <=> q = child
      BY <1>c
    <3>3. CASE q = child
      <4>1. q \notin ToSet(processes'[pr])
        BY <2>1, <3>1, <3>3
      <4> QED
        BY <3>2, <3>3, <4>1
    <3>4. CASE q # child
      BY <2>1, <3>1, <3>2, <3>4
    <3> QED
      BY <3>3, <3>4
  <2> QED
    BY <1>u, <2>1, <2>2 DEF RunListsExact, Node
<1> QED
  BY <1>1, <1>2, <1>3 DEF IndInv

\* init, last step: the children of the dead node become init's, the node is freed.
LEMMA InitInheritStep ==
    ASSUME IndInv, TypeOK', InitInherit
    PROVE  IndInv'
<1>t. TypeOK
  BY DEF IndInv
<1>c. PICK child \in Pid : reaping = [pid |-> child, step |-> "dequeued"]
  BY <1>t DEF InitInherit, TypeOK, Idle
<1>i. reaping # Idle /\ reaping.pid = child
  BY <1>c DEF Idle
<1>d. /\ nowRunning = InitPid /\ child # InitPid /\ state[child] = "FINISHED"
      /\ \A q \in Pid : child \notin children[q]
  BY <1>i DEF IndInv, InitReapsTheDead
<1>f. \A q \in Pid : \A p \in children[q] :
         p \in Pid /\ Node(p) /\ Node(q) /\ ppid[p] = q /\ q < p
  BY <1>t DEF IndInv, FamilyExact, TypeOK
<1>1. /\ \A q \in Pid : q # child => /\ state'[q] = state[q]
                                     /\ blockedReason'[q] = blockedReason[q]
                                     /\ priority'[q] = priority[q]
      /\ state'[child] = "NONE" /\ blockedReason'[child] = NoBlock
  BY <1>t, <1>i DEF TypeOK, InitInherit, Free
<1>2. /\ children'[InitPid] = children[InitPid] \cup children[child]
      /\ children'[child] = {}
      /\ \A q \in Pid \ {InitPid, child} : children'[q] = children[q]
  <2>1. children' = [children EXCEPT ![InitPid] = @ \cup children[child],
                                     ![child] = {}]
    BY <1>i DEF InitInherit
  <2>2. DOMAIN children = Pid
    BY <1>t DEF TypeOK
  <2> QED
    BY <2>1, <2>2, <1>d
<1>3. \A q \in Pid : ppid'[q] = IF q \in children[child] THEN InitPid
                                ELSE IF q = child THEN NULL ELSE ppid[q]
  BY <1>i DEF InitInherit, AdoptedByInit
<1>4. /\ waitingFor'[child] = NULL
      /\ \A q \in Pid \ {child} : waitingFor'[q] = waitingFor[q]
  BY <1>t, <1>i DEF TypeOK, InitInherit
<1>u. reaping' = Idle /\ UNCHANGED <<processes, deathList, nowRunning, pidToGive>>
  BY DEF InitInherit, listVars
<1>n. \A q \in Pid : Node(q)' <=> Node(q) /\ q # child
  BY <1>1 DEF Node
<1>5. PidsAhead'
  BY <1>n, <1>4, <1>u DEF IndInv, PidsAhead
<1>6. CpuExact'
  <2>1. state[InitPid] = "READY" /\ waitingFor[InitPid] = NULL /\ InitPid \notin deathList
    BY DEF IndInv, CpuExact
  <2> QED
    BY <1>1, <1>4, <1>d, <1>u, <2>1 DEF CpuExact
<1>7. InitReapsTheDead'
  BY <1>u DEF InitReapsTheDead
<1>8. WaitExact'
  <2>b. ASSUME NEW q \in Pid
        PROVE  /\ state[q] # "BLOCKED" => blockedReason[q] = NoBlock
               /\ AsleepInWait(q) => waitingFor[q] # NULL /\ blockedReason[q].id = waitingFor[q]
               /\ waitingFor[q] # NULL /\ Live(q) =>
                    /\ waitingFor[q] \in children[q]
                    /\ IF AsleepInWait(q) THEN Live(waitingFor[q])
                       ELSE state[waitingFor[q]] = "FINISHED"
    BY DEF IndInv, WaitExact
  <2>1. ASSUME NEW q \in Pid, q # child
        PROVE  /\ state'[q] # "BLOCKED" => blockedReason'[q] = NoBlock
               /\ AsleepInWait(q)' =>
                    waitingFor'[q] # NULL /\ blockedReason'[q].id = waitingFor'[q]
               /\ waitingFor'[q] # NULL /\ Live(q)' =>
                    /\ waitingFor'[q] \in children'[q]
                    /\ IF AsleepInWait(q)' THEN Live(waitingFor[q])'
                       ELSE state'[waitingFor'[q]] = "FINISHED"
    <3>1. waitingFor'[q] = waitingFor[q]
      BY <1>4, <2>1
    <3>2. (AsleepInWait(q)' <=> AsleepInWait(q)) /\ (Live(q)' <=> Live(q))
      BY <1>1, <2>1 DEF AsleepInWait, Live
    <3>3. ASSUME waitingFor[q] \in children[q]
          PROVE  /\ waitingFor[q] \in children'[q] /\ waitingFor[q] \in Pid
                 /\ state'[waitingFor[q]] = state[waitingFor[q]]
      <4>1. waitingFor[q] \in Pid /\ waitingFor[q] # child
        BY <1>d, <1>f, <3>3
      <4>2. waitingFor[q] \in children'[q]
        BY <1>2, <2>1, <3>3
      <4> QED
        BY <1>1, <4>1, <4>2
    <3> QED
      BY <1>1, <2>1, <2>b, <3>1, <3>2, <3>3 DEF Live
  <2>2. /\ state'[child] # "BLOCKED" /\ blockedReason'[child] = NoBlock
        /\ waitingFor'[child] = NULL
    BY <1>1, <1>4
  <2>3. ~AsleepInWait(child)'
    BY <2>2 DEF AsleepInWait, NoBlock
  <2> QED
    BY <2>1, <2>2, <2>3 DEF WaitExact, AsleepInWait, Live
<1>9. FamilyExact'
  <2>1. ASSUME NEW q \in Pid, NEW p \in children'[q]
        PROVE  Node(p)' /\ Node(q)' /\ ppid'[p] = q /\ q < p
    <3>1. CASE q # InitPid
      <4>1. q # child /\ p \in children[q] /\ p # child
        BY <1>2, <1>d, <2>1, <3>1
      <4>2. p \notin children[child]
        BY <1>f, <4>1
      <4> QED
        BY <1>3, <1>f, <1>n, <4>1, <4>2
    <3>2. CASE q = InitPid /\ p \in children[InitPid]
      <4>1. p # child
        BY <1>d, <3>2
      <4> QED
        BY <1>3, <1>d, <1>f, <1>n, <3>2, <4>1
    <3>3. CASE q = InitPid /\ p \in children[child]
      <4>1. p \in Pid /\ Node(p) /\ child < p
        BY <1>f, <3>3
      <4>2. p # child /\ InitPid < p
        BY <1>d, <3>3, <4>1 DEF Pid, InitPid
      <4>3. Node(InitPid)
        BY DEF IndInv, CpuExact, Node
      <4> QED
        BY <1>3, <1>d, <1>n, <3>3, <4>1, <4>2, <4>3
    <3> QED
      BY <1>2, <2>1, <3>1, <3>2, <3>3
  <2>2. ASSUME NEW p \in Pid, Node(p)', p # InitPid, p # NULL
        PROVE  ppid'[p] # NULL /\ p \in children'[ppid'[p]]
    <3>1. p # child /\ Node(p)
      BY <1>n, <2>2
    <3>2. ppid[p] # NULL /\ p \in children[ppid[p]] /\ ppid[p] \in Pid
      BY <1>t, <1>i, <2>2, <3>1 DEF IndInv, FamilyExact, TypeOK
    <3>3. CASE p \in children[child]
      BY <1>2, <1>3, <3>3
    <3>4. CASE p \notin children[child]
      BY <1>2, <1>3, <3>1, <3>2, <3>4
    <3> QED
      BY <3>3, <3>4
  <2> QED
    BY <1>u, <2>1, <2>2 DEF FamilyExact, Node, Idle
<1>10. RunListsExact'
  <2>1. ASSUME NEW q \in Pid, NEW pr \in Priority
        PROVE  q \in ToSet(processes[pr]) <=> Node(q)' /\ priority'[q] = pr
    <3>1. q \in ToSet(processes[pr]) <=>
            Node(q) /\ priority[q] = pr /\ reaping # [pid |-> q, step |-> "dequeued"]
      BY DEF IndInv, RunListsExact
    <3>2. reaping # [pid |-> q, step |-> "dequeued"] <=> q # child
      BY <1>c
    <3> QED
      BY <1>1, <1>n, <3>1, <3>2
  <2>2. \A q \in Pid : reaping' # [pid |-> q, step |-> "dequeued"]
    BY <1>u DEF Idle
  <2> QED
    BY <1>u, <2>1, <2>2 DEF IndInv, RunListsExact, Node
<1> QED
  BY <1>5, <1>6, <1>7, <1>8, <1>9, <1>10 DEF IndInv
\* Whoever gets the CPU from Dispatch is READY.
LEMMA DispatchesReady ==
    ASSUME TypeOK, TypeOK', nowRunning \in Pid,
           \/ Dispatch(state', remainingQuantum)
           \/ Dispatch(state, remainingQuantum) /\ UNCHANGED state
           \/ Dispatch(state, [remainingQuantum EXCEPT ![nowRunning] = 0]) /\ UNCHANGED state
    PROVE  nowRunning' \in Pid /\ state'[nowRunning'] = "READY"
<1>1. /\ [remainingQuantum EXCEPT ![nowRunning] = 0] \in [Pid -> 0 .. PRIORITY_COUNT]
      /\ remainingQuantum \in [Pid -> 0 .. PRIORITY_COUNT]
      /\ priority \in [Pid -> Priority]
      /\ state \in [Pid -> {"NONE", "READY", "BLOCKED", "FINISHED"}]
      /\ state' \in [Pid -> {"NONE", "READY", "BLOCKED", "FINISHED"}]
  <2>1. 0 \in 0 .. PRIORITY_COUNT
    BY PriorityAssumption
  <2> QED
    BY <2>1 DEF TypeOK
<1>2. CASE Dispatch(state', remainingQuantum)
  BY <1>1, <1>2, DispatchProperties
<1>3. CASE Dispatch(state, remainingQuantum) /\ UNCHANGED state
  BY <1>1, <1>3, DispatchProperties
<1>4. CASE /\ Dispatch(state, [remainingQuantum EXCEPT ![nowRunning] = 0])
           /\ UNCHANGED state
  BY <1>1, <1>4, DispatchProperties
<1> QED
  BY <1>2, <1>3, <1>4

\* A process findByPid returns is a node of the table.
LEMMA FoundIsNode ==
    ASSUME IndInv, NEW p \in Pid, Found(p)
    PROVE  Node(p)
<1>1. CASE p = nowRunning
  BY <1>1, RunningIsNode
<1>2. CASE p \in Queued
  <2>1. PICK pr \in Priority : p \in ToSet(processes[pr])
    BY <1>2 DEF Queued
  <2> QED
    BY <2>1 DEF IndInv, RunListsExact
<1> QED
  BY <1>1, <1>2 DEF Found

\* Steps of the calls that end processes.
LEMMA EndingSteps ==
    ASSUME IndInv, TypeOK', Regular,
           Exit \/ (\E p \in Pid : KillProcess(p)) \/ Escape
    PROVE  IndInv'
<1>t. TypeOK
  BY DEF IndInv
<1>i. reaping = Idle
  BY NotReaping DEF Exit, KillProcess, Escape
<1>1. CASE Exit
  <2>1. nowRunning \in Pid \ {InitPid} /\ Node(nowRunning)
    BY <1>1, RunningIsNode DEF Exit
  <2>2. nowRunning' \in Pid /\ state'[nowRunning'] = "READY"
    BY <1>1, <1>t, <2>1, DispatchesReady DEF Exit
  <2>3. /\ KillAll({nowRunning})
        /\ UNCHANGED <<ppid, priority, children, waitingFor, processes, pidToGive, reaping>>
    BY <1>1 DEF Exit
  <2>4. {nowRunning} \in SUBSET Pid /\ \A k \in {nowRunning} : Node(k) /\ k # InitPid
    BY <2>1
  <2> QED
    BY <1>i, <2>2, <2>3, <2>4, KillStep
<1>2. ASSUME NEW p \in Pid, KillProcess(p)
      PROVE  IndInv'
  <2>1. PICK K \in SUBSET Pid : KillAll(K) /\ K = IF Found(p) THEN {p} ELSE {}
    BY <1>2 DEF KillProcess
  <2>2. \A k \in K : Node(k) /\ k # InitPid
    BY <1>2, <2>1, FoundIsNode DEF KillProcess
  <2>3. nowRunning \in Pid
    BY <1>2, RunningIsNode DEF KillProcess
  <2>4. nowRunning' \in Pid /\ state'[nowRunning'] = "READY"
    BY <1>2, <1>t, <2>3, DispatchesReady DEF KillProcess
  <2>5. UNCHANGED <<ppid, priority, children, waitingFor, processes, pidToGive, reaping>>
    BY <1>2 DEF KillProcess
  <2> QED
    BY <1>i, <2>1, <2>2, <2>4, <2>5, KillStep
<1>3. CASE Escape
  <2>1. \A p \in deathList : p \in Pid /\ Node(p) /\ p # InitPid
    BY <1>3, <1>t DEF Escape, TypeOK, Node, IndInv, CpuExact
  <2>2. nowRunning \in deathList => waitingFor[nowRunning] = NULL
    BY <1>3, <2>1 DEF Escape, InterruptsEnabled, InUserCode, InInit
  <2>3. PICK K \in SUBSET Pid : K = deathList /\ KillAll(K)
    BY <1>3, <2>1 DEF Escape
  <2>4. UNCHANGED <<ppid, priority, children, waitingFor, processes, pidToGive, reaping, nowRunning>>
    BY <1>3 DEF Escape, cpuVars
  <2> QED
    BY <1>i, <2>1, <2>2, <2>3, <2>4, KillStep
<1> QED
  BY <1>1, <1>2, <1>3

\* Steps of waitchild: it frees a dead child, or blocks for a live one.
LEMMA WaitingSteps ==
    ASSUME IndInv, TypeOK', Regular,
           (\E c \in PidOrNull : WaitChild(c)) \/ ResumeWaitChild
    PROVE  IndInv'
<1>t. TypeOK
  BY DEF IndInv
<1>1. ASSUME NEW c \in PidOrNull, WaitChild(c)
      PROVE  IndInv'
  <2>1. c # 0 /\ c \in Pid /\ c \in children[nowRunning] /\ InUserCode
    BY <1>1, ConstantTypes DEF WaitChild, Regular, Asks, NULL
  <2>2. nowRunning \in Pid \ {InitPid} /\ reaping = Idle
    BY <2>1, RunningIsNode, NotReaping
  <2>3. \/ state[c] = "FINISHED" /\ Reap(c)
        \/ state[c] # "FINISHED" /\ state[nowRunning] = "READY" /\ BlockForChild(c, c)
    BY <1>1, <2>1 DEF WaitChild, Regular, Asks
  <2>4. CASE state[c] = "FINISHED" /\ Reap(c)
    BY <2>1, <2>2, <2>4, ReapStep
  <2>5. CASE /\ state[c] # "FINISHED" /\ state[nowRunning] = "READY"
             /\ BlockForChild(c, c)
    <3>1. Dispatch(state', remainingQuantum)
      BY <2>5 DEF BlockForChild, BlockAndDispatch
    <3>2. nowRunning' \in Pid /\ state'[nowRunning'] = "READY"
      BY <1>t, <2>2, <3>1, DispatchesReady
    <3> QED
      BY <2>1, <2>2, <2>5, <3>2, SleepStep
  <2> QED
    BY <2>3, <2>4, <2>5
<1>2. CASE ResumeWaitChild
  <2>1. nowRunning \in Pid \ {InitPid} /\ waitingFor[nowRunning] # NULL
    BY <1>2, RunningIsNode DEF ResumeWaitChild, IndInv, CpuExact
  <2>2. state[nowRunning] = "READY"
    BY <2>1, RunningIsNode DEF IndInv, CpuExact
  <2>3. blockedReason[nowRunning] = NoBlock
    BY <2>1, <2>2 DEF IndInv, WaitExact
  <2>4. /\ waitingFor[nowRunning] \in children[nowRunning]
        /\ state[waitingFor[nowRunning]] = "FINISHED"
    BY <2>1, <2>2, <2>3 DEF IndInv, WaitExact, Live, AsleepInWait, NoBlock
  <2>5. reaping = Idle
    BY <2>1 DEF IndInv, InitReapsTheDead
  <2> QED
    BY <1>2, <2>1, <2>4, <2>5, ReapStep DEF ResumeWaitChild
<1> QED
  BY <1>1, <1>2

\* Steps that start a process.
LEMMA StartingSteps ==
    ASSUME IndInv, TypeOK', Regular,
           \/ BootStart
           \/ \E prio \in Priority : StartParentProcess(prio)
           \/ \E dies \in BOOLEAN : StartChildProcess(dies)
    PROVE  IndInv'
<1>t. TypeOK
  BY DEF IndInv
<1>n. InitPid \in Pid /\ Node(InitPid) /\ 0 \in Priority /\ FALSE \in BOOLEAN
  BY ConstantTypes DEF IndInv, CpuExact, Node
<1>1. CASE BootStart
  <2>1. reaping = Idle
    BY <1>1 DEF BootStart, IndInv, InitReapsTheDead, NULL, InitPid
  <2> QED
    BY <1>1, <1>n, <2>1, StartStep DEF BootStart
<1>2. ASSUME NEW prio \in Priority, StartParentProcess(prio)
      PROVE  IndInv'
  BY <1>2, <1>n, NotReaping, StartStep DEF StartParentProcess
<1>3. ASSUME NEW dies \in BOOLEAN, StartChildProcess(dies)
      PROVE  IndInv'
  <2>1. nowRunning \in Pid /\ Node(nowRunning)
    BY <1>3, RunningIsNode DEF StartChildProcess
  <2>2. priority[nowRunning] \in Priority
    BY <1>t, <2>1 DEF TypeOK
  <2> QED
    BY <1>3, <2>1, <2>2, NotReaping, StartStep DEF StartChildProcess
<1> QED
  BY <1>1, <1>2, <1>3

\* Steps that only move the CPU, or waste a pid.
LEMMA TurnSteps ==
    ASSUME IndInv, TypeOK', Regular,
           Tick \/ Yield \/ StartInit \/ StartOutOfMemory
    PROVE  IndInv'
<1>t. TypeOK
  BY DEF IndInv
<1>p. pidToGive \in Nat
  BY <1>t, MaxPidAssumption DEF TypeOK
<1>1. CASE Tick
  <2>1. nowRunning \in Pid /\ reaping = Idle
    BY <1>1, RunningIsNode, NotReaping DEF Tick, InterruptsEnabled
  <2>2. nowRunning' \in Pid /\ state'[nowRunning'] = "READY"
    BY <1>1, <1>t, <2>1, DispatchesReady DEF Tick
  <2> QED
    BY <1>1, <2>1, <2>2, DispatchStep DEF Tick, listVars
<1>2. CASE Yield
  <2>1. nowRunning \in Pid /\ reaping = Idle
    BY <1>2, RunningIsNode, NotReaping DEF Yield
  <2>2. nowRunning' \in Pid /\ state'[nowRunning'] = "READY"
    BY <1>2, <1>t, <2>1, DispatchesReady DEF Yield
  <2> QED
    BY <1>2, <2>1, <2>2, DispatchStep DEF Yield, listVars
<1>3. CASE StartInit
  <2>1. reaping = Idle
    BY <1>3 DEF StartInit, IndInv, InitReapsTheDead, NULL, InitPid
  <2>2. nowRunning' \in Pid /\ state[nowRunning'] = "READY"
    BY <1>3, ConstantTypes DEF StartInit, IndInv, CpuExact
  <2> QED
    BY <1>3, <2>1, <2>2, DispatchStep DEF StartInit, tableVars, listVars
<1>4. CASE StartOutOfMemory
  <2>1. reaping = Idle
    BY <1>4, NotReaping DEF StartOutOfMemory
  <2>2. \A p \in Pid : p >= pidToGive' => p >= pidToGive
    BY <1>4, <1>p DEF StartOutOfMemory, Pid
  <2> QED
    BY <1>4, <2>1, <2>2, DispatchStep DEF StartOutOfMemory, tableVars, listVars
<1> QED
  BY <1>1, <1>2, <1>3, <1>4

\* Steps of block and nice.
LEMMA AdjustingSteps ==
    ASSUME IndInv, TypeOK', Regular,
           \/ \E p \in Pid : BlockProcess(p)
           \/ \E p \in Pid, prio \in Priority : ChangePriority(p, prio)
    PROVE  IndInv'
<1>t. TypeOK
  BY DEF IndInv
<1>1. ASSUME NEW p \in Pid, BlockProcess(p)
      PROVE  IndInv'
  <2> DEFINE reason == [source |-> "ASKED_TO", id |-> 0]
  <2>1. p # InitPid /\ InUserCode
    BY <1>1 DEF BlockProcess, MayBlock
  <2>2. nowRunning \in Pid /\ reaping = Idle
    BY <2>1, RunningIsNode, NotReaping
  <2>3. UNCHANGED <<ppid, priority, children, waitingFor, processes, deathList,
                    pidToGive, reaping>>
    BY <1>1 DEF BlockProcess
  <2>4. CASE state[p] = "READY" /\ BlockAndDispatch(p, reason)
    <3>1. Dispatch(state', remainingQuantum)
      BY <2>4 DEF BlockAndDispatch
    <3>2. nowRunning' \in Pid /\ state'[nowRunning'] = "READY"
      BY <1>t, <2>2, <3>1, DispatchesReady
    <3> QED
      BY <2>1, <2>2, <2>3, <2>4, <3>2, BlockStep DEF BlockAndDispatch
  <2>5. CASE /\ IsBlockedFor(p, reason)
             /\ state' = WithReady(state, {p}) /\ ClearReasons({p})
             /\ nowRunning' = nowRunning
    BY <2>1, <2>2, <2>3, <2>5, BlockStep
  <2> QED
    BY <1>1, <2>4, <2>5 DEF BlockProcess
<1>2. ASSUME NEW p \in Pid, NEW prio \in Priority, ChangePriority(p, prio)
      PROVE  IndInv'
  BY <1>2, FoundIsNode, NotReaping, ChangePriorityStep DEF ChangePriority
<1> QED
  BY <1>1, <1>2

\* Every step of the kernel keeps the invariant.
LEMMA IndInvStep ==
    ASSUME Regular, IndInv, [Next]_schedVars
    PROVE  IndInv'
<1>1. TypeOK'
  BY TypeStep DEF IndInv
<1>2. CASE InitStep
  BY <1>1, <1>2, InitUnlinkStep, InitDequeueStep, InitInheritStep DEF InitStep
<1>3. CASE SystemCall
  BY <1>1, <1>3, EndingSteps, WaitingSteps, StartingSteps, TurnSteps, AdjustingSteps
     DEF SystemCall
<1>4. CASE BootStart \/ StartInit \/ Tick \/ Escape
  BY <1>1, <1>4, EndingSteps, StartingSteps, TurnSteps
<1>5. CASE UNCHANGED schedVars
  BY <1>1, <1>5 DEF schedVars, tableVars, listVars, cpuVars, IndInv, PidsAhead, CpuExact,
     InitReapsTheDead, WaitExact, FamilyExact, RunListsExact, Node, Live, AsleepInWait
<1> QED
  BY <1>2, <1>3, <1>4, <1>5 DEF Next

\* The kernel starts in the invariant.
LEMMA IndInvInit ==
    ASSUME Init, TypeOK
    PROVE  IndInv
<1>1. PidsAhead
  BY DEF Init, PidsAhead, Node, InitPid, Pid
<1>2. CpuExact /\ InitReapsTheDead /\ WaitExact
  BY DEF Init, CpuExact, InitReapsTheDead, WaitExact, NoBlock, AsleepInWait
<1>3. FamilyExact
  BY DEF Init, FamilyExact, Node
<1>4. RunListsExact
  <2>1. \A pr \in Priority : processes[pr] = IF pr = PRIORITY_COUNT - 1 THEN <<InitPid>>
                                                                      ELSE <<>>
    BY DEF Init
  <2>2. /\ NoRepeats(<<>>) /\ NoRepeats(<<InitPid>>)
        /\ ToSet(<<>>) = {} /\ ToSet(<<InitPid>>) = {InitPid}
    BY DEF NoRepeats, ToSet
  <2>3. ASSUME NEW p \in Pid, NEW pr \in Priority
        PROVE  Node(p) /\ priority[p] = pr <=> p = InitPid /\ pr = PRIORITY_COUNT - 1
    BY DEF Init, Node
  <2>4. \A p \in Pid : reaping # [pid |-> p, step |-> "dequeued"]
    BY DEF Init, Idle
  <2> QED
    BY <2>1, <2>2, <2>3, <2>4 DEF RunListsExact
<1> QED
  BY <1>1, <1>2, <1>3, <1>4 DEF IndInv

\* For every number of processes and priorities, whoever sleeps in waitchild sleeps
\* for a live child and whoever wakes finds it dead, and the tree and the
\* round-robin lists stay exact, as long as waitchild is given a pid, no process
\* killed by ESC calls it, init is not interrupted while it removes a node and no
\* pid is truncated.
THEOREM InvariantHolds == ASSUME Regular PROVE Spec => []IndInv
<1>1. Init => IndInv
  BY InitTypes, IndInvInit
<1>2. IndInv /\ [Next]_schedVars => IndInv'
  BY IndInvStep
<1> QED
  BY <1>1, <1>2, PTL DEF Spec

\* No interleaving of exits, kills, ESC, adoptions and reaping loses the wake-up
\* of a parent that sleeps in waitchild.
THEOREM WakeupsAreNotLost == ASSUME Regular PROVE Spec => []NoLostWakeup
<1>1. IndInv => NoLostWakeup
  <2> SUFFICES ASSUME IndInv, NEW p \in Pid, state[p] = "BLOCKED", AsleepInWait(p)
               PROVE  LET c == waitingFor[p]
                      IN  /\ c \in children[p] /\ Live(c)
                          /\ ppid[c] = p
                          /\ blockedReason[p].id \in {c, 0}
    BY DEF NoLostWakeup, AsleepInWait
  <2>1. waitingFor[p] # NULL /\ blockedReason[p].id = waitingFor[p] /\ Live(p)
    BY DEF IndInv, WaitExact, Live
  <2>2. waitingFor[p] \in children[p] /\ Live(waitingFor[p])
    BY <2>1 DEF IndInv, WaitExact
  <2> QED
    BY <2>1, <2>2 DEF IndInv, FamilyExact
<1> QED
  BY <1>1, InvariantHolds, PTL

\* waitchild goes on only when its child is dead: "when it comes back here it is
\* because now it is FINISHED".
THEOREM ResumesForADeadChild == ASSUME Regular PROVE Spec => []ResumedForDeadChild
<1>1. IndInv => ResumedForDeadChild
  <2> SUFFICES ASSUME IndInv, nowRunning # NULL, waitingFor[nowRunning] # NULL
               PROVE  /\ state[waitingFor[nowRunning]] = "FINISHED"
                      /\ waitingFor[nowRunning] \in children[nowRunning]
    BY DEF ResumedForDeadChild
  <2>1. nowRunning \in Pid
    BY RunningIsNode
  <2>2. state[nowRunning] = "READY"
    BY DEF IndInv, CpuExact
  <2>3. blockedReason[nowRunning] = NoBlock
    BY <2>1, <2>2 DEF IndInv, WaitExact
  <2> QED
    BY <2>1, <2>2, <2>3 DEF IndInv, WaitExact, Live, AsleepInWait, NoBlock
<1> QED
  BY <1>1, InvariantHolds, PTL

\* The process tree is exact in every reachable state.
THEOREM TreeExact == ASSUME Regular PROVE Spec => []FamilyExact
<1>1. IndInv => FamilyExact
  BY DEF IndInv
<1> QED
  BY <1>1, InvariantHolds, PTL

\* The round-robin lists partition the processes in every reachable state.
THEOREM ListsExact == ASSUME Regular PROVE Spec => []RunListsExact
<1>1. IndInv => RunListsExact
  BY DEF IndInv
<1> QED
  BY <1>1, InvariantHolds, PTL

\* What a kill changes in the states: only live processes become FINISHED, only
\* BLOCKED ones READY.
LEMMA KillChanges ==
    ASSUME TypeOK, NEW K \in SUBSET Pid, KillAll(K), IndInv,
           \A k \in K : Node(k)
    PROVE  \A p \in Pid : /\ state[p] = "FINISHED" => state'[p] = "FINISHED"
                          /\ state[p] = "NONE" <=> state'[p] = "NONE"
<1>1. ASSUME NEW p \in Pid
      PROVE  p \in Released(K) => state[p] = "BLOCKED"
  <2>1. AsleepInWait(p) => state[p] = "BLOCKED"
    BY DEF IndInv, WaitExact, AsleepInWait, NoBlock
  <2> QED
    BY <2>1 DEF Released, WaitsFor, AsleepInWait
<1>2. \A p \in Pid : p \in Killed(K) => state[p] # "NONE"
  BY DEF Killed, Node
<1>3. state' = StateAfterKill(K)
  BY DEF KillAll
<1> QED
  BY <1>1, <1>2, <1>3 DEF StateAfterKill, WithReady

\* How a step may change the state of a process.
LEMMA StateChanges ==
    ASSUME Regular, IndInv, [Next]_schedVars, NEW p \in Pid
    PROVE  /\ state[p] = "FINISHED" => state'[p] \in {"FINISHED", "NONE"}
           /\ p < pidToGive /\ state[p] = "NONE" => state'[p] = "NONE"
           /\ Node(p) /\ state'[p] = "NONE" => state[p] = "FINISHED"
<1>t. TypeOK
  BY DEF IndInv
<1>s. state[p] \in {"NONE", "READY", "BLOCKED", "FINISHED"}
  BY <1>t DEF TypeOK
<1>k. ASSUME NEW K \in SUBSET Pid, KillAll(K), \A k \in K : Node(k)
      PROVE  /\ state[p] = "FINISHED" => state'[p] = "FINISHED"
             /\ state[p] = "NONE" <=> state'[p] = "NONE"
  BY <1>t, <1>k, KillChanges
<1>f. ASSUME NEW child \in Pid, state[child] = "FINISHED", Free(child)
      PROVE  state'[p] = IF p = child THEN "NONE" ELSE state[p]
  BY <1>t, <1>f DEF Free, TypeOK
<1>1. CASE Exit \/ (\E q \in Pid : KillProcess(q)) \/ Escape
  <2>1. PICK K \in SUBSET Pid : KillAll(K) /\ \A k \in K : Node(k)
    <3>1. CASE Exit
      <4>1. {nowRunning} \in SUBSET Pid /\ Node(nowRunning)
        BY <3>1, RunningIsNode DEF Exit
      <4> QED
        BY <3>1, <4>1 DEF Exit
    <3>2. ASSUME NEW q \in Pid, KillProcess(q)
          PROVE  \E K \in SUBSET Pid : KillAll(K) /\ \A k \in K : Node(k)
      <4>1. \A k \in (IF Found(q) THEN {q} ELSE {}) : k \in Pid /\ Node(k)
        BY FoundIsNode
      <4> QED
        BY <3>2, <4>1 DEF KillProcess
    <3>3. CASE Escape
      BY <3>3, <1>t DEF Escape, TypeOK, Node
    <3> QED
      BY <1>1, <3>1, <3>2, <3>3
  <2> QED
    BY <2>1, <1>k DEF Node
<1>2. CASE (\E c \in PidOrNull : WaitChild(c)) \/ ResumeWaitChild
  <2>1. \/ \E child \in Pid : state[child] = "FINISHED" /\ Free(child)
        \/ \E q \in Pid : state[q] = "READY" /\ state' = [state EXCEPT ![q] = "BLOCKED"]
    <3>1. ASSUME NEW c \in PidOrNull, WaitChild(c)
          PROVE  \/ state[c] = "FINISHED" /\ Free(c) /\ c \in Pid
                 \/ /\ state[nowRunning] = "READY" /\ nowRunning \in Pid
                    /\ state' = [state EXCEPT ![nowRunning] = "BLOCKED"]
      <4>1. c # 0 /\ c \in Pid /\ InUserCode
        BY <3>1, ConstantTypes DEF WaitChild, Regular, Asks, NULL
      <4>2. nowRunning \in Pid
        BY <4>1, RunningIsNode
      <4> QED
        BY <3>1, <4>1, <4>2
           DEF WaitChild, Regular, Asks, Reap, BlockForChild, BlockAndDispatch
    <3>2. CASE ResumeWaitChild
      <4>1. nowRunning \in Pid /\ state[nowRunning] = "READY"
        BY <3>2, RunningIsNode DEF ResumeWaitChild, IndInv, CpuExact
      <4>2. blockedReason[nowRunning] = NoBlock
        BY <4>1 DEF IndInv, WaitExact
      <4>3. /\ waitingFor[nowRunning] \in Pid
            /\ state[waitingFor[nowRunning]] = "FINISHED"
        BY <1>t, <3>2, <4>1, <4>2, ConstantTypes
           DEF ResumeWaitChild, IndInv, WaitExact, Live, AsleepInWait, NoBlock, TypeOK
      <4> QED
        BY <3>2, <4>3 DEF ResumeWaitChild, Reap
    <3> QED
      BY <1>2, <3>1, <3>2
  <2> QED
    BY <1>t, <2>1, <1>f DEF Node, TypeOK
<1>3. CASE InitStep
  <2>1. CASE InitInherit
    <3>1. reaping # Idle /\ reaping.pid \in Pid
      BY <1>t, <2>1 DEF InitInherit, TypeOK, Idle
    <3>2. state[reaping.pid] = "FINISHED"
      BY <3>1 DEF IndInv, InitReapsTheDead
    <3> QED
      BY <2>1, <3>1, <3>2, <1>f DEF InitInherit, Node
  <2>2. CASE InitDequeue \/ \E c \in Pid : InitUnlink(c)
    BY <2>2 DEF InitDequeue, InitUnlink, tableVars, Node
  <2> QED
    BY <1>3, <2>1, <2>2 DEF InitStep
<1>4. CASE \/ BootStart
           \/ \E prio \in Priority : StartParentProcess(prio)
           \/ \E dies \in BOOLEAN : StartChildProcess(dies)
  <2>1. /\ state' = [state EXCEPT ![pidToGive] = "READY"]
        /\ pidToGive \in Pid /\ ~Node(pidToGive)
    <3>1. /\ state' = [state EXCEPT ![pidToGive] = "READY"]
          /\ pidToGive <= MaxPid
      <4>1. CASE BootStart
        BY <4>1, MaxPidAssumption DEF BootStart, StartProcess
      <4>2. CASE \E prio \in Priority : StartParentProcess(prio)
        BY <4>2 DEF StartParentProcess, StartProcess
      <4>3. CASE \E dies \in BOOLEAN : StartChildProcess(dies)
        BY <4>3 DEF StartChildProcess, StartProcess
      <4> QED
        BY <1>4, <4>1, <4>2, <4>3
    <3>2. pidToGive \in Pid
      BY <1>t, <3>1, MaxPidAssumption DEF TypeOK, Pid
    <3> QED
      BY <3>1, <3>2 DEF IndInv, PidsAhead, Node, Pid
  <2>2. ~(pidToGive < pidToGive)
    BY <2>1 DEF Pid
  <2> QED
    BY <1>t, <2>1, <2>2 DEF TypeOK, Node
<1>5. CASE \E q \in Pid : BlockProcess(q)
  <2>1. PICK q \in Pid : BlockProcess(q)
    BY <1>5
  <2>2. \/ state[q] = "READY" /\ state' = [state EXCEPT ![q] = "BLOCKED"]
        \/ state[q] = "BLOCKED" /\ state' = WithReady(state, {q})
    BY <2>1 DEF BlockProcess, BlockAndDispatch, IsBlockedFor
  <2> QED
    BY <1>t, <2>2 DEF TypeOK, WithReady, Node
<1>6. CASE UNCHANGED state
  BY <1>6 DEF Node
<1> QED
  <2>1. CASE Tick \/ StartInit \/ Yield \/ StartOutOfMemory \/ UNCHANGED schedVars
             \/ \E q \in Pid, prio \in Priority : ChangePriority(q, prio)
    BY <2>1, <1>6 DEF Tick, StartInit, Yield, StartOutOfMemory, ChangePriority,
                      schedVars, tableVars
  <2> QED
    BY <1>1, <1>2, <1>3, <1>4, <1>5, <2>1 DEF Next, SystemCall

\* No step of the kernel frees the node of a process that is not dead.
THEOREM OnlyTheDeadAreFreed == ASSUME Regular PROVE Spec => FreesOnlyTheDead
<1>1. IndInv /\ [Next]_schedVars =>
        [\A p \in Pid : Node(p) /\ state'[p] = "NONE" => state[p] = "FINISHED"]_schedVars
  BY StateChanges
<1> QED
  BY <1>1, InvariantHolds, PTL DEF Spec, FreesOnlyTheDead

\* No late wake-up, unblock or kill brings a dead process back, and no pid is
\* used twice.
THEOREM TheDeadStayDead == ASSUME Regular PROVE Spec => DeadStaysDead
<1>1. IndInv /\ [Next]_schedVars =>
        [\A p \in Pid :
           /\ state[p] = "FINISHED" => state'[p] \in {"FINISHED", "NONE"}
           /\ p < pidToGive /\ state[p] = "NONE" => state'[p] = "NONE"]_schedVars
  BY StateChanges
<1> QED
  BY <1>1, InvariantHolds, PTL DEF Spec, DeadStaysDead

-----------------------------------------------------------------------------
HIDE ConstantTypes

\* The part of the mapping that IndInv leaves open: who is not in the table, and
\* init, has no parent.
NoParent ==
    /\ ppid[InitPid] = NULL
    /\ \A p \in Pid : ~Node(p) => ppid[p] = NULL

RefInv == IndInv /\ NoParent

\* A step is a step of the promise, or it is not seen.
Kept == NoParent' /\ [Promise!Next]_(Promise!familyVars)

-----------------------------------------------------------------------------
(* One lemma for each step of the promise.                                 *)

\* A step that leaves life, death, parents and sleepers alone.
LEMMA Unseen ==
    ASSUME RefInv, ppid' = ppid, pidToGive' = pidToGive,
           \A p \in Pid : /\ Node(p)' <=> Node(p)
                          /\ state'[p] = "FINISHED" <=> state[p] = "FINISHED"
                          /\ SleepsFor'[p] = SleepsFor[p]
    PROVE  Kept
<1>1. Status' = Status
  BY DEF Status, Node
<1>2. SleepsFor' = SleepsFor
  BY DEF SleepsFor
<1>3. NoParent'
  BY DEF RefInv, NoParent
<1> QED
  BY <1>1, <1>2, <1>3 DEF Kept, Promise!familyVars

\* A new process is a child of the one startProcess names.
LEMMA ForkSeen ==
    ASSUME RefInv, NEW parent \in Pid, Node(parent), NEW child \in Pid,
           ~Node(child), child = pidToGive, pidToGive' = pidToGive + 1,
           state' = [state EXCEPT ![child] = "READY"],
           ppid' = [ppid EXCEPT ![child] = parent],
           UNCHANGED <<blockedReason, waitingFor>>
    PROVE  Kept
<1>t. /\ state \in [Pid -> {"NONE", "READY", "BLOCKED", "FINISHED"}]
      /\ ppid \in [Pid -> PidOrNull]
  BY DEF RefInv, IndInv, TypeOK
<1>1. \A p \in Pid : p # child => (p < pidToGive <=> p < pidToGive')
  BY DEF Pid
<1>2. Status' = [Status EXCEPT ![child] = "live"]
  BY <1>t, <1>1 DEF Status
<1>3. SleepsFor' = SleepsFor
  BY <1>t DEF SleepsFor, AsleepInWait, Node
<1>4. Status[parent] \in {"live", "dead"} /\ Status[child] = "unborn"
  BY <1>t DEF Status, Node, Pid
<1>5. Promise!Fork(parent, child)
  BY <1>2, <1>3, <1>4 DEF Promise!Fork
<1>6. NoParent'
  <2>1. child # InitPid
    BY DEF RefInv, IndInv, CpuExact, Node
  <2> QED
    BY <1>t, <2>1 DEF RefInv, NoParent, Node
<1> QED
  BY <1>5, <1>6 DEF Kept, Promise!Next

\* A pid whose process could not be made is never used.
LEMMA SkipSeen ==
    ASSUME RefInv, NEW child \in Pid, child = pidToGive, pidToGive' = pidToGive + 1,
           UNCHANGED tableVars
    PROVE  Kept
<1>u. UNCHANGED <<state, blockedReason, ppid, waitingFor>>
  BY DEF tableVars
<1>1. state[child] = "NONE" /\ ~(child < pidToGive) /\ child < pidToGive'
  BY DEF RefInv, IndInv, PidsAhead, Pid, Node
<1>2. \A p \in Pid : p # child => (p < pidToGive <=> p < pidToGive')
  BY DEF Pid
<1>3. Status' = [Status EXCEPT ![child] = "collected"] /\ Status[child] = "unborn"
  BY <1>u, <1>1, <1>2 DEF Status
<1>4. SleepsFor' = SleepsFor
  BY <1>u DEF SleepsFor, AsleepInWait
<1>5. Promise!Skip(child)
  BY <1>u, <1>3, <1>4 DEF Promise!Skip
<1>6. NoParent'
  BY <1>u DEF RefInv, NoParent, Node
<1> QED
  BY <1>5, <1>6 DEF Kept, Promise!Next

\* Who sleeps in waitchild for another process.
LEMMA Sleepers ==
    ASSUME IndInv, NEW p \in Pid
    PROVE  /\ state[p] = "BLOCKED" /\ AsleepInWait(p) <=> AsleepInWait(p)
           /\ AsleepInWait(p) => /\ waitingFor[p] \in Pid /\ Live(waitingFor[p])
                                 /\ SleepsFor[p] = waitingFor[p]
           /\ ~AsleepInWait(p) => SleepsFor[p] = NULL
<1>1. AsleepInWait(p) => state[p] = "BLOCKED"
  BY DEF IndInv, WaitExact, AsleepInWait, NoBlock
<1>2. AsleepInWait(p) => waitingFor[p] # NULL /\ Live(p) /\ Live(waitingFor[p])
  BY <1>1 DEF IndInv, WaitExact, Live
<1>3. waitingFor[p] # NULL => waitingFor[p] \in Pid
  BY ConstantTypes DEF IndInv, TypeOK
<1> QED
  BY <1>1, <1>2, <1>3 DEF SleepsFor

\* A kill, of one process or of all that die on ESC.
LEMMA DeathSeen ==
    ASSUME RefInv, reaping = Idle, NEW K \in SUBSET Pid, KillAll(K),
           \A k \in K : Node(k) /\ k # InitPid,
           UNCHANGED <<ppid, waitingFor, pidToGive>>
    PROVE  Kept
<1> DEFINE V == {p \in K : Live(p)}
<1>t. state \in [Pid -> {"NONE", "READY", "BLOCKED", "FINISHED"}]
  BY DEF RefInv, IndInv, TypeOK
<1>k. \A p \in Pid :
        /\ p \in K => state'[p] = "FINISHED" /\ blockedReason'[p] = NoBlock
        /\ p \notin K /\ AsleepInWait(p) /\ waitingFor[p] \in K =>
             state'[p] = "READY" /\ blockedReason'[p] = NoBlock
        /\ p \notin K /\ ~(AsleepInWait(p) /\ waitingFor[p] \in K) =>
             state'[p] = state[p] /\ blockedReason'[p] = blockedReason[p]
  BY KillAllExact DEF RefInv
<1>a. \A p \in Pid : AsleepInWait(p) => /\ state[p] = "BLOCKED"
                                        /\ waitingFor[p] \in Pid /\ Live(waitingFor[p])
                                        /\ SleepsFor[p] = waitingFor[p]
  BY Sleepers DEF RefInv
<1>b. \A p \in Pid : ~AsleepInWait(p) => SleepsFor[p] = NULL
  BY Sleepers DEF RefInv
<1>1. Status' = [p \in Pid |-> IF p \in V THEN "dead" ELSE Status[p]]
  <2>1. ASSUME NEW p \in Pid
        PROVE  Status'[p] = IF p \in V THEN "dead" ELSE Status[p]
    BY <1>t, <1>k, <1>a DEF Status, Live, Node
  <2> QED
    BY <2>1 DEF Status
<1>2. SleepsFor' = [p \in Pid |-> IF p \in V \/ SleepsFor[p] \in V
                                  THEN NULL ELSE SleepsFor[p]]
  <2>1. ASSUME NEW p \in Pid
        PROVE  SleepsFor'[p] = IF p \in V \/ SleepsFor[p] \in V THEN NULL ELSE SleepsFor[p]
    <3>1. CASE p \in K
      <4>1. SleepsFor'[p] = NULL
        BY <1>k, <3>1 DEF SleepsFor
      <4>2. p \notin V => SleepsFor[p] = NULL
        BY <1>a, <1>b, <3>1 DEF Live
      <4> QED
        BY <4>1, <4>2
    <3>2. CASE p \notin K /\ AsleepInWait(p) /\ waitingFor[p] \in K
      <4>1. SleepsFor'[p] = NULL
        BY <1>k, <3>2 DEF SleepsFor
      <4> QED
        BY <1>a, <3>2, <4>1
    <3>3. CASE p \notin K /\ ~(AsleepInWait(p) /\ waitingFor[p] \in K)
      <4>1. SleepsFor'[p] = SleepsFor[p]
        BY <1>k, <3>3 DEF SleepsFor, AsleepInWait
      <4>2. SleepsFor[p] \notin V
        BY <1>a, <1>b, <3>3, ConstantTypes
      <4> QED
        BY <3>3, <4>1, <4>2
    <3> QED
      BY <3>1, <3>2, <3>3
  <2> QED
    BY <2>1 DEF SleepsFor
<1>3. InitPid \notin V /\ \A p \in V : Status[p] = "live"
  BY DEF Status, Live
<1> HIDE DEF V
<1>4. V \in SUBSET Pid /\ Promise!Die(V)
  BY <1>1, <1>2, <1>3 DEF Promise!Die, V
<1>5. NoParent'
  BY <1>t, <1>k, <1>a DEF RefInv, NoParent, Node
<1> QED
  BY <1>4, <1>5 DEF Kept, Promise!Next

\* A parent goes to sleep for a live child.
LEMMA SleepSeen ==
    ASSUME RefInv, NEW child \in Pid, nowRunning \in Pid, child \in children[nowRunning],
           state[child] # "FINISHED", state[nowRunning] = "READY",
           BlockForChild(child, child)
    PROVE  Kept
<1> DEFINE reason == [source |-> "WAIT_CHILD", id |-> child]
<1>t. /\ state \in [Pid -> {"NONE", "READY", "BLOCKED", "FINISHED"}]
      /\ blockedReason \in [Pid -> BlockedReason]
      /\ waitingFor \in [Pid -> PidOrNull]
  BY DEF RefInv, IndInv, TypeOK
<1>u. /\ state' = [state EXCEPT ![nowRunning] = "BLOCKED"]
      /\ blockedReason' = [blockedReason EXCEPT ![nowRunning] = reason]
      /\ waitingFor' = [waitingFor EXCEPT ![nowRunning] = child]
      /\ UNCHANGED <<ppid, pidToGive>>
  BY DEF BlockForChild, BlockAndDispatch
<1>1. Status' = Status
  BY <1>t, <1>u DEF Status
<1>2. SleepsFor' = [SleepsFor EXCEPT ![nowRunning] = child]
  BY <1>t, <1>u DEF SleepsFor, AsleepInWait
<1>3. SleepsFor[nowRunning] = NULL
  BY DEF SleepsFor
<1>4. Node(child) /\ ppid[child] = nowRunning
  BY DEF RefInv, IndInv, FamilyExact
<1>5. Status[nowRunning] = "live" /\ Status[child] = "live"
  BY <1>4 DEF Status, Node
<1>6. Promise!Sleep(nowRunning, child)
  BY <1>u, <1>1, <1>2, <1>3, <1>4, <1>5 DEF Promise!Sleep
<1>7. NoParent'
  BY <1>t, <1>u DEF RefInv, NoParent, Node
<1> QED
  BY <1>6, <1>7 DEF Kept, Promise!Next

\* A dead process is freed, and its children become children of init.
LEMMA CollectSeen ==
    ASSUME RefInv, NEW child \in Pid, child # InitPid, state[child] = "FINISHED",
           reaping = Idle \/ reaping.pid = child,
           Free(child), AdoptedByInit(child), pidToGive' = pidToGive,
           \A p \in Pid : waitingFor'[p] = waitingFor[p] \/ ~AsleepInWait(p)
    PROVE  Kept
<1>t. /\ state \in [Pid -> {"NONE", "READY", "BLOCKED", "FINISHED"}]
      /\ blockedReason \in [Pid -> BlockedReason]
      /\ ppid \in [Pid -> PidOrNull]
  BY DEF RefInv, IndInv, TypeOK
<1>u. /\ state' = [state EXCEPT ![child] = "NONE"]
      /\ blockedReason' = [blockedReason EXCEPT ![child] = NoBlock]
      /\ ppid' = [q \in Pid |-> IF q \in children[child] THEN InitPid
                                ELSE IF q = child THEN NULL ELSE ppid[q]]
  BY DEF Free, AdoptedByInit
<1>1. child < pidToGive
  BY DEF RefInv, IndInv, PidsAhead, Node, Pid, TypeOK
<1>2. Status' = [Status EXCEPT ![child] = "collected"] /\ Status[child] = "dead"
  BY <1>t, <1>u, <1>1 DEF Status
<1>3. SleepsFor' = SleepsFor
  <2>1. ~AsleepInWait(child)
    BY Sleepers DEF RefInv
  <2>2. ASSUME NEW p \in Pid PROVE SleepsFor'[p] = SleepsFor[p]
    BY <1>t, <1>u, <2>1 DEF SleepsFor, AsleepInWait
  <2> QED
    BY <2>2 DEF SleepsFor
<1>4. \A q \in Pid \ {child} : q \in children[child] <=> ppid[q] = child
  <2>1. ASSUME NEW q \in Pid \ {child}, ppid[q] = child PROVE q \in children[child]
    <3>1. q # InitPid /\ Node(q)
      BY <2>1, ConstantTypes DEF RefInv, NoParent
    <3>2. q # reaping.pid
      BY ConstantTypes DEF Idle
    <3> QED
      BY <2>1, <3>1, <3>2 DEF RefInv, IndInv, FamilyExact
  <2> QED
    BY <2>1 DEF RefInv, IndInv, FamilyExact
<1>5. child \notin children[child]
  BY DEF RefInv, IndInv, FamilyExact, Pid
<1>6. ppid' = [q \in Pid |-> IF q = child THEN NULL
                             ELSE IF ppid[q] = child THEN InitPid ELSE ppid[q]]
  BY <1>u, <1>4, <1>5
<1>7. Promise!Collect(child)
  BY <1>2, <1>3, <1>6 DEF Promise!Collect
<1>8. NoParent'
  <2>1. ppid'[InitPid] = NULL
    BY <1>6, ConstantTypes DEF RefInv, NoParent
  <2>2. ASSUME NEW q \in Pid, ~Node(q)' PROVE ppid'[q] = NULL
    <3>1. q = child \/ ~Node(q)
      BY <1>t, <1>u, <2>2 DEF Node
    <3> QED
      BY <1>6, <3>1, ConstantTypes DEF RefInv, NoParent
  <2> QED
    BY <2>1, <2>2 DEF NoParent
<1> QED
  BY <1>7, <1>8 DEF Kept, Promise!Next

-----------------------------------------------------------------------------
(* Which step of the promise each action is.                               *)

LEMMA Starts ==
    ASSUME RefInv, Regular,
           \/ BootStart
           \/ \E prio \in Priority : StartParentProcess(prio)
           \/ \E dies \in BOOLEAN : StartChildProcess(dies)
    PROVE  Kept
<1>1. \E parent \in Pid : \E prio, dies : Node(parent) /\ StartProcess(prio, parent, dies)
  <2>1. InitPid \in Pid /\ Node(InitPid)
    BY ConstantTypes DEF RefInv, IndInv, CpuExact, Node
  <2>2. InUserCode => nowRunning \in Pid /\ Node(nowRunning)
    BY RunningIsNode DEF RefInv, InUserCode
  <2>3. CASE BootStart
    BY <2>1, <2>3 DEF BootStart
  <2>4. CASE \E prio \in Priority : StartParentProcess(prio)
    BY <2>1, <2>4 DEF StartParentProcess
  <2>5. CASE \E dies \in BOOLEAN : StartChildProcess(dies)
    BY <2>2, <2>5 DEF StartChildProcess
  <2> QED
    BY <2>3, <2>4, <2>5
<1>2. PICK parent \in Pid : \E prio, dies : Node(parent) /\ StartProcess(prio, parent, dies)
  BY <1>1
<1>3. PICK child \in Pid : child = pidToGive
  BY <1>2, MaxPidAssumption DEF StartProcess, RefInv, IndInv, TypeOK, Pid
<1>4. /\ state' = [state EXCEPT ![child] = "READY"]
      /\ ppid' = [ppid EXCEPT ![child] = parent % PPID_RANGE]
      /\ pidToGive' = pidToGive + 1
      /\ UNCHANGED <<blockedReason, waitingFor>>
  BY <1>2, <1>3 DEF StartProcess
<1>5. parent % PPID_RANGE = parent
  BY PpidTruncation DEF Regular
<1>6. ~Node(child)
  BY <1>3 DEF RefInv, IndInv, PidsAhead, Pid
<1> QED
  BY <1>2, <1>3, <1>4, <1>5, <1>6, ForkSeen

LEMMA Deaths ==
    ASSUME RefInv, Regular, Exit \/ (\E p \in Pid : KillProcess(p)) \/ Escape
    PROVE  Kept
<1>1. reaping = Idle
  BY NotReaping DEF RefInv, Exit, KillProcess, Escape
<1>2. UNCHANGED <<ppid, waitingFor, pidToGive>>
  BY DEF Exit, KillProcess, Escape, cpuVars
<1>3. PICK K \in SUBSET Pid : KillAll(K) /\ \A k \in K : Node(k) /\ k # InitPid
  <2>1. CASE Exit
    <3>1. {nowRunning} \in SUBSET Pid /\ Node(nowRunning) /\ nowRunning # InitPid
      BY <2>1, RunningIsNode DEF RefInv, Exit, InUserCode
    <3> QED
      BY <2>1, <3>1 DEF Exit
  <2>2. ASSUME NEW p \in Pid, KillProcess(p)
        PROVE  \E K \in SUBSET Pid : KillAll(K) /\ \A k \in K : Node(k) /\ k # InitPid
    <3>1. \A k \in (IF Found(p) THEN {p} ELSE {}) : k \in Pid /\ Node(k) /\ k # InitPid
      BY <2>2, FoundIsNode DEF RefInv, KillProcess
    <3> QED
      BY <2>2, <3>1 DEF KillProcess
  <2>3. CASE Escape
    BY <2>3 DEF Escape, RefInv, IndInv, TypeOK, CpuExact, Node
  <2> QED
    BY <2>1, <2>2, <2>3
<1> QED
  BY <1>1, <1>2, <1>3, DeathSeen

LEMMA Waits ==
    ASSUME RefInv, Regular, (\E c \in PidOrNull : WaitChild(c)) \/ ResumeWaitChild
    PROVE  Kept
<1>1. ASSUME NEW child \in Pid, nowRunning \in Pid \ {InitPid},
             child \in children[nowRunning], state[child] = "FINISHED", Reap(child)
      PROVE  Kept
  <2>1. reaping = Idle
    BY <1>1 DEF RefInv, IndInv, InitReapsTheDead
  <2>2. child # InitPid
    BY <1>1 DEF RefInv, IndInv, CpuExact
  <2>3. ~AsleepInWait(nowRunning) /\ ~AsleepInWait(child)
    BY <1>1, Sleepers, ConstantTypes DEF RefInv, IndInv, CpuExact
  <2>4. \A p \in Pid : waitingFor'[p] = waitingFor[p] \/ ~AsleepInWait(p)
    <3>1. waitingFor \in [Pid -> PidOrNull]
      BY DEF RefInv, IndInv, TypeOK
    <3> QED
      BY <1>1, <2>3, <3>1 DEF Reap
  <2> QED
    BY <1>1, <2>1, <2>2, <2>4, CollectSeen DEF Reap, cpuVars
<1>2. ASSUME NEW c \in PidOrNull, WaitChild(c)
      PROVE  Kept
  <2>1. c # 0 /\ c \in Pid /\ c \in children[nowRunning] /\ InUserCode
    BY <1>2, ConstantTypes DEF WaitChild, Regular, Asks, NULL
  <2>2. nowRunning \in Pid \ {InitPid}
    BY <2>1, RunningIsNode DEF RefInv
  <2>3. \/ state[c] = "FINISHED" /\ Reap(c)
        \/ state[c] # "FINISHED" /\ state[nowRunning] = "READY" /\ BlockForChild(c, c)
    BY <1>2, <2>1 DEF WaitChild, Regular, Asks
  <2> QED
    BY <1>1, <2>1, <2>2, <2>3, SleepSeen
<1>3. CASE ResumeWaitChild
  <2>1. nowRunning \in Pid \ {InitPid} /\ waitingFor[nowRunning] # NULL
    BY <1>3, RunningIsNode DEF ResumeWaitChild, RefInv, IndInv, CpuExact
  <2>2. state[nowRunning] = "READY"
    BY <2>1, ConstantTypes DEF RefInv, IndInv, CpuExact
  <2>3. ~AsleepInWait(nowRunning) /\ Live(nowRunning)
    BY <2>1, <2>2, Sleepers DEF RefInv, Live
  <2>4. /\ waitingFor[nowRunning] \in children[nowRunning]
        /\ state[waitingFor[nowRunning]] = "FINISHED"
    BY <2>1, <2>3 DEF RefInv, IndInv, WaitExact
  <2>5. waitingFor[nowRunning] \in Pid
    BY <2>1, ConstantTypes DEF RefInv, IndInv, TypeOK
  <2> QED
    BY <1>1, <1>3, <2>1, <2>4, <2>5 DEF ResumeWaitChild
<1> QED
  BY <1>2, <1>3

LEMMA InitSteps ==
    ASSUME RefInv, InitStep
    PROVE  Kept
<1>t. reaping \in {Idle} \cup [pid : Pid, step : {"unlinked", "dequeued"}]
  BY DEF RefInv, IndInv, TypeOK
<1>1. CASE InitDequeue \/ \E c \in Pid : InitUnlink(c)
  <2>1. UNCHANGED <<state, blockedReason, ppid, waitingFor, pidToGive>>
    BY <1>1 DEF InitDequeue, InitUnlink, tableVars
  <2> QED
    BY <2>1, Unseen DEF Node, SleepsFor, AsleepInWait
<1>2. CASE InitInherit
  <2>1. PICK child \in Pid : child = reaping.pid
    BY <1>2, <1>t DEF InitInherit, Idle
  <2>2. child # InitPid /\ state[child] = "FINISHED"
    BY <1>2, <2>1 DEF InitInherit, Idle, RefInv, IndInv, InitReapsTheDead
  <2>3. ~AsleepInWait(child)
    BY <2>2, Sleepers DEF RefInv
  <2>4. \A p \in Pid : waitingFor'[p] = waitingFor[p] \/ ~AsleepInWait(p)
    <3>1. waitingFor \in [Pid -> PidOrNull]
      BY DEF RefInv, IndInv, TypeOK
    <3> QED
      BY <1>2, <2>1, <2>3, <3>1 DEF InitInherit
  <2> QED
    BY <1>2, <2>1, <2>2, <2>4, CollectSeen DEF InitInherit
<1> QED
  BY <1>1, <1>2 DEF InitStep

LEMMA Blocks ==
    ASSUME RefInv, NEW p \in Pid, BlockProcess(p)
    PROVE  Kept
<1> DEFINE reason == [source |-> "ASKED_TO", id |-> 0]
<1>t. /\ state \in [Pid -> {"NONE", "READY", "BLOCKED", "FINISHED"}]
      /\ blockedReason \in [Pid -> BlockedReason]
  BY DEF RefInv, IndInv, TypeOK
<1>1. UNCHANGED <<ppid, waitingFor, pidToGive>>
  BY DEF BlockProcess
<1>2. CASE state[p] = "READY" /\ BlockAndDispatch(p, reason)
  <2>1. /\ state' = [state EXCEPT ![p] = "BLOCKED"]
        /\ blockedReason' = [blockedReason EXCEPT ![p] = reason]
    BY <1>2 DEF BlockAndDispatch
  <2> QED
    BY <1>t, <1>1, <1>2, <2>1, Unseen DEF Node, SleepsFor, AsleepInWait
<1>3. CASE IsBlockedFor(p, reason) /\ state' = WithReady(state, {p}) /\ ClearReasons({p})
  <2>1. /\ state[p] = "BLOCKED" /\ blockedReason[p].source = "ASKED_TO"
        /\ \A q \in Pid : /\ state'[q] = IF q = p THEN "READY" ELSE state[q]
                          /\ q # p => blockedReason'[q] = blockedReason[q]
    BY <1>3 DEF IsBlockedFor, WithReady, ClearReasons
  <2> QED
    BY <1>t, <1>1, <2>1, Unseen DEF Node, SleepsFor, AsleepInWait
<1> QED
  BY <1>2, <1>3 DEF BlockProcess

-----------------------------------------------------------------------------

\* Every step of the kernel is a step of the promise, or is not seen.
LEMMA StepKept ==
    ASSUME RefInv, Regular, [Next]_schedVars
    PROVE  Kept
<1>1. CASE StartOutOfMemory
  <2>1. PICK child \in Pid : child = pidToGive
    BY <1>1, MaxPidAssumption DEF StartOutOfMemory, RefInv, IndInv, TypeOK, Pid
  <2> QED
    BY <1>1, <2>1, SkipSeen DEF StartOutOfMemory
<1>2. CASE \/ Tick \/ StartInit \/ Yield \/ UNCHANGED schedVars
           \/ \E p \in Pid, prio \in Priority : ChangePriority(p, prio)
  <2>1. UNCHANGED <<state, blockedReason, ppid, waitingFor, pidToGive>>
    BY <1>2 DEF Tick, StartInit, Yield, ChangePriority, schedVars, tableVars, cpuVars
  <2> QED
    BY <2>1, Unseen DEF Node, SleepsFor, AsleepInWait
<1> QED
  BY <1>1, <1>2, Starts, Deaths, Waits, InitSteps, Blocks DEF Next, SystemCall

\* The scheduler keeps the promise of ProcessFamily: one parent each, a sleeping
\* parent woken in the step in which its child dies, one collection after death, and
\* orphans that become children of init.
THEOREM KeepsTheFamily == ASSUME Regular PROVE Spec => ImplementsProcessFamily
<1>1. Init => Promise!Init /\ NoParent
  <2> SUFFICES ASSUME Init PROVE Promise!Init /\ NoParent
    OBVIOUS
  <2>1. Status = [p \in Pid |-> IF p = InitPid THEN "live" ELSE "unborn"]
    BY DEF Init, Status, Pid, InitPid
  <2>2. SleepsFor = [p \in Pid |-> NULL]
    BY DEF Init, SleepsFor
  <2> QED
    BY <2>1, <2>2, ConstantTypes DEF Init, Promise!Init, NoParent
<1>2. IndInv /\ NoParent /\ [Next]_schedVars
        => NoParent' /\ [Promise!Next]_(Promise!familyVars)
  BY StepKept DEF RefInv, Kept
<1> QED
  BY <1>1, <1>2, InvariantHolds, PTL DEF Spec, ImplementsProcessFamily, Promise!Spec

-----------------------------------------------------------------------------
(* findNextProcess.                                                        *)

\* The lists are taken in a circle, so each of them has its turn.
LEMMA EveryListIsScanned ==
    ASSUME NEW a \in Priority, NEW b \in Priority
    PROVE  \E i \in 2 .. PRIORITY_COUNT + 1 : (a + i - 1) % PRIORITY_COUNT = b
<1> DEFINE n == PRIORITY_COUNT
<1>1. n \in Nat /\ n >= 1 /\ a \in 0 .. n - 1 /\ b \in 0 .. n - 1
  BY PriorityAssumption DEF Priority
<1> HIDE DEF n
<1>2. CASE b > a
  <2>1. b - a + 1 \in 2 .. n + 1 /\ a + (b - a + 1) - 1 = b
    BY <1>1, <1>2
  <2>2. b % n = b
    BY <1>1
  <2> QED
    BY <2>1, <2>2 DEF n
<1>3. CASE b <= a
  <2>1. b - a + n + 1 \in 2 .. n + 1 /\ a + (b - a + n + 1) - 1 = b + n
    BY <1>1, <1>3
  <2>2. (b + n) % n = b
    BY <1>1
  <2> QED
    BY <2>1, <2>2 DEF n
<1> QED
  BY <1>1, <1>2, <1>3

\* The scan stops at a process that is READY, if there is one in a list.
LEMMA ScanFinds ==
    ASSUME TypeOK, nowRunning \in Pid, NEW p \in Pid, state[p] = "READY", p \in Queued,
           nowRunning \in ToSet(processes[priority[nowRunning]])
    PROVE  FindNextProcess(state) # {}
<1> DEFINE Ready(i) == \E q \in ToSet(ScanOrder[i]) : state[q] = "READY"
           I == {i \in 1 .. PRIORITY_COUNT + 1 : Ready(i)}
<1>p. PRIORITY_COUNT \in Nat /\ PRIORITY_COUNT >= 1
  BY PriorityAssumption
<1>1. DOMAIN ScanOrder = 1 .. PRIORITY_COUNT + 1
  BY DEF ScanOrder
<1>2. \A i \in 1 .. PRIORITY_COUNT + 1 : ScanOrder[i] \in Seq(Pid)
  <2>1. priority[nowRunning] \in Priority /\ \A pr \in Priority : processes[pr] \in Seq(Pid)
    BY DEF TypeOK
  <2>2. PICK own \in Seq(Pid) : own = processes[priority[nowRunning]]
    BY <2>1
  <2>3. IndexIn(own, nowRunning) \in 1 .. Len(own)
    BY <2>2, UnlinkElements
  <2>4. SubSeq(own, IndexIn(own, nowRunning) + 1, Len(own)) \in Seq(Pid)
    BY <2>3
  <2>5. ASSUME NEW i \in 2 .. PRIORITY_COUNT + 1
        PROVE  (priority[nowRunning] + i - 1) % PRIORITY_COUNT \in Priority
    BY <1>p, <2>1 DEF Priority
  <2> QED
    BY <1>p, <2>1, <2>2, <2>4, <2>5 DEF ScanOrder
<1>3. I # {}
  <2>1. PICK b \in Priority : p \in ToSet(processes[b])
    BY DEF Queued
  <2>2. priority[nowRunning] \in Priority
    BY DEF TypeOK
  <2>3. PICK i \in 2 .. PRIORITY_COUNT + 1 : (priority[nowRunning] + i - 1) % PRIORITY_COUNT = b
    BY <2>2, EveryListIsScanned
  <2>4. i \in 1 .. PRIORITY_COUNT + 1 /\ ScanOrder[i] = processes[b]
    BY <1>p, <2>3 DEF ScanOrder
  <2> QED
    BY <2>1, <2>4
<1>4. PICK i \in I : \A h \in I : i <= h
  <2>1. I \in SUBSET Nat
    OBVIOUS
  <2> HIDE DEF I
  <2> QED
    BY <1>3, <2>1, LeastNatural
<1>5. PICK list \in Seq(Pid) : list = ScanOrder[i] /\ \E q \in ToSet(list) : state[q] = "READY"
  BY <1>2
<1> DEFINE K == {k \in 1 .. Len(list) : state[list[k]] = "READY"}
<1>6. PICK k \in K : \A j \in K : k <= j
  <2>1. K \in SUBSET Nat /\ K # {}
    BY <1>5 DEF ToSet
  <2> HIDE DEF K
  <2> QED
    BY <2>1, LeastNatural
<1>7. \A j \in 1 .. k - 1 : state[list[j]] # "READY"
  BY <1>6
<1>8. \A h \in 1 .. i - 1 : \A q \in ToSet(ScanOrder[h]) : state[q] # "READY"
  <2>1. \A h \in 1 .. i - 1 : h \notin I /\ h \in 1 .. PRIORITY_COUNT + 1
    BY <1>p, <1>4
  <2> QED
    BY <2>1
<1>9. list[k] \in Pid /\ state[list[k]] = "READY" /\ k \in DOMAIN list
  BY <1>6
<1>10. list[k] \in FindNextProcess(state)
  <2> HIDE DEF Ready
  <2>1. i \in DOMAIN ScanOrder
    BY <1>1
  <2> QED
    BY <1>5, <1>7, <1>8, <1>9, <2>1 DEF FindNextProcess
<1> QED
  BY <1>10

\* Whoever gives up the CPU, the timer interrupt finds a process to give it to: init
\* is READY and in a list, and the scan comes to all lists.
THEOREM ScanAlwaysEnds == ASSUME Regular PROVE Spec => []SchedulerNeverHangs
<1>1. IndInv => SchedulerNeverHangs
  <2> SUFFICES ASSUME IndInv PROVE SchedulerNeverHangs
    OBVIOUS
  <2>1. ASSUME NEW p \in Pid, Node(p), p # reaping.pid
        PROVE  p \in ToSet(processes[priority[p]]) /\ p \in Queued
    <3>1. priority[p] \in Priority
      BY DEF IndInv, TypeOK
    <3>2. p \in ToSet(processes[priority[p]])
      BY <2>1, <3>1 DEF IndInv, RunListsExact
    <3> QED
      BY <3>1, <3>2 DEF Queued
  <2>2. state[InitPid] = "READY" /\ InitPid \in Pid /\ InitPid # reaping.pid
    BY ConstantTypes DEF IndInv, CpuExact, InitReapsTheDead, Idle
  <2>3. ASSUME nowRunning # NULL
        PROVE  /\ nowRunning \in Queued /\ state[nowRunning] # "BLOCKED"
               /\ FindNextProcess(state) # {}
    <3>1. nowRunning \in Pid /\ Node(nowRunning)
      BY <2>3, RunningIsNode
    <3>2. nowRunning # reaping.pid
      BY <2>2, <3>1, ConstantTypes DEF IndInv, InitReapsTheDead, Idle
    <3>3. InitPid \in Queued /\ Node(InitPid)
      BY <2>1, <2>2 DEF Node
    <3> QED
      BY <2>1, <2>2, <2>3, <3>1, <3>2, <3>3, ScanFinds DEF IndInv, CpuExact
  <2> QED
    BY <2>2, <2>3 DEF SchedulerNeverHangs
<1> QED
  BY <1>1, InvariantHolds, PTL

-----------------------------------------------------------------------------
(* The death list.                                                         *)

\* Who is killed leaves the list in the same step.
LEMMA DeathListAfterKill ==
    ASSUME IndInv, DeathListLive, reaping = Idle, NEW K \in SUBSET Pid, KillAll(K),
           \A k \in K : Node(k) /\ k # InitPid
    PROVE  DeathListLive'
<1>1. deathList \in SUBSET Pid /\ deathList' = deathList \ K
  BY DEF IndInv, TypeOK, KillAll
<1>2. \A p \in Pid : p \notin K => state'[p] \in {"READY", state[p]}
  BY KillAllExact
<1> QED
  BY <1>1, <1>2 DEF DeathListLive, Live

\* Who is freed was dead, and so is not in the list.
LEMMA DeathListAfterFree ==
    ASSUME IndInv, DeathListLive, NEW child \in Pid, state[child] = "FINISHED", Free(child),
           deathList' = deathList
    PROVE  DeathListLive'
<1>1. /\ deathList \in SUBSET Pid
      /\ state \in [Pid -> {"NONE", "READY", "BLOCKED", "FINISHED"}]
  BY DEF IndInv, TypeOK
<1> QED
  BY <1>1 DEF DeathListLive, Live, Free

LEMMA DeathListStep ==
    ASSUME IndInv, Regular, DeathListLive, [Next]_schedVars
    PROVE  DeathListLive'
<1>t. /\ deathList \in SUBSET Pid
      /\ state \in [Pid -> {"NONE", "READY", "BLOCKED", "FINISHED"}]
      /\ waitingFor \in [Pid -> PidOrNull]
  BY DEF IndInv, TypeOK
<1>1. CASE Exit \/ (\E p \in Pid : KillProcess(p)) \/ Escape
  <2>1. reaping = Idle
    BY <1>1, NotReaping DEF Exit, KillProcess, Escape
  <2>2. PICK K \in SUBSET Pid : KillAll(K) /\ \A k \in K : Node(k) /\ k # InitPid
    <3>1. CASE Exit
      <4>1. {nowRunning} \in SUBSET Pid /\ Node(nowRunning) /\ nowRunning # InitPid
        BY <3>1, RunningIsNode DEF Exit, InUserCode
      <4> QED
        BY <3>1, <4>1 DEF Exit
    <3>2. ASSUME NEW p \in Pid, KillProcess(p)
          PROVE  \E K \in SUBSET Pid : KillAll(K) /\ \A k \in K : Node(k) /\ k # InitPid
      <4>1. \A k \in (IF Found(p) THEN {p} ELSE {}) : k \in Pid /\ Node(k) /\ k # InitPid
        BY <3>2, FoundIsNode DEF KillProcess
      <4> QED
        BY <3>2, <4>1 DEF KillProcess
    <3>3. CASE Escape
      BY <3>3, <1>t DEF Escape, IndInv, CpuExact, Node
    <3> QED
      BY <1>1, <3>1, <3>2, <3>3
  <2> QED
    BY <2>1, <2>2, DeathListAfterKill
<1>2. CASE \/ BootStart
           \/ \E prio \in Priority : StartParentProcess(prio)
           \/ \E dies \in BOOLEAN : StartChildProcess(dies)
  <2>1. PICK prio, parent, dies : StartProcess(prio, parent, dies)
    BY <1>2 DEF BootStart, StartParentProcess, StartChildProcess
  <2>2. PICK child \in Pid : child = pidToGive
    BY <2>1, MaxPidAssumption DEF StartProcess, IndInv, TypeOK, Pid
  <2>3. /\ state' = [state EXCEPT ![child] = "READY"]
        /\ deathList' \subseteq deathList \cup {child}
    BY <2>1, <2>2 DEF StartProcess, AfterAdd
  <2> QED
    BY <1>t, <2>2, <2>3 DEF DeathListLive, Live
<1>3. ASSUME NEW c \in PidOrNull, WaitChild(c) PROVE DeathListLive'
  <2>1. c # 0 /\ c \in Pid /\ InUserCode
    BY <1>3, ConstantTypes DEF WaitChild, Regular, Asks, NULL
  <2>2. nowRunning \in Pid
    BY <2>1, RunningIsNode
  <2>3. \/ state[c] = "FINISHED" /\ Free(c)
        \/ state[nowRunning] = "READY" /\ state' = [state EXCEPT ![nowRunning] = "BLOCKED"]
    BY <1>3, <2>1 DEF WaitChild, Regular, Asks, Reap, BlockForChild, BlockAndDispatch
  <2>4. deathList' = deathList
    BY <1>3 DEF WaitChild, Reap, BlockForChild
  <2> QED
    BY <1>t, <2>1, <2>2, <2>3, <2>4, DeathListAfterFree DEF DeathListLive, Live
<1>4. CASE ResumeWaitChild
  <2>1. nowRunning \in Pid /\ state[nowRunning] = "READY" /\ waitingFor[nowRunning] # NULL
    BY <1>4, RunningIsNode DEF ResumeWaitChild, IndInv, CpuExact
  <2>2. blockedReason[nowRunning] = NoBlock
    BY <2>1 DEF IndInv, WaitExact
  <2>3. waitingFor[nowRunning] \in Pid /\ state[waitingFor[nowRunning]] = "FINISHED"
    BY <1>t, <2>1, <2>2, ConstantTypes DEF IndInv, WaitExact, Live, AsleepInWait, NoBlock
  <2> QED
    BY <1>4, <2>3, DeathListAfterFree DEF ResumeWaitChild, Reap
<1>5. CASE InitStep
  <2>1. CASE InitInherit
    <3>1. reaping.pid \in Pid /\ state[reaping.pid] = "FINISHED"
      BY <2>1 DEF InitInherit, IndInv, TypeOK, InitReapsTheDead, Idle
    <3> QED
      BY <2>1, <3>1, DeathListAfterFree DEF InitInherit, listVars
  <2>2. CASE InitDequeue \/ \E c \in Pid : InitUnlink(c)
    BY <2>2 DEF InitDequeue, InitUnlink, tableVars, listVars, DeathListLive, Live
  <2> QED
    BY <1>5, <2>1, <2>2 DEF InitStep
<1>6. ASSUME NEW q \in Pid, BlockProcess(q) PROVE DeathListLive'
  <2>1. /\ deathList' = deathList
        /\ \/ state' = [state EXCEPT ![q] = "BLOCKED"]
           \/ state' = WithReady(state, {q})
    BY <1>6 DEF BlockProcess, BlockAndDispatch
  <2> QED
    BY <1>t, <2>1 DEF WithReady, DeathListLive, Live
<1>7. CASE \/ Tick \/ StartInit \/ Yield \/ StartOutOfMemory \/ UNCHANGED schedVars
           \/ \E q \in Pid, prio \in Priority : ChangePriority(q, prio)
  BY <1>7 DEF Tick, StartInit, Yield, StartOutOfMemory, ChangePriority, schedVars,
              tableVars, listVars, DeathListLive, Live
<1> QED
  BY <1>1, <1>2, <1>3, <1>4, <1>5, <1>6, <1>7 DEF Next, SystemCall

\* The ESC key never meets a process that is dead or freed: every way to die takes the
\* process out of the death list first.
THEOREM EscapeMeetsTheLiving == ASSUME Regular PROVE Spec => []DeathListLive
<1>1. Init => DeathListLive
  BY DEF Init, DeathListLive
<1>2. IndInv /\ DeathListLive /\ [Next]_schedVars => DeathListLive'
  BY DeathListStep
<1> QED
  BY <1>1, <1>2, InvariantHolds, PTL DEF Spec
=============================================================================

------------------------------- MODULE Phylo -------------------------------
(***************************************************************************)
(* The philosophers (Userland/SampleCodeModule/c/phylo.c): a process for   *)
(* each seat, and their father, who adds one to the table, removes the one *)
(* in the last seat or ends the program when a key tells him to.           *)
(*                                                                         *)
(* They run in user code, so a process may lose the CPU between any two    *)
(* accesses to a shared variable and between any two calls: each of them   *)
(* is a step.  A semaphore is what Semaphores shows it to be, a counter    *)
(* and a first-come, first-served list in which the pid of a process that  *)
(* was killed stays.  A seat is a plate between two forks.                 *)
(***************************************************************************)
EXTENDS Naturals, FiniteSets, SequencesExt

CONSTANTS
    MAX_PHIL, MIN_PHIL, \* phylo.c:5-6
    ID_RANGE,           \* semaphore ids are kept in a uint8_t
    MaxStarted,         \* bound: philosophers and forks started
    Sessions,           \* [amount, keys]: the argument of startPhylo, and what is typed
    Unbroken            \* places of the program where the timer interrupts nobody

ASSUME PhyloAssumption ==
    /\ {MAX_PHIL, MIN_PHIL, ID_RANGE, MaxStarted} \subseteq Nat
    /\ 2 <= MIN_PHIL /\ MaxStarted + 1 < ID_RANGE
    /\ \A s \in Sessions : /\ s.amount \in MIN_PHIL .. MAX_PHIL - 1
                          /\ s.amount <= MaxStarted
                          /\ s.keys \in Seq({"a", "r", "q"})

Father == 0
Philosopher == 1 .. MaxStarted
SemForSeat == 1
ForkId(n) == n + 1                 \* the id of the n-th fork that is made
Sem == SemForSeat .. MaxStarted + 1
NoSem == 0

VARIABLES
    sem,              \* the kernel's semaphores: [open, value, queue]
    asleep,           \* the semaphore whose waitSem a process sleeps in, or NoSem
    pc,               \* where each process is
    seat, left, right,\* locals of eatingPhylo
    eatingSemaphores, \* the forks, by seat
    pids,             \* startPhylo's own table of the philosophers, by seat
    started,          \* how many philosophers (and forks) were started
    keys,             \* what the user has still to type
    quitting,         \* i of the loop that ends the program
    tableSize, forSeat, mustSkip,
    secondToLastWaitingInLeft, lastOneWaitingInFirstSem, fatherWaiting

locals == <<seat, left, right>>
flags == <<mustSkip, secondToLastWaitingInLeft, lastOneWaitingInFirstSem, fatherWaiting>>
seating == <<eatingSemaphores, pids, started, tableSize, forSeat>>
kernel == <<sem, asleep>>
father == <<keys, quitting>>
vars == <<kernel, pc, locals, seating, flags, father>>

Go(p, where) == pc' = [pc EXCEPT ![p] = where]

HasCpu(p) ==
    /\ asleep[p] = NoSem
    /\ \A q \in DOMAIN pc \ {p} : pc[q] \in Unbroken => asleep[q] # NoSem

At(p, where) == pc[p] = where /\ HasCpu(p)
-----------------------------------------------------------------------------
(* The kernel's side: waitSem, postSem, closeSem and killProcess.          *)

WaitSem(p, s) ==
    IF ~sem[s].open THEN UNCHANGED kernel       \* it returns -1
    ELSE IF sem[s].value > 0
    THEN sem' = [sem EXCEPT ![s].value = @ - 1] /\ UNCHANGED asleep
    ELSE /\ sem' = [sem EXCEPT ![s].queue = Append(@, p)]
         /\ asleep' = [asleep EXCEPT ![p] = s]

\* The oldest pid leaves the list and is woken, if its process still sleeps.
PostSem(s) ==
    IF ~sem[s].open THEN UNCHANGED kernel
    ELSE IF sem[s].value = 0 /\ sem[s].queue # <<>>
    THEN LET p == Head(sem[s].queue) IN
         /\ sem' = [sem EXCEPT ![s].queue = Tail(@)]
         /\ asleep' = IF asleep[p] = s THEN [asleep EXCEPT ![p] = NoSem] ELSE asleep
    ELSE sem' = [sem EXCEPT ![s].value = @ + 1] /\ UNCHANGED asleep

CloseSem(s) ==
    /\ sem' = [sem EXCEPT ![s].open = FALSE, ![s].queue = <<>>]
    /\ UNCHANGED asleep

Kill(p, next) ==
    /\ pc' = [pc EXCEPT ![Father] = next, ![p] = "dead"]
    /\ asleep' = [asleep EXCEPT ![p] = NoSem]
    /\ UNCHANGED sem
-----------------------------------------------------------------------------
(* eatingPhylo.                                                            *)

WaitForSeat(p) ==
    /\ At(p, "sit") /\ WaitSem(p, SemForSeat) /\ Go(p, "take")
    /\ UNCHANGED <<locals, seating, flags>>

TakeSeat(p) ==
    /\ At(p, "take") /\ Go(p, "taken")
    /\ seat' = [seat EXCEPT ![p] = forSeat] /\ forSeat' = forSeat + 1
    /\ UNCHANGED <<kernel, left, right, eatingSemaphores, pids, started, tableSize, flags>>

SeatTaken(p) ==
    /\ At(p, "taken") /\ PostSem(SemForSeat) /\ Go(p, "look")
    /\ UNCHANGED <<locals, seating, flags>>

Even(p) == seat[p] % 2 = 0
IsLast(p) == seat[p] + 1 = tableSize
IsSecondToLast(p) == seat[p] + 2 = tableSize

\* The forks beside the seat, as long as the table does not change.
Look(p) ==
    /\ At(p, "look") /\ Go(p, "announce")
    /\ left' = [left EXCEPT ![p] = eatingSemaphores[seat[p]] % ID_RANGE]
    /\ right' = [right EXCEPT ![p] = eatingSemaphores[(seat[p] + 1) % tableSize] % ID_RANGE]
    /\ UNCHANGED <<kernel, seat, seating, flags>>

\* What the philosopher is about to wait for, if the father may ask.
Announce(p) ==
    /\ At(p, "announce") /\ Go(p, "first")
    /\ secondToLastWaitingInLeft' =
          IF IsSecondToLast(p) THEN 1 ELSE secondToLastWaitingInLeft
    /\ lastOneWaitingInFirstSem' =
          IF IsLast(p) /\ ~Even(p) THEN 1 ELSE lastOneWaitingInFirstSem
    /\ UNCHANGED <<kernel, locals, seating, mustSkip, fatherWaiting>>

\* Even seats take the left fork first, odd seats the right one.
\* Mutant of First: everyone takes the left fork first.
FirstLeft(p) == left[p]

First(p) == IF Even(p) THEN left[p] ELSE right[p]
Second(p) == IF First(p) = left[p] THEN right[p] ELSE left[p]

WaitFirst(p) ==
    /\ At(p, "first") /\ WaitSem(p, First(p)) /\ Go(p, "between")
    /\ UNCHANGED <<locals, seating, flags>>

Between(p) ==
    /\ At(p, "between") /\ Go(p, "second")
    /\ secondToLastWaitingInLeft' =
          IF IsSecondToLast(p) /\ Even(p) THEN 0 ELSE secondToLastWaitingInLeft
    /\ lastOneWaitingInFirstSem' =
          IF IsLast(p) THEN (IF Even(p) THEN 1 ELSE 0) ELSE lastOneWaitingInFirstSem
    /\ UNCHANGED <<kernel, locals, seating, mustSkip, fatherWaiting>>

WaitSecond(p) ==
    /\ At(p, "second") /\ WaitSem(p, Second(p)) /\ Go(p, "both")
    /\ UNCHANGED <<locals, seating, flags>>

HasBoth(p) ==
    /\ At(p, "both") /\ Go(p, "check")
    /\ secondToLastWaitingInLeft' =
          IF IsSecondToLast(p) /\ ~Even(p) THEN 0 ELSE secondToLastWaitingInLeft
    /\ lastOneWaitingInFirstSem' =
          IF IsLast(p) /\ Even(p) THEN 0 ELSE lastOneWaitingInFirstSem
    /\ UNCHANGED <<kernel, locals, seating, mustSkip, fatherWaiting>>

\* left and right are read anew before they are used again.
Forgets(p) ==
    /\ left' = [left EXCEPT ![p] = NoSem] /\ right' = [right EXCEPT ![p] = NoSem]
    /\ UNCHANGED seat

\* The philosopher whose right fork was removed keeps nothing and looks again.
\* Mutant of MaySkip: it eats with the fork it has.
MaySkipNever(p) == FALSE

MaySkip(p) == mustSkip > 0 /\ IsLast(p)

EatOrSkip(p) ==
    /\ At(p, "check")
    /\ \/ ~MaySkip(p) /\ Go(p, "eat") /\ UNCHANGED <<mustSkip, locals>>
       \/ MaySkip(p) /\ Go(p, "look") /\ mustSkip' = 0 /\ Forgets(p)
    /\ UNCHANGED <<kernel, seating, secondToLastWaitingInLeft,
                   lastOneWaitingInFirstSem, fatherWaiting>>

PostFirst(p) ==
    /\ At(p, "eat") /\ PostSem(First(p)) /\ Go(p, IF seat[p] = 0 THEN "clear" ELSE "full")
    /\ UNCHANGED <<locals, seating, flags>>

ClearFlag(p) ==
    /\ At(p, "clear") /\ Go(p, "full")
    /\ lastOneWaitingInFirstSem' = IF fatherWaiting = 0 THEN 0 ELSE lastOneWaitingInFirstSem
    /\ UNCHANGED <<kernel, locals, seating, mustSkip, secondToLastWaitingInLeft, fatherWaiting>>

PostSecond(p) ==
    /\ At(p, "full") /\ PostSem(Second(p)) /\ Go(p, "look")
    /\ Forgets(p)
    /\ UNCHANGED <<seating, flags>>

EatingPhylo(p) ==
    /\ \/ WaitForSeat(p) \/ TakeSeat(p) \/ SeatTaken(p)
       \/ Look(p) \/ Announce(p) \/ WaitFirst(p) \/ Between(p) \/ WaitSecond(p)
       \/ HasBoth(p) \/ EatOrSkip(p) \/ PostFirst(p) \/ ClearFlag(p) \/ PostSecond(p)
    /\ UNCHANGED father
-----------------------------------------------------------------------------
(* startPhylo: the father, one key at a time.                              *)

Step(from, to) == At(Father, from) /\ Go(Father, to)

Typed(key) == keys # <<>> /\ Head(keys) = key /\ keys' = Tail(keys)

\* A key that would make the table too large or too small does nothing.
Refused ==
    /\ At(Father, "read")
    /\ \/ Typed("a") /\ tableSize >= MAX_PHIL - 1
       \/ Typed("r") /\ tableSize <= MIN_PHIL
    /\ UNCHANGED <<kernel, pc, locals, seating, flags, quitting>>

\* 'a': the fork that the last philosopher takes first is held meanwhile.
SemToStop(size) ==
    IF size % 2 = 1 THEN eatingSemaphores[size - 1] ELSE eatingSemaphores[0]

AddWaits ==
    /\ Typed("a") /\ tableSize < MAX_PHIL - 1
    /\ Step("read", "a fork")
    /\ fatherWaiting' = 1
    /\ WaitSem(Father, SemToStop(tableSize))
    /\ UNCHANGED <<locals, seating, quitting, mustSkip,
                   secondToLastWaitingInLeft, lastOneWaitingInFirstSem>>

AddFork ==
    /\ Step("a fork", "a start")
    /\ started' = started + 1
    /\ eatingSemaphores' = [eatingSemaphores EXCEPT ![tableSize] = ForkId(started + 1)]
    /\ sem' = [sem EXCEPT ![ForkId(started + 1)].open = TRUE]
    /\ UNCHANGED <<asleep, locals, pids, tableSize, forSeat, flags>>

AddPhilosopher ==
    /\ At(Father, "a start")
    /\ pids' = [pids EXCEPT ![tableSize] = started]
    /\ pc' = [pc EXCEPT ![Father] = "a grow", ![started] = "sit"]
    /\ UNCHANGED <<kernel, locals, eatingSemaphores, started, tableSize, forSeat, flags>>

AddSeat ==
    /\ Step("a grow", "a post") /\ tableSize' = tableSize + 1
    /\ UNCHANGED <<kernel, locals, eatingSemaphores, pids, started, forSeat, flags>>

AddEnds ==
    /\ Step("a post", "read")
    /\ PostSem(SemToStop(tableSize - 1))
    /\ fatherWaiting' = 0
    /\ UNCHANGED <<locals, seating, mustSkip, secondToLastWaitingInLeft, lastOneWaitingInFirstSem>>

\* 'r': the first fork and the one before the last are held meanwhile.
LastFork == eatingSemaphores[tableSize - 1]
ForkBefore == eatingSemaphores[tableSize - 2]

RemoveWaits ==
    /\ Typed("r") /\ tableSize > MIN_PHIL
    /\ Step("read", "r second")
    /\ fatherWaiting' = 1
    /\ WaitSem(Father, eatingSemaphores[0])
    /\ UNCHANGED <<locals, seating, quitting, mustSkip,
                   secondToLastWaitingInLeft, lastOneWaitingInFirstSem>>

\* The calls of the removal, each from one place to the next.
RemoveCalls ==
    /\ \/ Step("r second", "r kill") /\ WaitSem(Father, ForkBefore)
       \/ At(Father, "r kill") /\ Kill(pids[tableSize - 1], "r post")
       \/ Step("r post", "r post again") /\ PostSem(LastFork)
       \/ Step("r post again", "r close") /\ PostSem(LastFork)
       \/ Step("r close", "r last") /\ CloseSem(LastFork)
       \/ Step("r last", "r first") /\ IF lastOneWaitingInFirstSem = 1
                                       THEN PostSem(eatingSemaphores[0]) ELSE UNCHANGED kernel
       \/ Step("r first", "r skip") /\ PostSem(eatingSemaphores[0])
       \/ Step("r skipped", "r before") /\ IF mustSkip > 0
                                           THEN PostSem(ForkBefore) ELSE UNCHANGED kernel
       \/ Step("r before", "r shrink") /\ PostSem(ForkBefore)
    /\ UNCHANGED <<locals, seating, flags>>

RemoveSkips ==
    /\ Step("r skip", "r skipped")
    /\ mustSkip' = mustSkip + secondToLastWaitingInLeft
    /\ UNCHANGED <<kernel, locals, seating, secondToLastWaitingInLeft,
                   lastOneWaitingInFirstSem, fatherWaiting>>

RemoveSeat ==
    /\ Step("r shrink", "r forSeat") /\ tableSize' = tableSize - 1
    /\ UNCHANGED <<kernel, locals, eatingSemaphores, pids, started, forSeat, flags>>

RemoveEnds ==
    /\ Step("r forSeat", "read") /\ forSeat' = forSeat - 1
    /\ fatherWaiting' = 0
    /\ UNCHANGED <<kernel, locals, eatingSemaphores, pids, started, tableSize, mustSkip,
                   secondToLastWaitingInLeft, lastOneWaitingInFirstSem>>

\* 'q': seat by seat, the fork is posted twice, the philosopher killed and the
\* fork closed; then semForSeat is closed and the father exits.
Quit ==
    /\ Typed("q") /\ Step("read", "q post") /\ quitting' = 0
    /\ UNCHANGED <<kernel, locals, seating, flags>>

QuitCalls ==
    /\ \/ /\ quitting < tableSize
          /\ \/ Step("q post", "q post again") /\ PostSem(eatingSemaphores[quitting])
             \/ Step("q post again", "q kill") /\ PostSem(eatingSemaphores[quitting])
             \/ At(Father, "q kill") /\ Kill(pids[quitting], "q close")
          /\ UNCHANGED quitting
       \/ /\ quitting < tableSize
          /\ Step("q close", "q post") /\ CloseSem(eatingSemaphores[quitting])
          /\ quitting' = quitting + 1
       \/ /\ quitting = tableSize /\ UNCHANGED quitting
          /\ Step("q post", "ended") /\ CloseSem(SemForSeat)
    /\ UNCHANGED <<locals, seating, flags, keys>>

FatherGoesOn ==
    \/ /\ \/ AddFork \/ AddPhilosopher \/ AddSeat \/ AddEnds
          \/ RemoveCalls \/ RemoveSkips \/ RemoveSeat \/ RemoveEnds
       /\ UNCHANGED father
    \/ QuitCalls
-----------------------------------------------------------------------------
\* startPhylo has started the philosophers and they have sat down, the first to
\* be started in the last seat, as pids has them.
Init == \E session \in Sessions :
    LET amount == session.amount
        AtTable == 0 .. amount - 1 IN
    /\ keys = session.keys /\ quitting = 0
    /\ sem = [s \in Sem |-> [open |-> s <= ForkId(amount), value |-> 1, queue |-> <<>>]]
    /\ asleep = [p \in {Father} \cup Philosopher |-> NoSem]
    /\ pc = [p \in {Father} \cup Philosopher |->
                IF p = Father THEN "read" ELSE IF p <= amount THEN "look" ELSE "none"]
    /\ seat = [p \in Philosopher |-> IF p <= amount THEN amount - p ELSE 0]
    /\ left = [p \in Philosopher |-> NoSem] /\ right = left
    /\ eatingSemaphores = [s \in 0 .. MAX_PHIL - 1 |->
                              IF s \in AtTable THEN ForkId(s + 1) ELSE NoSem]
    /\ pids = [s \in 0 .. MAX_PHIL - 1 |-> IF s \in AtTable THEN amount - s ELSE Father]
    /\ started = amount /\ tableSize = amount /\ forSeat = amount
    /\ mustSkip = 0 /\ fatherWaiting = 0
    /\ secondToLastWaitingInLeft = 0 /\ lastOneWaitingInFirstSem = 0

Next ==
    \/ Refused \/ AddWaits \/ RemoveWaits \/ Quit \/ FatherGoesOn
    \/ \E p \in Philosopher : EatingPhylo(p)

Spec == Init /\ [][Next]_vars

\* Who is READY gets the CPU again and again (EventuallyRuns of Scheduler), but
\* not at the moments that others leave unbroken: strong fairness.
Fairness ==
    /\ SF_vars(FatherGoesOn)
    /\ \A p \in Philosopher : SF_vars(EatingPhylo(p))

FairSpec == Spec /\ Fairness
-----------------------------------------------------------------------------
Living == {p \in Philosopher : pc[p] \notin {"none", "dead"}}
Eating == {p \in Philosopher : pc[p] = "eat"}
Quitting == pc[Father] \in {"q post", "q post again", "q kill", "q close"}

\* Two neighbours never eat at the same time, while the table grows and shrinks
\* under them: nobody goes on with a fork that is not beside its seat any more,
\* and the tokens that the father posts for the dead are not too many.
NeighboursNeverEat ==
    ~Quitting => \A p, q \in Eating : p # q => (seat[p] + 1) % tableSize # seat[q]

\* "The father makes sure that no philosopher starves": everyone at the table
\* eats again and again, until he is removed.
EverybodyEats ==
    \A p \in Philosopher : p \in Living ~> pc[p] \in {"eat", "dead"}

\* The same, as far as a state can tell: when the father has finished with a key,
\* not all of those at the table are asleep.
TableNeverStuck ==
    pc[Father] = "read" => \E p \in Living : asleep[p] = NoSem
=============================================================================

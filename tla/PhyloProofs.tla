---------------------------- MODULE PhyloProofs ----------------------------
(***************************************************************************)
(* Neighbours never eat together at a table of any size that grows by one  *)
(* philosopher at most, wherever else the timer interrupts.                *)
(***************************************************************************)
EXTENDS Phylo, SequenceTheorems, TLAPS

\* Nobody is removed, and one philosopher at most is added: others are not asked for,
\* or there is no seat for them.
GrowsOnce ==
    /\ "a grow" \in Unbroken
    /\ \A s \in Sessions :
        /\ s.amount < MaxStarted
        /\ \A i \in DOMAIN s.keys : s.keys[i] # "r"
        /\ \/ s.amount + 2 >= MAX_PHIL
           \/ \A i, j \in DOMAIN s.keys : s.keys[i] = "a" /\ s.keys[j] = "a" => i = j

Everyone == {Father} \cup Philosopher
Fork == Sem \ {SemForSeat}

-----------------------------------------------------------------------------
(* The invariant.                                                          *)

\* Where a philosopher has no seat yet, where he has one, and where he knows his forks.
Unseated == {"none", "sit", "take"}
Known == {"announce", "first", "between", "second", "both", "check", "eat", "clear", "full"}
Seated == {"taken", "look"} \cup Known
Adding == {"a fork", "a start", "a grow"}

TypeOK ==
    /\ pc \in [Everyone -> Unseated \cup Seated \cup Adding \cup {"read", "a post"}]
    /\ pc[Father] \in Adding \cup {"read", "a post"}
    /\ \A p \in Philosopher : pc[p] \in Unseated \cup Seated
    /\ asleep \in [Everyone -> Sem \cup {NoSem}]
    /\ sem \in [Sem -> [open : BOOLEAN, value : Nat, queue : Seq(Everyone)]]
    /\ seat \in [Philosopher -> Nat]
    /\ left \in [Philosopher -> Nat] /\ right \in [Philosopher -> Nat]
    /\ eatingSemaphores \in [0 .. MAX_PHIL - 1 -> Nat]
    /\ pids \in [0 .. MAX_PHIL - 1 -> Everyone]
    /\ started \in Nat /\ tableSize \in Nat /\ forSeat \in Nat
    /\ keys \in Seq({"a", "r", "q"}) /\ mustSkip = 0

\* The forks, in the order of the seats, and who sits at the table.
TableOK ==
    /\ tableSize >= 2 /\ started <= MaxStarted /\ started < MAX_PHIL
    /\ started = IF pc[Father] \in {"a start", "a grow"} THEN tableSize + 1 ELSE tableSize
    /\ \A i \in 0 .. started - 1 : eatingSemaphores[i] = ForkId(i + 1)
    /\ \A s \in 1 .. started + 1 : sem[s].open
    /\ \A i \in 0 .. tableSize - 1 : pids[i] \in Philosopher
    /\ \A p \in Philosopher : pc[p] # "none" =>
           \/ pc[Father] = "a grow" /\ p = started
           \/ \E i \in 0 .. tableSize - 1 : pids[i] = p
    /\ pc[Father] = "a grow" => pids[tableSize] = started
    /\ pc[Father] = "a post" => tableSize > 2

\* Only the one who was started last may have no seat.
SeatsOK ==
    /\ \A p \in Philosopher : p < started => pc[p] \in Seated
    /\ \A p \in Philosopher : p > started => pc[p] = "none"
    /\ pc[Father] = "a start" => pc[started] = "none"
    /\ pc[Father] = "a grow" => pc[started] = "sit"
    /\ forSeat = IF pc[started] \in Unseated THEN started - 1 ELSE started
    /\ \A p \in Philosopher : pc[p] \in Seated => seat[p] < forSeat
    /\ \A p, q \in Philosopher :
           pc[p] \in Seated /\ pc[q] \in Seated /\ seat[p] = seat[q] => p = q

\* Philosophers will still be added to a table of n.
More(n) == n + 1 < MAX_PHIL /\ \E i \in DOMAIN keys : keys[i] = "a"

GrowthOK ==
    /\ \A i \in DOMAIN keys : keys[i] # "r"
    /\ pc[Father] = "read" =>
        \/ tableSize + 2 >= MAX_PHIL
        \/ \A i, j \in DOMAIN keys : keys[i] = "a" /\ keys[j] = "a" => i = j
    /\ pc[Father] = "read" /\ More(tableSize) =>
           started < MaxStarted /\ pc[started] \in Seated
    /\ pc[Father] = "a fork" =>
           started < MaxStarted /\ started + 1 < MAX_PHIL /\ pc[started] \in Seated
    /\ pc[Father] \in Adding => ~More(tableSize + 1)
    /\ pc[Father] = "a post" => ~More(tableSize)

\* The forks that a philosopher believes to be his.  Only the one who was last before
\* the table grew may still believe in the first fork, and it grows no more.
ForksOK ==
    \A p \in Philosopher : pc[p] \in Known =>
        /\ left[p] = seat[p] + 2
        /\ \/ right[p] = seat[p] + 3 /\ seat[p] + 1 < tableSize
           \/ right[p] = 2 /\ seat[p] + 1 = tableSize
           \/ /\ right[p] = 2 /\ seat[p] + 2 = tableSize /\ tableSize > 2
              /\ pc[Father] \notin Adding /\ ~More(tableSize)

\* The fork that the father holds while he adds a philosopher.
FatherStop == SemToStop(IF pc[Father] = "a post" THEN tableSize - 1 ELSE tableSize)

\* Who sleeps, sleeps in the wait that he has just called.
SleepsAt(p) ==
    asleep[p] # NoSem =>
        \/ p = Father /\ pc[p] = "a fork" /\ asleep[p] = FatherStop
        \/ p # Father /\ pc[p] = "take" /\ asleep[p] = SemForSeat
        \/ p # Father /\ pc[p] = "between" /\ asleep[p] = First(p)
        \/ p # Father /\ pc[p] = "both" /\ asleep[p] = Second(p)

SleepOK == \A p \in Everyone : SleepsAt(p)

QueuesOK ==
    \A s \in Sem :
        /\ \A i \in DOMAIN sem[s].queue : asleep[sem[s].queue[i]] = s
        /\ \A i, j \in DOMAIN sem[s].queue : sem[s].queue[i] = sem[s].queue[j] => i = j

\* Who holds a fork.
HasFirst(p) == \/ pc[p] \in {"second", "both", "check", "eat"}
               \/ pc[p] = "between" /\ asleep[p] = NoSem
HasSecond(p) == \/ pc[p] \in {"check", "eat", "clear", "full"}
                \/ pc[p] = "both" /\ asleep[p] = NoSem
FatherHas == pc[Father] \in Adding \cup {"a post"} /\ asleep[Father] = NoSem

Holds(p, f) ==
    \/ p # Father /\ HasFirst(p) /\ f = First(p)
    \/ p # Father /\ HasSecond(p) /\ f = Second(p)
    \/ p = Father /\ FatherHas /\ f = FatherStop

\* A fork is in one hand, or in none and there is one token.
TokensOK ==
    /\ \A f \in Fork : sem[f].value <= 1
    /\ \A p \in Everyone, f \in Fork : Holds(p, f) => sem[f].value = 0
    /\ \A p, q \in Everyone, f \in Fork : Holds(p, f) /\ Holds(q, f) => p = q

TableInv == /\ TypeOK /\ TableOK /\ SeatsOK /\ GrowthOK /\ ForksOK
            /\ SleepOK /\ QueuesOK /\ TokensOK

\* Once the program ends, those whose turn has come are dead, and nobody comes back.
QuitInv ==
    /\ DOMAIN pc = Everyone
    /\ quitting \in Nat /\ tableSize \in Nat /\ quitting <= tableSize
    /\ \A i \in 0 .. tableSize - 1 : pids[i] \in Philosopher
    /\ \A p \in Philosopher : pc[p] # "none" => \E i \in 0 .. tableSize - 1 : pids[i] = p
    /\ \A i \in 0 .. quitting - 1 : pc[pids[i]] = "dead"
    /\ \/ pc[Father] \in {"q post", "q post again", "q kill"}
       \/ pc[Father] = "q close" /\ quitting < tableSize /\ pc[pids[quitting]] = "dead"
       \/ pc[Father] = "ended" /\ quitting = tableSize

PhyloInv == TableInv \/ QuitInv

-----------------------------------------------------------------------------
(* The kernel's calls.                                                     *)

LEMMA Everybody ==
    /\ Father = 0 /\ NoSem = 0 /\ SemForSeat = 1 /\ MaxStarted \in Nat
    /\ Father \in Everyone /\ Philosopher \subseteq Everyone
    /\ \A p \in Everyone : p \in Philosopher <=> p # Father
    /\ NoSem \notin Sem /\ SemForSeat \in Sem /\ Fork \subseteq Sem
    /\ \A f \in Fork : f \in Nat /\ f # SemForSeat /\ f # NoSem
    /\ \A n \in Nat : n >= 2 /\ n <= MaxStarted + 1 => n \in Fork
BY PhyloAssumption DEF Father, NoSem, SemForSeat, Everyone, Philosopher, Sem, Fork

\* What a wait does: the caller has a token of f, or sleeps in f.
LEMMA Waits ==
    ASSUME TypeOK, QueuesOK, NEW p \in Everyone, NEW f \in Sem,
           asleep[p] = NoSem, sem[f].open, WaitSem(p, f)
    PROVE  /\ sem' \in [Sem -> [open : BOOLEAN, value : Nat, queue : Seq(Everyone)]]
           /\ asleep' \in [Everyone -> Sem \cup {NoSem}]
           /\ \A s \in Sem : sem'[s].open = sem[s].open
           /\ \A s \in Sem : s # f => sem'[s].value = sem[s].value
           /\ \A q \in Everyone : q # p => asleep'[q] = asleep[q]
           /\ \/ /\ asleep'[p] = NoSem
                 /\ sem[f].value > 0 /\ sem'[f].value = sem[f].value - 1
              \/ asleep'[p] = f /\ sem'[f].value = sem[f].value
           /\ QueuesOK'
<1>1. /\ sem \in [Sem -> [open : BOOLEAN, value : Nat, queue : Seq(Everyone)]]
      /\ asleep \in [Everyone -> Sem \cup {NoSem}]
  BY DEF TypeOK
<1>2. sem[f].value \in Nat /\ sem[f].queue \in Seq(Everyone)
  BY <1>1
<1>3. CASE sem[f].value > 0
  <2>1. sem' = [sem EXCEPT ![f].value = @ - 1] /\ asleep' = asleep
    BY <1>3 DEF WaitSem
  <2>2. sem[f].value - 1 \in Nat
    BY <1>2, <1>3
  <2>3. \A s \in Sem : /\ sem'[s].open = sem[s].open /\ sem'[s].queue = sem[s].queue
                       /\ s # f => sem'[s].value = sem[s].value
    BY <1>1, <2>1
  <2>4. sem'[f].value = sem[f].value - 1
    BY <1>1, <2>1
  <2>5. sem' \in [Sem -> [open : BOOLEAN, value : Nat, queue : Seq(Everyone)]]
    BY <1>1, <2>1, <2>2
  <2>6. QueuesOK'
    BY <2>1, <2>3 DEF QueuesOK
  <2> QED
    BY <1>1, <1>3, <2>1, <2>3, <2>4, <2>5, <2>6
<1>4. CASE ~(sem[f].value > 0)
  <2>1. sem' = [sem EXCEPT ![f].queue = Append(@, p)] /\ asleep' = [asleep EXCEPT ![p] = f]
    BY <1>4 DEF WaitSem
  <2> DEFINE old == sem[f].queue
             new == Append(old, p)
  <2>2. /\ new \in Seq(Everyone) /\ DOMAIN old = 1 .. Len(old) /\ Len(old) \in Nat
        /\ DOMAIN new = 1 .. Len(old) + 1
        /\ \A i \in 1 .. Len(old) : new[i] = old[i]
        /\ new[Len(old) + 1] = p
    BY <1>2, AppendProperties, LenProperties
  <2>3. \A s \in Sem : /\ sem'[s].open = sem[s].open /\ sem'[s].value = sem[s].value
                       /\ s # f => sem'[s].queue = sem[s].queue
    BY <1>1, <2>1
  <2>4. sem'[f].queue = new
    BY <1>1, <2>1
  <2>5. sem' \in [Sem -> [open : BOOLEAN, value : Nat, queue : Seq(Everyone)]]
    BY <1>1, <2>1, <2>2
  <2>6. /\ asleep' \in [Everyone -> Sem \cup {NoSem}] /\ asleep'[p] = f
        /\ \A q \in Everyone : q # p => asleep'[q] = asleep[q]
    BY <1>1, <2>1
  <2>7. \A s \in Sem : \A i \in DOMAIN sem[s].queue :
            sem[s].queue[i] \in Everyone /\ sem[s].queue[i] # p
    <3> TAKE s \in Sem
    <3> TAKE i \in DOMAIN sem[s].queue
    <3>1. sem[s].queue[i] \in Everyone
      BY <1>1, ElementOfSeq, LenProperties
    <3>2. asleep[sem[s].queue[i]] = s /\ s # NoSem
      BY Everybody DEF QueuesOK
    <3> QED
      BY <3>1, <3>2
  <2> HIDE DEF new, old
  <2>8. QueuesOK'
    <3> SUFFICES ASSUME NEW s \in Sem
                 PROVE  /\ \A i \in DOMAIN sem'[s].queue : asleep'[sem'[s].queue[i]] = s
                        /\ \A i, j \in DOMAIN sem'[s].queue :
                               sem'[s].queue[i] = sem'[s].queue[j] => i = j
      BY DEF QueuesOK
    <3>1. CASE s # f
      BY <2>3, <2>6, <2>7, <3>1 DEF QueuesOK
    <3>2. CASE s = f
      <4>1. \A i \in 1 .. Len(old) : /\ old[i] # p /\ asleep'[old[i]] = f
                                     /\ \A j \in 1 .. Len(old) : old[i] = old[j] => i = j
        BY <2>2, <2>6, <2>7 DEF QueuesOK, old
      <4>2. \A i \in 1 .. Len(old) + 1 : i \in 1 .. Len(old) \/ i = Len(old) + 1
        BY <2>2
      <4> QED
        BY <2>2, <2>4, <2>6, <3>2, <4>1, <4>2
    <3> QED
      BY <3>1, <3>2
  <2> QED
    BY <2>3, <2>5, <2>6, <2>8
<1> QED
  BY <1>3, <1>4

\* What a post does: there is one token more, or somebody who slept in f has it.
LEMMA Posts ==
    ASSUME TypeOK, QueuesOK, NEW f \in Sem, sem[f].open, PostSem(f)
    PROVE  /\ sem' \in [Sem -> [open : BOOLEAN, value : Nat, queue : Seq(Everyone)]]
           /\ asleep' \in [Everyone -> Sem \cup {NoSem}]
           /\ \A s \in Sem : sem'[s].open = sem[s].open
           /\ \A s \in Sem : s # f => sem'[s].value = sem[s].value
           /\ \/ asleep' = asleep /\ sem'[f].value = sem[f].value + 1
              \/ /\ sem'[f].value = sem[f].value
                 /\ \E h \in Everyone : /\ asleep[h] = f /\ asleep'[h] = NoSem
                                        /\ \A q \in Everyone : q # h => asleep'[q] = asleep[q]
           /\ QueuesOK'
<1>1. /\ sem \in [Sem -> [open : BOOLEAN, value : Nat, queue : Seq(Everyone)]]
      /\ asleep \in [Everyone -> Sem \cup {NoSem}]
  BY DEF TypeOK
<1>2. sem[f].value \in Nat /\ sem[f].queue \in Seq(Everyone)
  BY <1>1
<1>3. CASE ~(sem[f].value = 0 /\ sem[f].queue # <<>>)
  <2>1. sem' = [sem EXCEPT ![f].value = @ + 1] /\ asleep' = asleep
    BY <1>3 DEF PostSem
  <2>2. sem[f].value + 1 \in Nat
    BY <1>2
  <2>3. \A s \in Sem : /\ sem'[s].open = sem[s].open /\ sem'[s].queue = sem[s].queue
                       /\ s # f => sem'[s].value = sem[s].value
    BY <1>1, <2>1
  <2>4. sem'[f].value = sem[f].value + 1
    BY <1>1, <2>1
  <2>5. sem' \in [Sem -> [open : BOOLEAN, value : Nat, queue : Seq(Everyone)]]
    BY <1>1, <2>1, <2>2
  <2>6. QueuesOK'
    BY <2>1, <2>3 DEF QueuesOK
  <2> QED
    BY <1>1, <2>1, <2>3, <2>4, <2>5, <2>6
<1>4. CASE sem[f].value = 0 /\ sem[f].queue # <<>>
  <2> DEFINE old == sem[f].queue
             h == Head(old)
             new == Tail(old)
  <2>1. /\ new \in Seq(Everyone) /\ Len(old) \in Nat \ {0} /\ DOMAIN old = 1 .. Len(old)
        /\ DOMAIN new = 1 .. Len(old) - 1 /\ h = old[1] /\ h \in Everyone
        /\ \A i \in 1 .. Len(old) - 1 : new[i] = old[i + 1]
    <3>1. old \in Seq(Everyone) /\ old # <<>>
      BY <1>2, <1>4
    <3>2. Len(old) \in Nat \ {0} /\ DOMAIN old = 1 .. Len(old)
      BY <3>1, EmptySeq, LenProperties
    <3>3. /\ new \in Seq(Everyone) /\ Len(new) = Len(old) - 1
          /\ \A i \in 1 .. Len(new) : new[i] = old[i + 1]
          /\ h = old[1] /\ h \in Everyone
      BY <3>1, HeadTailProperties
    <3>4. DOMAIN new = 1 .. Len(new)
      BY <3>3, LenProperties
    <3> QED
      BY <3>2, <3>3, <3>4
  <2>2. asleep[h] = f
    BY <2>1 DEF QueuesOK
  <2>3. sem' = [sem EXCEPT ![f].queue = new] /\ asleep' = [asleep EXCEPT ![h] = NoSem]
    BY <1>4, <2>2 DEF PostSem
  <2>4. \A s \in Sem : /\ sem'[s].open = sem[s].open /\ sem'[s].value = sem[s].value
                       /\ s # f => sem'[s].queue = sem[s].queue
    BY <1>1, <2>3
  <2>5. sem'[f].queue = new
    BY <1>1, <2>3
  <2>6. sem' \in [Sem -> [open : BOOLEAN, value : Nat, queue : Seq(Everyone)]]
    BY <1>1, <2>1, <2>3
  <2>7. /\ asleep' \in [Everyone -> Sem \cup {NoSem}] /\ asleep'[h] = NoSem
        /\ \A q \in Everyone : q # h => asleep'[q] = asleep[q]
    BY <1>1, <2>1, <2>3
  <2>8. \A s \in Sem : \A i \in DOMAIN sem[s].queue :
            sem[s].queue[i] \in Everyone /\ asleep[sem[s].queue[i]] = s
    <3> TAKE s \in Sem
    <3> TAKE i \in DOMAIN sem[s].queue
    <3> QED
      BY <1>1, ElementOfSeq, LenProperties DEF QueuesOK
  <2> HIDE DEF old, h, new
  <2>9. QueuesOK'
    <3> SUFFICES ASSUME NEW s \in Sem
                 PROVE  /\ \A i \in DOMAIN sem'[s].queue : asleep'[sem'[s].queue[i]] = s
                        /\ \A i, j \in DOMAIN sem'[s].queue :
                               sem'[s].queue[i] = sem'[s].queue[j] => i = j
      BY DEF QueuesOK
    <3>1. CASE s # f
      BY <2>2, <2>4, <2>7, <2>8, <3>1 DEF QueuesOK
    <3>2. CASE s = f
      <4>1. \A i, j \in 1 .. Len(old) : old[i] = old[j] => i = j
        BY <2>1 DEF QueuesOK, old
      <4>2. \A i \in 1 .. Len(old) : old[i] \in Everyone /\ asleep[old[i]] = f
        BY <2>1, <2>8 DEF old
      <4>3. \A i \in 1 .. Len(old) - 1 : i \in Int /\ i + 1 \in 1 .. Len(old) /\ i + 1 # 1
        BY <2>1
      <4>4. \A i \in 1 .. Len(old) - 1 : new[i] # h /\ asleep'[new[i]] = f
        BY <2>1, <2>7, <4>1, <4>2, <4>3
      <4>5. \A i, j \in 1 .. Len(old) - 1 : new[i] = new[j] => i = j
        BY <2>1, <4>1, <4>3
      <4> QED
        BY <2>1, <2>5, <3>2, <4>4, <4>5
    <3> QED
      BY <3>1, <3>2
  <2> QED
    BY <2>1, <2>2, <2>4, <2>6, <2>7, <2>9
<1> QED
  BY <1>3, <1>4

-----------------------------------------------------------------------------
(* Who holds what.                                                         *)

\* A wait: p holds f, unless it sleeps.
LEMMA TokensWait ==
    ASSUME TypeOK, TokensOK, NEW p \in Everyone, NEW f \in Fork,
           \A s \in Sem : s # f => sem'[s].value = sem[s].value,
           \/ asleep'[p] = NoSem /\ sem[f].value > 0 /\ sem'[f].value = sem[f].value - 1
           \/ asleep'[p] = f /\ sem'[f].value = sem[f].value,
           \A q \in Everyone, g \in Fork :
               Holds(q, g)' <=> Holds(q, g) \/ (q = p /\ g = f /\ asleep'[p] = NoSem)
    PROVE  TokensOK'
<1>1. Fork \subseteq Sem /\ f # NoSem /\ \A g \in Fork : sem[g].value \in Nat
  BY Everybody DEF TypeOK
<1>2. CASE asleep'[p] = f
  BY <1>1, <1>2 DEF TokensOK
<1>3. CASE asleep'[p] = NoSem
  <2>1. sem[f].value = 1 /\ sem'[f].value = 0
    BY <1>1, <1>3 DEF TokensOK
  <2>2. \A q \in Everyone : ~Holds(q, f)
    BY <2>1 DEF TokensOK
  <2>3. \A g \in Fork : g # f => sem'[g].value = sem[g].value
    BY <1>1
  <2> QED
    BY <1>3, <2>1, <2>2, <2>3 DEF TokensOK
<1> QED
  BY <1>2, <1>3

\* A post: p holds f no more, and who is woken does.
LEMMA TokensPost ==
    ASSUME TypeOK, TokensOK, NEW p \in Everyone, NEW f \in Fork, Holds(p, f),
           \A s \in Sem : s # f => sem'[s].value = sem[s].value,
           \/ asleep' = asleep /\ sem'[f].value = sem[f].value + 1
           \/ /\ sem'[f].value = sem[f].value
              /\ \E h \in Everyone : /\ asleep[h] = f /\ asleep'[h] = NoSem
                                     /\ \A q \in Everyone : q # h => asleep'[q] = asleep[q],
           \A q \in Everyone, g \in Fork :
               Holds(q, g)' <=> \/ Holds(q, g) /\ ~(q = p /\ g = f)
                                \/ g = f /\ asleep[q] = f /\ asleep'[q] = NoSem
    PROVE  TokensOK'
<1>1. Fork \subseteq Sem /\ f # NoSem /\ \A g \in Fork : sem[g].value \in Nat
  BY Everybody DEF TypeOK
<1>2. sem[f].value = 0 /\ \A q \in Everyone : Holds(q, f) => q = p
  BY DEF TokensOK
<1>3. CASE asleep' = asleep /\ sem'[f].value = sem[f].value + 1
  <2>1. \A q \in Everyone : ~Holds(q, f)'
    BY <1>1, <1>2, <1>3
  <2>2. \A q \in Everyone, g \in Fork : g # f => (Holds(q, g)' <=> Holds(q, g))
    BY <1>3
  <2>3. sem'[f].value = 1 /\ \A g \in Fork : g # f => sem'[g].value = sem[g].value
    BY <1>1, <1>2, <1>3
  <2> QED
    BY <2>1, <2>2, <2>3 DEF TokensOK
<1>4. CASE sem'[f].value = sem[f].value /\ \E h \in Everyone :
              /\ asleep[h] = f /\ asleep'[h] = NoSem
              /\ \A q \in Everyone : q # h => asleep'[q] = asleep[q]
  <2>1. PICK h \in Everyone : \A q \in Everyone : q # h => asleep'[q] = asleep[q]
    BY <1>4
  <2>2. \A q \in Everyone : Holds(q, f)' => q = h
    BY <1>1, <1>2, <2>1
  <2>3. \A q \in Everyone, g \in Fork : g # f => (Holds(q, g)' <=> Holds(q, g))
    BY <1>4
  <2>4. sem'[f].value = 0 /\ \A g \in Fork : g # f => sem'[g].value = sem[g].value
    BY <1>1, <1>2, <1>4
  <2> QED
    BY <2>2, <2>3, <2>4 DEF TokensOK
<1> QED
  BY <1>3, <1>4

\* Nobody takes or leaves a fork.
LEMMA TokensStay ==
    ASSUME TokensOK, \A f \in Fork : sem'[f].value = sem[f].value,
           \A q \in Everyone, g \in Fork : Holds(q, g)' <=> Holds(q, g)
    PROVE  TokensOK'
BY DEF TokensOK

LEMMA SizesKnown ==
    ASSUME TableInv
    PROVE  /\ tableSize \in Nat /\ tableSize >= 2 /\ started \in Nat /\ forSeat \in Nat
           /\ forSeat <= tableSize /\ tableSize <= started /\ started <= MaxStarted
           /\ started < MAX_PHIL /\ MAX_PHIL \in Nat
<1>1. /\ tableSize \in Nat /\ tableSize >= 2 /\ started \in Nat /\ forSeat \in Nat
      /\ started <= MaxStarted /\ started < MAX_PHIL /\ MAX_PHIL \in Nat
  BY PhyloAssumption DEF TableInv, TypeOK, TableOK
<1>2. CASE pc[Father] \in {"a start", "a grow"}
  <2>1. started = tableSize + 1 /\ pc[started] \in Unseated
    BY <1>2 DEF TableInv, TableOK, SeatsOK, Unseated
  <2>2. forSeat = started - 1
    BY <2>1 DEF TableInv, SeatsOK
  <2> QED
    BY <1>1, <2>1, <2>2
<1>3. CASE pc[Father] \notin {"a start", "a grow"}
  <2>1. started = tableSize
    BY <1>3 DEF TableInv, TableOK
  <2>2. forSeat = started - 1 \/ forSeat = started
    BY DEF TableInv, SeatsOK
  <2> QED
    BY <1>1, <2>1, <2>2
<1> QED
  BY <1>2, <1>3

LEMMA ForksOfSeats ==
    ASSUME TableInv
    PROVE  \A i \in 0 .. started - 1 : eatingSemaphores[i] = i + 2
<1> TAKE i \in 0 .. started - 1
<1>1. eatingSemaphores[i] = (i + 1) + 1
  BY DEF TableInv, TableOK, ForkId
<1>2. i \in Int
  BY SizesKnown
<1> QED
  BY <1>1, <1>2

\* A philosopher knows two forks of the table, and they are not the same.
LEMMA TwoForks ==
    ASSUME TableInv, NEW p \in Philosopher, pc[p] \in Known
    PROVE  /\ First(p) \in Fork /\ sem[First(p)].open
           /\ Second(p) \in Fork /\ sem[Second(p)].open
           /\ First(p) # Second(p)
<1> DEFINE s == seat[p]
           n == tableSize
<1>1. /\ left[p] = s + 2
      /\ \/ right[p] = s + 3 /\ s + 1 < n
         \/ right[p] = 2 /\ s + 1 = n
         \/ right[p] = 2 /\ s + 2 = n /\ n > 2
  BY DEF TableInv, ForksOK
<1>2. s \in Nat /\ n \in Nat /\ n >= 2 /\ started \in Nat /\ forSeat \in Nat
  BY SizesKnown DEF TableInv, TypeOK
<1>3. s < forSeat /\ forSeat <= n
  BY SizesKnown DEF TableInv, SeatsOK, Seated
<1>4. n <= started /\ started <= MaxStarted
  BY SizesKnown DEF n
<1>5. left[p] \in Nat /\ right[p] \in Nat
  BY DEF TableInv, TypeOK
<1> HIDE DEF s, n
<1>6. /\ left[p] >= 2 /\ left[p] <= started + 1 /\ right[p] >= 2 /\ right[p] <= started + 1
      /\ left[p] # right[p]
  BY <1>1, <1>2, <1>3, <1>4, <1>5
<1>7. left[p] \in 1 .. started + 1 /\ right[p] \in 1 .. started + 1
  BY <1>2, <1>5, <1>6
<1>8. sem[left[p]].open /\ sem[right[p]].open
  BY <1>7 DEF TableInv, TableOK
<1>9. left[p] \in Fork /\ right[p] \in Fork
  BY <1>2, <1>4, <1>5, <1>6, Everybody
<1> QED
  BY <1>6, <1>8, <1>9 DEF First, Second

\* So is the fork that the father waits for.
LEMMA StopFork ==
    ASSUME TableInv
    PROVE  /\ SemToStop(tableSize) \in Fork /\ sem[SemToStop(tableSize)].open
           /\ SemToStop(tableSize) = IF tableSize % 2 = 1 THEN tableSize + 1 ELSE 2
           /\ tableSize > 2 =>
                /\ SemToStop(tableSize - 1) \in Fork /\ sem[SemToStop(tableSize - 1)].open
<1> DEFINE n == tableSize
<1>1. n \in Nat /\ n >= 2 /\ started \in Nat /\ n <= started /\ started <= MaxStarted
  BY SizesKnown
<1>2. \A m \in Nat : m >= 2 /\ m <= started + 1 => m \in Fork /\ sem[m].open
  <2> TAKE m \in Nat
  <2>1. m >= 2 /\ m <= started + 1 => m \in 1 .. started + 1 /\ m <= MaxStarted + 1
    BY <1>1, Everybody
  <2> QED
    BY <2>1, Everybody DEF TableInv, TableOK
<1>3. eatingSemaphores[0] = 2 /\ eatingSemaphores[n - 1] = n + 1
      /\ (n > 2 => eatingSemaphores[n - 2] = n)
  <2>1. 0 \in 0 .. started - 1 /\ n - 1 \in 0 .. started - 1
        /\ (n > 2 => n - 2 \in 0 .. started - 1)
    BY <1>1
  <2>2. \A i \in 0 .. started - 1 : eatingSemaphores[i] = i + 2
    BY ForksOfSeats
  <2> QED
    BY <1>1, <2>1, <2>2
<1> HIDE DEF n
<1>4. SemToStop(n) = IF n % 2 = 1 THEN n + 1 ELSE 2
  BY <1>3 DEF SemToStop
<1>5. n > 2 => SemToStop(n - 1) = 2 \/ SemToStop(n - 1) = n
  <2>1. n - 1 - 1 = n - 2
    BY <1>1
  <2> QED
    BY <1>3, <2>1 DEF SemToStop
<1>6. 2 \in Nat /\ 2 >= 2 /\ 2 <= started + 1 /\ n \in Nat /\ n <= started + 1
      /\ n + 1 \in Nat /\ n + 1 >= 2 /\ n + 1 <= started + 1
  BY <1>1
<1>7. /\ 2 \in Fork /\ sem[2].open /\ n \in Fork /\ sem[n].open
      /\ n + 1 \in Fork /\ sem[n + 1].open
  BY <1>1, <1>2, <1>6
<1> QED
  BY <1>4, <1>5, <1>7 DEF n

\* Who does nothing himself holds what he held, and what he is woken with.
LEMMA NotOne ==
    ASSUME NEW q \in Everyone, pc'[q] = pc[q],
           q = Father => FatherStop' = FatherStop,
           q # Father => First(q)' = First(q) /\ Second(q)' = Second(q),
           asleep'[q] = asleep[q], SleepsAt(q)
    PROVE  SleepsAt(q)' /\ \A g \in Fork : Holds(q, g)' <=> Holds(q, g)
<1>1. SleepsAt(q)'
  BY DEF SleepsAt
<1>2. (HasFirst(q)' <=> HasFirst(q)) /\ (HasSecond(q)' <=> HasSecond(q))
  BY DEF HasFirst, HasSecond
<1>3. q = Father => (FatherHas' <=> FatherHas)
  BY DEF FatherHas, Father
<1> QED
  BY <1>1, <1>2, <1>3 DEF Holds

LEMMA OneWoken ==
    ASSUME NEW q \in Everyone, pc'[q] = pc[q],
           q = Father => FatherStop' = FatherStop,
           q # Father => First(q)' = First(q) /\ Second(q)' = Second(q),
           NEW f \in Sem, asleep[q] = f, asleep'[q] = NoSem, SleepsAt(q)
    PROVE  SleepsAt(q)' /\ \A g \in Fork : Holds(q, g)' <=> Holds(q, g) \/ g = f
<1>1. SleepsAt(q)' /\ f # NoSem
  BY Everybody DEF SleepsAt
<1>2. CASE q = Father /\ pc[q] = "a fork" /\ f = FatherStop
  BY <1>1, <1>2 DEF Holds, FatherHas, Father, Adding
<1>3. CASE q # Father /\ pc[q] = "take" /\ f = SemForSeat
  <2>1. ~HasFirst(q)' /\ ~HasSecond(q)' /\ ~HasFirst(q) /\ ~HasSecond(q)
    BY <1>3 DEF HasFirst, HasSecond
  <2> QED
    BY <1>1, <1>3, <2>1, Everybody DEF Holds
<1>4. CASE q # Father /\ pc[q] = "between" /\ f = First(q)
  <2>1. HasFirst(q)' /\ ~HasSecond(q)' /\ ~HasFirst(q) /\ ~HasSecond(q)
    BY <1>1, <1>4 DEF HasFirst, HasSecond
  <2> QED
    BY <1>1, <1>4, <2>1 DEF Holds
<1>5. CASE q # Father /\ pc[q] = "both" /\ f = Second(q)
  <2>1. HasFirst(q)' /\ HasSecond(q)' /\ HasFirst(q) /\ ~HasSecond(q)
    BY <1>1, <1>5 DEF HasFirst, HasSecond
  <2> QED
    BY <1>1, <1>5, <2>1 DEF Holds
<1> QED
  BY <1>1, <1>2, <1>3, <1>4, <1>5 DEF SleepsAt

\* What the others of p are not told of.
Others(p) ==
    /\ \A q \in Everyone : q # p => pc'[q] = pc[q]
    /\ \A q \in Philosopher : q # p =>
           left'[q] = left[q] /\ right'[q] = right[q] /\ seat'[q] = seat[q]
    /\ p # Father => FatherStop' = FatherStop

LEMMA SameForks ==
    ASSUME NEW p \in Everyone, Others(p), NEW q \in Philosopher, q # p
    PROVE  First(q)' = First(q) /\ Second(q)' = Second(q)
BY DEF Others, First, Second, Even

LEMMA AfterNothing ==
    ASSUME TableInv, NEW p \in Everyone, asleep' = asleep,
           \A s \in Sem : sem'[s].value = sem[s].value /\ sem'[s].queue = sem[s].queue,
           Others(p), SleepsAt(p)', \A g \in Fork : Holds(p, g)' <=> Holds(p, g)
    PROVE  SleepOK' /\ QueuesOK' /\ TokensOK'
<1>1. asleep' = asleep /\ \A s \in Sem : /\ sem'[s].value = sem[s].value
                                         /\ sem'[s].queue = sem[s].queue
  OBVIOUS
<1>2. ASSUME NEW q \in Everyone, q # p
      PROVE  SleepsAt(q)' /\ \A g \in Fork : Holds(q, g)' <=> Holds(q, g)
  <2>1. SleepsAt(q)
    BY DEF TableInv, SleepOK
  <2>2. q # Father => First(q)' = First(q) /\ Second(q)' = Second(q)
    BY <1>2, SameForks, Everybody
  <2>3. pc'[q] = pc[q] /\ asleep'[q] = asleep[q] /\ (q = Father => FatherStop' = FatherStop)
    BY <1>1, <1>2 DEF Others
  <2> QED
    BY <2>1, <2>2, <2>3, NotOne
<1>3. SleepOK'
  BY <1>2 DEF SleepOK
<1>4. QueuesOK'
  BY <1>1 DEF TableInv, QueuesOK
<1>5. TokensOK'
  <2>1. \A q \in Everyone, g \in Fork : Holds(q, g)' <=> Holds(q, g)
    BY <1>2
  <2>2. TokensOK /\ \A f \in Fork : sem'[f].value = sem[f].value
    BY <1>1, Everybody DEF TableInv
  <2> QED
    BY <2>1, <2>2, TokensStay
<1> QED
  BY <1>3, <1>4, <1>5

LEMMA AfterWait ==
    ASSUME TableInv, NEW p \in Everyone, NEW f \in Fork, sem[f].open, asleep[p] = NoSem,
           WaitSem(p, f), Others(p), SleepsAt(p)',
           \A g \in Fork : Holds(p, g)' <=> Holds(p, g) \/ (g = f /\ asleep'[p] = NoSem)
    PROVE  SleepOK' /\ QueuesOK' /\ TokensOK'
<1>1. TypeOK /\ QueuesOK /\ TokensOK /\ f \in Sem
  BY Everybody DEF TableInv
<1>2. /\ \A s \in Sem : s # f => sem'[s].value = sem[s].value
      /\ \A q \in Everyone : q # p => asleep'[q] = asleep[q]
      /\ \/ asleep'[p] = NoSem /\ sem[f].value > 0 /\ sem'[f].value = sem[f].value - 1
         \/ asleep'[p] = f /\ sem'[f].value = sem[f].value
      /\ QueuesOK'
  BY <1>1, Waits
<1>3. ASSUME NEW q \in Everyone, q # p
      PROVE  SleepsAt(q)' /\ \A g \in Fork : Holds(q, g)' <=> Holds(q, g)
  <2>1. SleepsAt(q)
    BY DEF TableInv, SleepOK
  <2>2. q # Father => First(q)' = First(q) /\ Second(q)' = Second(q)
    BY <1>3, SameForks, Everybody
  <2>3. pc'[q] = pc[q] /\ asleep'[q] = asleep[q] /\ (q = Father => FatherStop' = FatherStop)
    BY <1>2, <1>3 DEF Others
  <2> QED
    BY <2>1, <2>2, <2>3, NotOne
<1>4. SleepOK'
  BY <1>3 DEF SleepOK
<1>5. \A q \in Everyone, g \in Fork :
          Holds(q, g)' <=> Holds(q, g) \/ (q = p /\ g = f /\ asleep'[p] = NoSem)
  BY <1>3
<1>6. TokensOK'
  BY <1>1, <1>2, <1>5, TokensWait
<1> QED
  BY <1>2, <1>4, <1>6

\* The post of a fork that p holds, or of the semaphore for the seats.
LEMMA AfterPost ==
    ASSUME TableInv, NEW p \in Everyone, NEW f \in Sem, sem[f].open, asleep[p] = NoSem,
           PostSem(f), Others(p), f \in Fork => Holds(p, f),
           \A g \in Fork : Holds(p, g)' <=> Holds(p, g) /\ g # f
    PROVE  SleepOK' /\ QueuesOK' /\ TokensOK'
<1>1. TypeOK /\ QueuesOK /\ TokensOK /\ f # NoSem
  BY Everybody DEF TableInv
<1>2. /\ \A s \in Sem : s # f => sem'[s].value = sem[s].value
      /\ \/ asleep' = asleep /\ sem'[f].value = sem[f].value + 1
         \/ /\ sem'[f].value = sem[f].value
            /\ \E h \in Everyone : /\ asleep[h] = f /\ asleep'[h] = NoSem
                                   /\ \A q \in Everyone : q # h => asleep'[q] = asleep[q]
      /\ QueuesOK'
  BY <1>1, Posts
<1>3. \A q \in Everyone : asleep'[q] = asleep[q] \/ (asleep[q] = f /\ asleep'[q] = NoSem)
  BY <1>2
<1>4. asleep'[p] = NoSem
  BY <1>1, <1>3
<1>5. ASSUME NEW q \in Everyone, q # p
      PROVE  /\ SleepsAt(q)'
             /\ \A g \in Fork : Holds(q, g)' <=>
                    Holds(q, g) \/ (g = f /\ asleep[q] = f /\ asleep'[q] = NoSem)
  <2>1. SleepsAt(q)
    BY DEF TableInv, SleepOK
  <2>2. q # Father => First(q)' = First(q) /\ Second(q)' = Second(q)
    BY <1>5, SameForks, Everybody
  <2>3. pc'[q] = pc[q] /\ (q = Father => FatherStop' = FatherStop)
    BY <1>5 DEF Others
  <2>4. CASE asleep'[q] = asleep[q]
    <3>1. SleepsAt(q)' /\ \A g \in Fork : Holds(q, g)' <=> Holds(q, g)
      BY <2>1, <2>2, <2>3, <2>4, NotOne
    <3> QED
      BY <1>1, <2>4, <3>1
  <2>5. CASE asleep[q] = f /\ asleep'[q] = NoSem
    <3>1. SleepsAt(q)' /\ \A g \in Fork : Holds(q, g)' <=> Holds(q, g) \/ g = f
      BY <2>1, <2>2, <2>3, <2>5, OneWoken
    <3> QED
      BY <2>5, <3>1
  <2> QED
    BY <1>3, <2>4, <2>5
<1>6. SleepOK'
  BY <1>4, <1>5 DEF SleepOK, SleepsAt
<1>7. TokensOK'
  <2>1. \A q \in Everyone, g \in Fork :
            Holds(q, g)' <=> \/ Holds(q, g) /\ ~(q = p /\ g = f)
                             \/ g = f /\ asleep[q] = f /\ asleep'[q] = NoSem
    BY <1>1, <1>5
  <2>2. CASE f \in Fork
    <3>1. Holds(p, f)
      BY <2>2
    <3> QED
      BY <1>1, <1>2, <2>1, <2>2, <3>1, TokensPost
  <2>3. CASE f \notin Fork
    <3>1. \A q \in Everyone, g \in Fork : Holds(q, g)' <=> Holds(q, g)
      BY <2>1, <2>3
    <3>2. \A g \in Fork : sem'[g].value = sem[g].value
      BY <1>2, <2>3, Everybody
    <3> QED
      BY <1>1, <3>1, <3>2, TokensStay
  <2> QED
    BY <2>2, <2>3
<1> QED
  BY <1>2, <1>6, <1>7

-----------------------------------------------------------------------------
(* eatingPhylo.                                                            *)

\* The forks that p goes on with.
ForksAt(p) ==
    pc[p] \in Known =>
        /\ left[p] = seat[p] + 2
        /\ \/ right[p] = seat[p] + 3 /\ seat[p] + 1 < tableSize
           \/ right[p] = 2 /\ seat[p] + 1 = tableSize
           \/ /\ right[p] = 2 /\ seat[p] + 2 = tableSize /\ tableSize > 2
              /\ pc[Father] \notin Adding /\ ~More(tableSize)

KernelTypes ==
    /\ sem' \in [Sem -> [open : BOOLEAN, value : Nat, queue : Seq(Everyone)]]
    /\ asleep' \in [Everyone -> Sem \cup {NoSem}]
    /\ \A s \in Sem : sem'[s].open = sem[s].open

\* A philosopher with a seat goes on.
LEMMA GoesOn ==
    ASSUME TableInv, NEW p \in Philosopher, pc[p] \in Seated, NEW w \in Seated, Go(p, w),
           KernelTypes, left' \in [Philosopher -> Nat], right' \in [Philosopher -> Nat],
           \A q \in Philosopher : q # p => left'[q] = left[q] /\ right'[q] = right[q],
           seat' = seat, UNCHANGED <<seating, keys>>, mustSkip' = 0, ForksAt(p)'
    PROVE  TypeOK' /\ TableOK' /\ SeatsOK' /\ GrowthOK' /\ ForksOK' /\ Others(p)
<1>1. /\ pc \in [Everyone -> Unseated \cup Seated \cup Adding \cup {"read", "a post"}]
      /\ p \in Everyone /\ p # Father /\ Father \in Everyone
      /\ \A q \in Philosopher : q \in Everyone
  BY Everybody DEF TableInv, TypeOK
<1>2. /\ pc'[p] = w /\ \A q \in Everyone : q # p => pc'[q] = pc[q]
      /\ pc' \in [Everyone -> Unseated \cup Seated \cup Adding \cup {"read", "a post"}]
  BY <1>1 DEF Go
<1>3. pc'[Father] = pc[Father]
  BY <1>1, <1>2
<1>4. UNCHANGED <<eatingSemaphores, pids, started, tableSize, forSeat, keys>>
  BY DEF seating
<1>5. TypeOK'
  <2>1. \A q \in Philosopher : pc'[q] \in Unseated \cup Seated
    BY <1>1, <1>2 DEF TableInv, TypeOK
  <2> QED
    BY <1>2, <1>3, <1>4, <2>1 DEF TableInv, TypeOK, KernelTypes
<1>6. \A q \in Philosopher : (pc'[q] \in Seated <=> pc[q] \in Seated)
  BY <1>1, <1>2
<1>7. \A q \in Philosopher : pc[q] \in {"none", "sit", "take"} => q # p
  BY DEF Seated, Known
<1>8. \A q \in Philosopher : pc'[q] # pc[q] => pc[q] \notin Unseated /\ pc'[q] \notin Unseated
  BY <1>1, <1>2 DEF Seated, Known, Unseated
<1>9. started \in Philosopher
  BY SizesKnown, Everybody DEF Philosopher
<1>10. /\ pc'[started] = "none" <=> pc[started] = "none"
       /\ pc'[started] = "sit" <=> pc[started] = "sit"
       /\ pc'[started] \in Unseated <=> pc[started] \in Unseated
  BY <1>8, <1>9 DEF Unseated
<1>11. \A q \in Philosopher : pc'[q] = "none" <=> pc[q] = "none"
  BY <1>8 DEF Unseated
<1>12. TableOK'
  <2>1. \A s \in 1 .. started + 1 : sem'[s].open
    <3>1. \A s \in 1 .. started + 1 : s \in Sem
      BY SizesKnown, Everybody DEF Sem, SemForSeat
    <3> QED
      BY <3>1 DEF KernelTypes, TableInv, TableOK
  <2> QED
    BY <1>3, <1>4, <1>11, <2>1 DEF TableInv, TableOK
<1>13. SeatsOK'
  BY <1>3, <1>4, <1>6, <1>10, <1>11 DEF TableInv, SeatsOK
<1>14. GrowthOK'
  <2>1. pc'[started] \in Seated <=> pc[started] \in Seated
    BY <1>6, <1>9
  <2> QED
    BY <1>3, <1>4, <2>1 DEF TableInv, GrowthOK, More
<1>15. ForksOK'
  <2> SUFFICES ASSUME NEW q \in Philosopher
               PROVE  ForksAt(q)'
    BY DEF ForksOK, ForksAt
  <2>1. CASE q # p
    BY <1>1, <1>2, <1>3, <1>4, <2>1 DEF TableInv, ForksOK, ForksAt, More
  <2> QED
    BY <2>1
<1>16. Others(p)
  <2>1. FatherStop' = FatherStop
    BY <1>3, <1>4 DEF FatherStop, SemToStop
  <2> QED
    BY <1>2, <2>1 DEF Others
<1> QED
  BY <1>5, <1>12, <1>13, <1>14, <1>15, <1>16

LEMMA Quiet ==
    ASSUME TableInv, NEW p \in Philosopher, pc[p] \in Seated, asleep[p] = NoSem,
           NEW w \in Seated, Go(p, w), UNCHANGED kernel,
           left' \in [Philosopher -> Nat], right' \in [Philosopher -> Nat],
           \A q \in Philosopher : q # p => left'[q] = left[q] /\ right'[q] = right[q],
           seat' = seat, UNCHANGED <<seating, keys>>, mustSkip' = 0, ForksAt(p)',
           \A g \in Fork : Holds(p, g)' <=> Holds(p, g)
    PROVE  TableInv'
<1>1. KernelTypes
  BY DEF KernelTypes, kernel, TableInv, TypeOK
<1>2. TypeOK' /\ TableOK' /\ SeatsOK' /\ GrowthOK' /\ ForksOK' /\ Others(p)
  BY <1>1, GoesOn
<1>3. SleepsAt(p)' /\ p \in Everyone
  BY Everybody DEF SleepsAt, kernel
<1>4. sem' = sem /\ asleep' = asleep
  BY DEF kernel
<1>5. SleepOK' /\ QueuesOK' /\ TokensOK'
  BY <1>2, <1>3, <1>4, AfterNothing
<1> QED
  BY <1>2, <1>5 DEF TableInv

\* The forks that a philosopher knows stay the same.
LEMMA ForksStay ==
    ASSUME TableInv, NEW p \in Philosopher, pc[p] \in Known, NEW w, Go(p, w),
           UNCHANGED <<locals, seating, keys>>
    PROVE  ForksAt(p)' /\ First(p)' = First(p) /\ Second(p)' = Second(p)
<1>1. /\ left' = left /\ right' = right /\ seat' = seat /\ tableSize' = tableSize
      /\ keys' = keys /\ pc'[Father] = pc[Father]
  BY Everybody DEF locals, seating, Go, TableInv, TypeOK
<1>2. ForksAt(p)'
  BY <1>1 DEF TableInv, ForksOK, ForksAt, More
<1> QED
  BY <1>1, <1>2 DEF First, Second, Even

\* The steps between two calls.
LEMMA QuietSteps ==
    ASSUME TableInv, NEW p \in Philosopher, UNCHANGED father,
           Announce(p) \/ Between(p) \/ HasBoth(p) \/ EatOrSkip(p) \/ ClearFlag(p)
    PROVE  TableInv'
<1>1. /\ p \in Everyone /\ p # Father /\ mustSkip = 0 /\ UNCHANGED keys
      /\ left \in [Philosopher -> Nat] /\ right \in [Philosopher -> Nat]
      /\ pc \in [Everyone -> Unseated \cup Seated \cup Adding \cup {"read", "a post"}]
  BY Everybody DEF TableInv, TypeOK, father
<1>2. ASSUME NEW v \in Known, NEW w \in Known, pc[p] = v, asleep[p] = NoSem, Go(p, w),
             UNCHANGED <<kernel, locals, seating>>, mustSkip' = mustSkip,
             v \in {"between", "second", "both", "check", "eat"} <=>
                 w \in {"second", "both", "check", "eat"},
             v \in {"both", "check", "eat", "clear", "full"} <=>
                 w \in {"check", "eat", "clear", "full"},
             w # "between" /\ w # "both"
      PROVE  TableInv'
  <2>1. ForksAt(p)' /\ First(p)' = First(p) /\ Second(p)' = Second(p)
    BY <1>1, <1>2, ForksStay
  <2>2. pc'[p] = w /\ asleep'[p] = NoSem
    BY <1>1, <1>2 DEF Go, kernel
  <2>3. \A g \in Fork : Holds(p, g)' <=> Holds(p, g)
    <3>1. HasFirst(p) <=> v \in {"between", "second", "both", "check", "eat"}
      BY <1>2 DEF HasFirst
    <3>2. HasSecond(p) <=> v \in {"both", "check", "eat", "clear", "full"}
      BY <1>2 DEF HasSecond
    <3>3. HasFirst(p)' <=> w \in {"second", "both", "check", "eat"}
      BY <1>2, <2>2 DEF HasFirst
    <3>4. HasSecond(p)' <=> w \in {"check", "eat", "clear", "full"}
      BY <1>2, <2>2 DEF HasSecond
    <3> QED
      BY <1>1, <1>2, <2>1, <3>1, <3>2, <3>3, <3>4 DEF Holds
  <2>4. /\ left' = left /\ right' = right /\ seat' = seat /\ UNCHANGED <<seating, keys>>
        /\ UNCHANGED kernel
    BY <1>1, <1>2 DEF locals
  <2>5. v \in Seated /\ w \in Seated
    BY DEF Seated
  <2> QED
    BY <1>1, <1>2, <2>1, <2>3, <2>4, <2>5, Quiet
<1>3. CASE Announce(p)
  BY <1>1, <1>2, <1>3 DEF Announce, At, HasCpu, Known
<1>4. CASE Between(p)
  BY <1>1, <1>2, <1>4 DEF Between, At, HasCpu, Known
<1>5. CASE HasBoth(p)
  BY <1>1, <1>2, <1>5 DEF HasBoth, At, HasCpu, Known
<1>6. CASE EatOrSkip(p)
  <2>1. ~MaySkip(p)
    <3>1. mustSkip = 0
      BY <1>1
    <3>2. ~(mustSkip > 0)
      BY <3>1
    <3> QED
      BY <3>2, Zenon DEF MaySkip
  <2> QED
    BY <1>1, <1>2, <1>6, <2>1 DEF EatOrSkip, At, HasCpu, Known
<1>7. CASE ClearFlag(p)
  BY <1>1, <1>2, <1>7 DEF ClearFlag, At, HasCpu, Known
<1> QED
  BY <1>3, <1>4, <1>5, <1>6, <1>7

\* The two waits.
LEMMA WaitSteps ==
    ASSUME TableInv, NEW p \in Philosopher, UNCHANGED father, WaitFirst(p) \/ WaitSecond(p)
    PROVE  TableInv'
<1>1. /\ p \in Everyone /\ p # Father /\ mustSkip = 0 /\ UNCHANGED keys
      /\ left \in [Philosopher -> Nat] /\ right \in [Philosopher -> Nat]
      /\ pc \in [Everyone -> Unseated \cup Seated \cup Adding \cup {"read", "a post"}]
      /\ TypeOK /\ QueuesOK
  BY Everybody DEF TableInv, TypeOK, father
<1>2. ASSUME NEW v \in Known, NEW w \in Known, pc[p] = v, asleep[p] = NoSem, Go(p, w),
             UNCHANGED <<locals, seating, flags>>, NEW f \in Fork, sem[f].open, WaitSem(p, f),
             \/ v = "first" /\ w = "between" /\ f = First(p)
             \/ v = "second" /\ w = "both" /\ f = Second(p)
      PROVE  TableInv'
  <2>1. ForksAt(p)' /\ First(p)' = First(p) /\ Second(p)' = Second(p)
    BY <1>1, <1>2, ForksStay
  <2>2. KernelTypes /\ f \in Sem
        /\ (asleep'[p] = NoSem \/ asleep'[p] = f)
    BY <1>1, <1>2, Waits, Everybody DEF KernelTypes
  <2>3. pc'[p] = w /\ f # NoSem
    BY <1>1, <1>2, Everybody DEF Go
  <2>4. SleepsAt(p)'
    BY <1>1, <1>2, <2>1, <2>2, <2>3 DEF SleepsAt
  <2>5. \A g \in Fork : Holds(p, g)' <=> Holds(p, g) \/ (g = f /\ asleep'[p] = NoSem)
    <3>1. CASE v = "first"
      <4>1. ~HasFirst(p) /\ ~HasSecond(p) /\ ~HasSecond(p)'
        BY <1>2, <2>3, <3>1 DEF HasFirst, HasSecond
      <4>2. HasFirst(p)' <=> asleep'[p] = NoSem
        BY <1>2, <2>3, <3>1 DEF HasFirst
      <4> QED
        BY <1>1, <1>2, <2>1, <3>1, <4>1, <4>2 DEF Holds
    <3>2. CASE v = "second"
      <4>1. HasFirst(p) /\ ~HasSecond(p) /\ HasFirst(p)'
        BY <1>2, <2>3, <3>2 DEF HasFirst, HasSecond
      <4>2. HasSecond(p)' <=> asleep'[p] = NoSem
        BY <1>2, <2>3, <3>2 DEF HasSecond
      <4> QED
        BY <1>1, <1>2, <2>1, <3>2, <4>1, <4>2 DEF Holds
    <3> QED
      BY <1>2, <3>1, <3>2
  <2>6. /\ left' = left /\ right' = right /\ seat' = seat /\ UNCHANGED <<seating, keys>>
        /\ mustSkip' = 0
    BY <1>1, <1>2 DEF locals, flags
  <2>7. v \in Seated /\ w \in Seated
    BY DEF Seated
  <2>8. TypeOK' /\ TableOK' /\ SeatsOK' /\ GrowthOK' /\ ForksOK' /\ Others(p)
    BY <1>1, <1>2, <2>1, <2>2, <2>6, <2>7, GoesOn
  <2>9. SleepOK' /\ QueuesOK' /\ TokensOK'
    BY <1>1, <1>2, <2>4, <2>5, <2>8, AfterWait
  <2> QED
    BY <2>8, <2>9 DEF TableInv
<1>3. CASE WaitFirst(p)
  <2>1. pc[p] = "first" /\ asleep[p] = NoSem /\ WaitSem(p, First(p)) /\ Go(p, "between")
        /\ UNCHANGED <<locals, seating, flags>>
    BY <1>3 DEF WaitFirst, At, HasCpu
  <2>2. First(p) \in Fork /\ sem[First(p)].open /\ "first" \in Known /\ "between" \in Known
    BY <2>1, TwoForks DEF Known
  <2> QED
    BY <1>2, <2>1, <2>2
<1>4. CASE WaitSecond(p)
  <2>1. pc[p] = "second" /\ asleep[p] = NoSem /\ WaitSem(p, Second(p)) /\ Go(p, "both")
        /\ UNCHANGED <<locals, seating, flags>>
    BY <1>4 DEF WaitSecond, At, HasCpu
  <2>2. Second(p) \in Fork /\ sem[Second(p)].open /\ "second" \in Known /\ "both" \in Known
    BY <2>1, TwoForks DEF Known
  <2> QED
    BY <1>2, <2>1, <2>2
<1> QED
  BY <1>3, <1>4

\* The posts: of the forks, and of the semaphore for the seats.
LEMMA PostSteps ==
    ASSUME TableInv, NEW p \in Philosopher, UNCHANGED father,
           SeatTaken(p) \/ PostFirst(p) \/ PostSecond(p)
    PROVE  TableInv'
<1>1. /\ p \in Everyone /\ p # Father /\ mustSkip = 0 /\ UNCHANGED keys
      /\ left \in [Philosopher -> Nat] /\ right \in [Philosopher -> Nat]
      /\ pc \in [Everyone -> Unseated \cup Seated \cup Adding \cup {"read", "a post"}]
      /\ TypeOK /\ QueuesOK
  BY Everybody DEF TableInv, TypeOK, father
<1>2. ASSUME NEW v \in Seated, NEW w \in Seated, pc[p] = v, asleep[p] = NoSem, Go(p, w),
             left' \in [Philosopher -> Nat], right' \in [Philosopher -> Nat],
             \A q \in Philosopher : q # p => left'[q] = left[q] /\ right'[q] = right[q],
             seat' = seat, UNCHANGED <<seating, flags>>, ForksAt(p)',
             NEW f \in Sem, sem[f].open, PostSem(f), f \in Fork => Holds(p, f),
             \A g \in Fork : Holds(p, g)' <=> Holds(p, g) /\ g # f
      PROVE  TableInv'
  <2>1. KernelTypes
    BY <1>1, <1>2, Posts DEF KernelTypes
  <2>2. UNCHANGED <<seating, keys>> /\ mustSkip' = 0
    BY <1>1, <1>2 DEF flags
  <2>3. TypeOK' /\ TableOK' /\ SeatsOK' /\ GrowthOK' /\ ForksOK' /\ Others(p)
    BY <1>1, <1>2, <2>1, <2>2, GoesOn
  <2>4. SleepOK' /\ QueuesOK' /\ TokensOK'
    BY <1>1, <1>2, <2>3, AfterPost
  <2> QED
    BY <2>3, <2>4 DEF TableInv
<1>3. CASE SeatTaken(p)
  <2>1. pc[p] = "taken" /\ asleep[p] = NoSem /\ PostSem(SemForSeat) /\ Go(p, "look")
        /\ UNCHANGED <<locals, seating, flags>>
    BY <1>3 DEF SeatTaken, At, HasCpu
  <2>2. /\ pc'[p] = "look" /\ left' = left /\ right' = right /\ seat' = seat
        /\ UNCHANGED <<seating, flags>>
    BY <1>1, <2>1 DEF Go, locals
  <2>3. SemForSeat \in Sem /\ SemForSeat \notin Fork /\ sem[SemForSeat].open
    <3>1. 1 \in 1 .. started + 1
      BY SizesKnown
    <3> QED
      BY <3>1, Everybody DEF SemForSeat, TableInv, TableOK, Fork
  <2>4. ForksAt(p)' /\ \A g \in Fork : ~Holds(p, g)' /\ ~Holds(p, g)
    BY <1>1, <2>1, <2>2 DEF ForksAt, Known, Holds, HasFirst, HasSecond
  <2>5. "taken" \in Seated /\ "look" \in Seated
    BY DEF Seated
  <2> QED
    BY <1>1, <1>2, <2>1, <2>2, <2>3, <2>4, <2>5
<1>4. CASE PostFirst(p)
  <2> DEFINE w == IF seat[p] = 0 THEN "clear" ELSE "full"
             f == First(p)
  <2>1. pc[p] = "eat" /\ asleep[p] = NoSem /\ PostSem(f) /\ Go(p, w)
        /\ UNCHANGED <<locals, seating, flags>>
    BY <1>4 DEF PostFirst, At, HasCpu
  <2>2. f \in Fork /\ f \in Sem /\ sem[f].open /\ f # Second(p) /\ w \in {"clear", "full"}
    BY <2>1, TwoForks, Everybody DEF Known
  <2>3. ForksAt(p)' /\ First(p)' = First(p) /\ Second(p)' = Second(p)
    BY <1>1, <2>1, ForksStay DEF Known
  <2> HIDE DEF w, f
  <2>4. /\ pc'[p] = w /\ left' = left /\ right' = right /\ seat' = seat
        /\ UNCHANGED <<seating, flags>>
    BY <1>1, <2>1 DEF Go, locals
  <2>5. /\ HasFirst(p) /\ HasSecond(p) /\ ~HasFirst(p)' /\ HasSecond(p)'
    BY <2>1, <2>2, <2>4 DEF HasFirst, HasSecond
  <2>6. Holds(p, f) /\ \A g \in Fork : Holds(p, g)' <=> Holds(p, g) /\ g # f
    BY <1>1, <2>2, <2>3, <2>5 DEF Holds, f
  <2>7. "eat" \in Seated /\ w \in Seated
    BY <2>2 DEF Seated, Known
  <2> QED
    BY <1>1, <1>2, <2>1, <2>2, <2>3, <2>4, <2>6, <2>7
<1>5. CASE PostSecond(p)
  <2> DEFINE f == Second(p)
  <2>1. pc[p] = "full" /\ asleep[p] = NoSem /\ PostSem(f) /\ Go(p, "look")
        /\ Forgets(p) /\ UNCHANGED <<seating, flags>>
    BY <1>5 DEF PostSecond, At, HasCpu
  <2>2. f \in Fork /\ f \in Sem /\ sem[f].open
    BY <2>1, TwoForks, Everybody DEF Known
  <2> HIDE DEF f
  <2>3. /\ pc'[p] = "look" /\ seat' = seat /\ UNCHANGED <<seating, flags>>
        /\ left' \in [Philosopher -> Nat] /\ right' \in [Philosopher -> Nat]
        /\ \A q \in Philosopher : q # p => left'[q] = left[q] /\ right'[q] = right[q]
    BY <1>1, <2>1 DEF Go, Forgets, NoSem
  <2>4. ForksAt(p)'
    BY <2>3 DEF ForksAt, Known
  <2>5. ~HasFirst(p) /\ HasSecond(p) /\ ~HasFirst(p)' /\ ~HasSecond(p)'
    BY <2>1, <2>3 DEF HasFirst, HasSecond
  <2>6. Holds(p, f) /\ \A g \in Fork : Holds(p, g)' <=> Holds(p, g) /\ g # f
    BY <1>1, <2>5 DEF Holds, f
  <2>7. "full" \in Seated /\ "look" \in Seated
    BY DEF Seated, Known
  <2> QED
    BY <1>1, <1>2, <2>1, <2>2, <2>3, <2>4, <2>6, <2>7
<1> QED
  BY <1>3, <1>4, <1>5

\* The forks beside the seat, as they are when the philosopher looks.
LEMMA LookStep ==
    ASSUME TableInv, NEW p \in Philosopher, UNCHANGED father, Look(p)
    PROVE  TableInv'
<1> DEFINE s == seat[p]
           n == tableSize
<1>1. /\ p \in Everyone /\ p # Father /\ mustSkip = 0 /\ UNCHANGED keys
      /\ left \in [Philosopher -> Nat] /\ right \in [Philosopher -> Nat]
      /\ pc \in [Everyone -> Unseated \cup Seated \cup Adding \cup {"read", "a post"}]
  BY Everybody DEF TableInv, TypeOK, father
<1>2. /\ pc[p] = "look" /\ asleep[p] = NoSem /\ Go(p, "announce")
      /\ UNCHANGED kernel /\ seat' = seat /\ UNCHANGED <<seating, keys>> /\ mustSkip' = 0
  BY <1>1 DEF Look, At, HasCpu, flags
<1>3. s \in Nat /\ n \in Nat /\ n >= 2 /\ started \in Nat /\ n <= started /\ s + 1 <= n
  <2>1. s \in Nat /\ s < forSeat
    BY <1>2 DEF TableInv, TypeOK, SeatsOK, Seated
  <2> QED
    BY <2>1, SizesKnown
<1>4. ID_RANGE \in Nat /\ started + 1 < ID_RANGE
  BY <1>3, SizesKnown, PhyloAssumption
<1>5. \A i \in 0 .. started - 1 : eatingSemaphores[i] % ID_RANGE = i + 2
  <2> TAKE i \in 0 .. started - 1
  <2>1. eatingSemaphores[i] = i + 2
    BY ForksOfSeats
  <2>2. i + 2 \in Nat /\ i + 2 < ID_RANGE
    BY <1>3, <1>4
  <2> QED
    BY <1>4, <2>1, <2>2
<1>6. left'[p] = eatingSemaphores[s] % ID_RANGE
  BY <1>1 DEF Look
<1>7. right'[p] = eatingSemaphores[(s + 1) % n] % ID_RANGE
  BY <1>1 DEF Look
<1>8. pc'[p] = "announce"
  BY <1>1, <1>2 DEF Go
<1> HIDE DEF s, n
<1>9. left'[p] = s + 2
  BY <1>3, <1>5, <1>6
<1>10. \/ right'[p] = s + 3 /\ s + 1 < n
       \/ right'[p] = 2 /\ s + 1 = n
  <2>1. CASE s + 1 < n
    <3>1. (s + 1) % n = s + 1 /\ s + 1 \in 0 .. started - 1
      BY <1>3, <2>1
    <3>2. eatingSemaphores[s + 1] % ID_RANGE = (s + 1) + 2
      BY <1>5, <3>1
    <3> QED
      BY <1>3, <1>7, <2>1, <3>1, <3>2
  <2>2. CASE s + 1 = n
    <3>1. (s + 1) % n = 0 /\ 0 \in 0 .. started - 1
      BY <1>3, <2>2
    <3> QED
      BY <1>5, <1>7, <2>2, <3>1
  <2> QED
    BY <1>3, <2>1, <2>2
<1>11. ForksAt(p)'
  <2>1. seat'[p] = s /\ tableSize' = n
    BY <1>2 DEF seating, s, n
  <2> QED
    BY <1>9, <1>10, <2>1 DEF ForksAt
<1>12. /\ left' \in [Philosopher -> Nat] /\ right' \in [Philosopher -> Nat]
       /\ \A q \in Philosopher : q # p => left'[q] = left[q] /\ right'[q] = right[q]
  <2>1. left'[p] \in Nat /\ right'[p] \in Nat
    BY <1>3, <1>9, <1>10
  <2>2. \E l, r : /\ left' = [left EXCEPT ![p] = l] /\ right' = [right EXCEPT ![p] = r]
    BY DEF Look
  <2> QED
    BY <1>1, <2>1, <2>2
<1>13. \A g \in Fork : Holds(p, g)' <=> Holds(p, g)
  BY <1>1, <1>2, <1>8 DEF Holds, HasFirst, HasSecond
<1>14. "look" \in Seated /\ "announce" \in Seated
  BY DEF Seated, Known
<1> QED
  BY <1>2, <1>11, <1>12, <1>13, <1>14, Quiet

\* Who has no seat yet is the one who was started last, and the table has grown.
LEMMA Newcomer ==
    ASSUME TableInv, NEW p \in Philosopher, GrowsOnce,
           pc[p] \in {"sit", "take"}, HasCpu(p)
    PROVE  /\ p = started /\ forSeat = started - 1 /\ started = tableSize
           /\ pc[Father] \notin {"a start", "a grow"}
<1>1. p \in Nat /\ started \in Nat /\ started \in Philosopher /\ p # Father
      /\ Father \in DOMAIN pc \ {p}
  <2>1. DOMAIN pc = Everyone
    BY DEF TableInv, TypeOK
  <2>2. p \in Nat /\ started \in Nat /\ started \in Philosopher
    BY SizesKnown, Everybody DEF Philosopher
  <2> QED
    BY <2>1, <2>2, Everybody
<1>2. pc[p] # "none" /\ pc[p] \notin Seated /\ pc[p] \in Unseated
  <2>1. \A w \in {"sit", "take"} : w # "none" /\ w \notin Seated /\ w \in Unseated
    BY DEF Seated, Known, Unseated
  <2> QED
    BY <2>1
<1>3. p = started
  <2>1. ~(p < started) /\ ~(p > started)
    BY <1>2 DEF TableInv, SeatsOK
  <2> QED
    BY <1>1, <2>1
<1>4. pc[Father] # "a start"
  <2>1. pc[Father] = "a start" => pc[started] = "none"
    BY DEF TableInv, SeatsOK
  <2> QED
    BY <1>2, <1>3, <2>1
<1>5. pc[Father] # "a grow"
  <2>1. asleep[Father] # NoSem => pc[Father] = "a fork"
    BY Everybody DEF TableInv, SleepOK, SleepsAt
  <2> QED
    BY <1>1, <2>1 DEF HasCpu, GrowsOnce
<1> QED
  BY <1>2, <1>3, <1>4, <1>5 DEF TableInv, TableOK, SeatsOK

\* The newcomer waits for its seat, and takes it.
LEMMA WaitForSeatStep ==
    ASSUME TableInv, GrowsOnce, NEW p \in Philosopher, UNCHANGED father, WaitForSeat(p)
    PROVE  TableInv'
<1>1. /\ p \in Everyone /\ p # Father /\ UNCHANGED keys /\ TypeOK /\ QueuesOK
      /\ pc \in [Everyone -> Unseated \cup Seated \cup Adding \cup {"read", "a post"}]
  BY Everybody DEF TableInv, TypeOK, father
<1>2. /\ pc[p] = "sit" /\ HasCpu(p) /\ asleep[p] = NoSem /\ WaitSem(p, SemForSeat)
      /\ Go(p, "take") /\ UNCHANGED <<locals, seating, flags>>
  BY DEF WaitForSeat, At, HasCpu
<1>3. p = started /\ pc[Father] \notin {"a start", "a grow"}
  BY <1>2, Newcomer
<1>4. SemForSeat \in Sem /\ SemForSeat \notin Fork /\ sem[SemForSeat].open
  <2>1. 1 \in 1 .. started + 1
    BY SizesKnown
  <2> QED
    BY <2>1, Everybody DEF SemForSeat, TableInv, TableOK, Fork
<1>5. /\ KernelTypes
      /\ \A s \in Sem : s # SemForSeat => sem'[s].value = sem[s].value
      /\ \A q \in Everyone : q # p => asleep'[q] = asleep[q]
      /\ asleep'[p] = NoSem \/ asleep'[p] = SemForSeat
      /\ QueuesOK'
  BY <1>1, <1>2, <1>4, Waits DEF KernelTypes
<1>6. /\ pc' \in [Everyone -> Unseated \cup Seated \cup Adding \cup {"read", "a post"}]
      /\ pc'[p] = "take" /\ \A q \in Everyone : q # p => pc'[q] = pc[q]
  <2>1. "take" \in Unseated
    BY DEF Unseated
  <2> QED
    BY <1>1, <1>2, <2>1 DEF Go
<1>7. pc'[Father] = pc[Father] /\ \A q \in Philosopher : q # p => pc'[q] = pc[q]
  BY <1>1, <1>6, Everybody
<1>8. /\ UNCHANGED <<seat, left, right, mustSkip, keys>>
      /\ UNCHANGED <<eatingSemaphores, pids, started, tableSize, forSeat>>
  BY <1>1, <1>2 DEF locals, seating, flags
<1>9. /\ \A w \in {"sit", "take"} : w # "none" /\ w \notin Seated /\ w \in Unseated
      /\ "take" \notin Known
  BY DEF Seated, Known, Unseated
<1>10. TypeOK'
  <2>1. \A q \in Philosopher : pc'[q] \in Unseated \cup Seated
    BY <1>6, <1>7, <1>9 DEF TableInv, TypeOK
  <2> QED
    BY <1>5, <1>6, <1>7, <1>8, <2>1 DEF TableInv, TypeOK, KernelTypes
<1>11. TableOK'
  <2>1. \A s \in 1 .. started + 1 : sem'[s].open
    <3>1. \A s \in 1 .. started + 1 : s \in Sem
      BY SizesKnown, Everybody DEF Sem, SemForSeat
    <3> QED
      BY <1>5, <3>1 DEF KernelTypes, TableInv, TableOK
  <2>2. \A q \in Philosopher : pc'[q] # "none" => pc[q] # "none"
    BY <1>2, <1>7, <1>9
  <2> QED
    BY <1>7, <1>8, <2>1, <2>2 DEF TableInv, TableOK
<1>12. SeatsOK'
  <2>1. \A q \in Philosopher : pc'[q] \in Seated <=> pc[q] \in Seated
    BY <1>2, <1>6, <1>7, <1>9
  <2>2. \A q \in Philosopher : q > started => pc'[q] = "none"
    <3>1. started \in Nat /\ ~(started > started)
      BY SizesKnown
    <3> QED
      BY <1>3, <1>7, <3>1 DEF TableInv, SeatsOK
  <2>3. pc'[started] \in Unseated /\ pc[started] \in Unseated
    BY <1>2, <1>3, <1>6, <1>9
  <2> QED
    BY <1>3, <1>7, <1>8, <2>1, <2>2, <2>3 DEF TableInv, SeatsOK
<1>13. GrowthOK'
  <2>1. pc[started] \notin Seated
    BY <1>2, <1>3, <1>9
  <2> QED
    BY <1>7, <1>8, <2>1 DEF TableInv, GrowthOK, More
<1>14. ForksOK'
  BY <1>6, <1>7, <1>8, <1>9 DEF TableInv, ForksOK, More
<1>15. \A q \in Everyone : /\ SleepsAt(q)'
                           /\ \A g \in Fork : Holds(q, g)' <=> Holds(q, g)
  <2>1. SleepsAt(p)'
    BY <1>1, <1>5, <1>6 DEF SleepsAt
  <2>2. \A g \in Fork : ~Holds(p, g) /\ ~Holds(p, g)'
    BY <1>1, <1>2, <1>6 DEF Holds, HasFirst, HasSecond
  <2>3. ASSUME NEW q \in Everyone, q # p
        PROVE  SleepsAt(q)' /\ \A g \in Fork : Holds(q, g)' <=> Holds(q, g)
    <3>1. pc'[q] = pc[q] /\ asleep'[q] = asleep[q] /\ SleepsAt(q)
      BY <1>5, <1>6, <2>3 DEF TableInv, SleepOK
    <3>2. q = Father => FatherStop' = FatherStop
      BY <1>7, <1>8 DEF FatherStop, SemToStop
    <3>3. q # Father => First(q)' = First(q) /\ Second(q)' = Second(q)
      BY <1>8, Everybody DEF First, Second, Even
    <3> QED
      BY <3>1, <3>2, <3>3, NotOne
  <2> QED
    BY <2>1, <2>2, <2>3
<1>16. SleepOK' /\ TokensOK'
  <2>1. \A f \in Fork : sem'[f].value = sem[f].value
    BY <1>4, <1>5, Everybody
  <2> QED
    BY <1>15, <2>1, TokensStay DEF SleepOK, TableInv
<1> QED
  BY <1>5, <1>10, <1>11, <1>12, <1>13, <1>14, <1>16 DEF TableInv

LEMMA TakeSeatStep ==
    ASSUME TableInv, GrowsOnce, NEW p \in Philosopher, UNCHANGED father, TakeSeat(p)
    PROVE  TableInv'
<1>1. /\ p \in Everyone /\ p # Father /\ UNCHANGED keys
      /\ pc \in [Everyone -> Unseated \cup Seated \cup Adding \cup {"read", "a post"}]
      /\ seat \in [Philosopher -> Nat]
  BY Everybody DEF TableInv, TypeOK, father
<1>2. /\ pc[p] = "take" /\ HasCpu(p) /\ asleep[p] = NoSem /\ Go(p, "taken")
      /\ seat' = [seat EXCEPT ![p] = forSeat] /\ forSeat' = forSeat + 1
      /\ UNCHANGED kernel
      /\ UNCHANGED <<left, right, eatingSemaphores, pids, started, tableSize, mustSkip>>
  BY DEF TakeSeat, At, HasCpu, flags
<1>3. p = started /\ forSeat = started - 1 /\ pc[Father] \notin {"a start", "a grow"}
  BY <1>2, Newcomer
<1>4. /\ pc' \in [Everyone -> Unseated \cup Seated \cup Adding \cup {"read", "a post"}]
      /\ pc'[p] = "taken" /\ \A q \in Everyone : q # p => pc'[q] = pc[q]
  <2>1. "taken" \in Seated
    BY DEF Seated
  <2> QED
    BY <1>1, <1>2, <2>1 DEF Go
<1>5. pc'[Father] = pc[Father] /\ \A q \in Philosopher : q # p => pc'[q] = pc[q]
  BY <1>1, <1>4, Everybody
<1>6. /\ "take" # "none" /\ "take" \notin Seated /\ "take" \in Unseated
      /\ "taken" # "none" /\ "taken" \in Seated /\ "taken" \notin Unseated
      /\ "taken" \notin Known
  BY DEF Seated, Known, Unseated
<1>7. sem' = sem /\ asleep' = asleep
  BY <1>2 DEF kernel
<1>8. started \in Nat /\ forSeat \in Nat /\ forSeat' = started /\ forSeat < started
  <2>1. started \in Nat /\ forSeat \in Nat /\ forSeat = started - 1
    BY <1>3, SizesKnown
  <2>2. forSeat' = forSeat + 1
    BY <1>2
  <2> QED
    BY <2>1, <2>2
<1>9. /\ seat' \in [Philosopher -> Nat] /\ seat'[p] = forSeat
      /\ \A q \in Philosopher : q # p => seat'[q] = seat[q]
  BY <1>1, <1>2, <1>8
<1>10. TypeOK'
  <2>1. \A q \in Philosopher : pc'[q] \in Unseated \cup Seated
    BY <1>4, <1>5, <1>6 DEF TableInv, TypeOK
  <2> QED
    BY <1>1, <1>2, <1>4, <1>5, <1>7, <1>8, <1>9, <2>1 DEF TableInv, TypeOK
<1>11. TableOK'
  <2>1. \A q \in Philosopher : pc'[q] # "none" => pc[q] # "none"
    BY <1>2, <1>5, <1>6
  <2> QED
    BY <1>2, <1>5, <1>7, <2>1 DEF TableInv, TableOK
<1>12. SeatsOK'
  <2>1. \A q \in Philosopher : q < started => pc'[q] \in Seated
    BY <1>4, <1>5, <1>6 DEF TableInv, SeatsOK
  <2>2. \A q \in Philosopher : q > started => pc'[q] = "none"
    <3>1. ~(started > started)
      BY <1>8
    <3> QED
      BY <1>3, <1>5, <3>1 DEF TableInv, SeatsOK
  <2>3. pc'[started] \notin Unseated
    BY <1>3, <1>4, <1>6
  <2>4. \A q \in Philosopher : q # p /\ pc'[q] \in Seated => pc[q] \in Seated /\ seat[q] < forSeat
    BY <1>5 DEF TableInv, SeatsOK
  <2>5. \A q \in Philosopher : pc'[q] \in Seated => seat'[q] < forSeat'
    <3> TAKE q \in Philosopher
    <3>1. CASE q = p
      BY <1>8, <1>9, <3>1
    <3>2. CASE q # p
      <4>1. seat[q] \in Nat
        BY <1>1
      <4> QED
        BY <1>8, <1>9, <2>4, <3>2, <4>1
    <3> QED
      BY <3>1, <3>2
  <2>6. \A q, r \in Philosopher :
            pc'[q] \in Seated /\ pc'[r] \in Seated /\ seat'[q] = seat'[r] => q = r
    <3>1. \A q \in Philosopher : q # p /\ pc'[q] \in Seated => seat'[q] # seat'[p]
      <4> TAKE q \in Philosopher
      <4>1. seat[q] \in Nat
        BY <1>1
      <4> QED
        BY <1>8, <1>9, <2>4, <4>1
    <3>2. \A q, r \in Philosopher : pc[q] \in Seated /\ pc[r] \in Seated /\ seat[q] = seat[r]
                                        => q = r
      BY DEF TableInv, SeatsOK
    <3> QED
      BY <1>5, <1>9, <3>1, <3>2
  <2>7. started' = started /\ forSeat' = started
    BY <1>2, <1>8
  <2>8. pc'[Father] \notin {"a start", "a grow"}
    BY <1>3, <1>5
  <2> QED
    BY <2>1, <2>2, <2>3, <2>5, <2>6, <2>7, <2>8 DEF SeatsOK
<1>13. GrowthOK'
  <2>1. pc[started] \notin Seated
    BY <1>2, <1>3, <1>6
  <2> QED
    BY <1>1, <1>2, <1>5, <2>1 DEF TableInv, GrowthOK, More
<1>14. ForksOK'
  BY <1>1, <1>2, <1>4, <1>5, <1>6, <1>9 DEF TableInv, ForksOK, More
<1>15. Others(p)
  <2>1. FatherStop' = FatherStop
    BY <1>2, <1>5 DEF FatherStop, SemToStop
  <2> QED
    BY <1>2, <1>4, <1>9, <2>1 DEF Others
<1>16. SleepsAt(p)' /\ \A g \in Fork : Holds(p, g)' <=> Holds(p, g)
  BY <1>1, <1>2, <1>4, <1>7 DEF SleepsAt, Holds, HasFirst, HasSecond
<1>17. SleepOK' /\ QueuesOK' /\ TokensOK'
  BY <1>1, <1>7, <1>15, <1>16, AfterNothing
<1> QED
  BY <1>10, <1>11, <1>12, <1>13, <1>14, <1>17 DEF TableInv

LEMMA EatingPhyloKeeps ==
    ASSUME TableInv, GrowsOnce, NEW p \in Philosopher, EatingPhylo(p)
    PROVE  TableInv'
<1>1. UNCHANGED father
  BY DEF EatingPhylo
<1>2. \/ WaitForSeat(p) \/ TakeSeat(p) \/ Look(p)
      \/ Announce(p) \/ Between(p) \/ HasBoth(p) \/ EatOrSkip(p) \/ ClearFlag(p)
      \/ WaitFirst(p) \/ WaitSecond(p)
      \/ SeatTaken(p) \/ PostFirst(p) \/ PostSecond(p)
  BY DEF EatingPhylo
<1> QED
  BY <1>1, <1>2, WaitForSeatStep, TakeSeatStep, LookStep, QuietSteps, WaitSteps, PostSteps

-----------------------------------------------------------------------------
(* startPhylo.                                                             *)

\* A key leaves the list: the others stay, in their order.
LEMMA KeysLeft ==
    ASSUME keys \in Seq({"a", "r", "q"}), NEW k, Typed(k)
    PROVE  /\ keys' \in Seq({"a", "r", "q"}) /\ 1 \in DOMAIN keys /\ keys[1] = k
           /\ \A i \in DOMAIN keys' : i + 1 \in DOMAIN keys /\ i + 1 # 1 /\ keys'[i] = keys[i + 1]
<1>1. keys # <<>> /\ Head(keys) = k /\ keys' = Tail(keys)
  BY DEF Typed
<1>2. Len(keys) \in Nat \ {0} /\ DOMAIN keys = 1 .. Len(keys)
  BY <1>1, EmptySeq, LenProperties
<1>3. /\ keys' \in Seq({"a", "r", "q"}) /\ Len(keys') = Len(keys) - 1
      /\ \A i \in 1 .. Len(keys') : keys'[i] = keys[i + 1]
      /\ Head(keys) = keys[1]
  BY <1>1, HeadTailProperties
<1>4. DOMAIN keys' = 1 .. Len(keys')
  BY <1>3, LenProperties
<1> QED
  BY <1>1, <1>2, <1>3, <1>4

LEMMA RefusedStep ==
    ASSUME TableInv, Refused
    PROVE  TableInv'
<1>1. /\ pc[Father] = "read" /\ keys \in Seq({"a", "r", "q"})
      /\ \A i \in DOMAIN keys : keys[i] # "r"
  BY DEF Refused, At, TableInv, TypeOK, GrowthOK
<1>2. Typed("a") /\ tableSize >= MAX_PHIL - 1
  <2>1. ~Typed("r")
    BY <1>1, KeysLeft
  <2> QED
    BY <2>1 DEF Refused
<1>3. /\ keys' \in Seq({"a", "r", "q"})
      /\ \A i \in DOMAIN keys' : keys'[i] # "r"
  <2>1. \A i \in DOMAIN keys' : i + 1 \in DOMAIN keys /\ keys'[i] = keys[i + 1]
    BY <1>1, <1>2, KeysLeft
  <2> QED
    BY <1>1, <1>2, <2>1, KeysLeft
<1>4. ~(tableSize + 1 < MAX_PHIL) /\ tableSize + 2 >= MAX_PHIL
  BY <1>2, SizesKnown
<1>5. ~More(tableSize) /\ ~More(tableSize)'
  BY <1>4 DEF More, Refused, seating
<1>6. /\ UNCHANGED <<sem, asleep, pc, seat, left, right, mustSkip>>
      /\ UNCHANGED <<eatingSemaphores, pids, started, tableSize, forSeat>>
  BY DEF Refused, kernel, locals, seating, flags
<1>7. TypeOK' /\ TableOK' /\ SeatsOK'
  BY <1>3, <1>6 DEF TableInv, TypeOK, TableOK, SeatsOK
<1>8. GrowthOK'
  <2>1. pc'[Father] = "read" /\ tableSize' + 2 >= MAX_PHIL
    BY <1>1, <1>4, <1>6
  <2> QED
    BY <1>3, <1>5, <2>1 DEF GrowthOK, Adding
<1>9. ForksOK'
  BY <1>5, <1>6 DEF TableInv, ForksOK
<1>10. SleepOK' /\ QueuesOK' /\ TokensOK'
  <2>1. pc'[Father] = "read" /\ asleep'[Father] = NoSem /\ Father \in Everyone
    BY <1>1, <1>6, Everybody DEF Refused, At, HasCpu
  <2>2. SleepsAt(Father)' /\ \A g \in Fork : Holds(Father, g)' <=> Holds(Father, g)
    BY <1>1, <2>1 DEF SleepsAt, Holds, FatherHas, Adding, Father
  <2>3. Others(Father)
    BY <1>6 DEF Others
  <2> QED
    BY <1>6, <2>1, <2>2, <2>3, AfterNothing
<1> QED
  BY <1>7, <1>8, <1>9, <1>10 DEF TableInv

\* The father asks for the fork that the last philosopher takes first.
LEMMA AddWaitsStep ==
    ASSUME TableInv, AddWaits
    PROVE  TableInv'
<1> DEFINE f == SemToStop(tableSize)
<1>1. /\ pc \in [Everyone -> Unseated \cup Seated \cup Adding \cup {"read", "a post"}]
      /\ Father \in Everyone /\ TypeOK /\ QueuesOK /\ mustSkip = 0
  BY Everybody DEF TableInv, TypeOK
<1>2. /\ Typed("a") /\ tableSize < MAX_PHIL - 1 /\ pc[Father] = "read" /\ asleep[Father] = NoSem
      /\ Go(Father, "a fork") /\ WaitSem(Father, f) /\ mustSkip' = mustSkip
      /\ UNCHANGED <<seat, left, right>>
      /\ UNCHANGED <<eatingSemaphores, pids, started, tableSize, forSeat>>
  BY DEF AddWaits, Step, At, HasCpu, locals, seating
<1>3. /\ pc' \in [Everyone -> Unseated \cup Seated \cup Adding \cup {"read", "a post"}]
      /\ pc'[Father] = "a fork" /\ \A q \in Everyone : q # Father => pc'[q] = pc[q]
  <2>1. "a fork" \in Adding
    BY DEF Adding
  <2> QED
    BY <1>1, <1>2, <2>1 DEF Go
<1>4. \A q \in Philosopher : pc'[q] = pc[q]
  BY <1>3, Everybody
<1>5. f \in Fork /\ f \in Sem /\ f # NoSem /\ sem[f].open
  BY StopFork, Everybody
<1>6. /\ KernelTypes
      /\ asleep'[Father] = NoSem \/ asleep'[Father] = f
  BY <1>1, <1>2, <1>5, Waits DEF KernelTypes
<1>7. /\ keys' \in Seq({"a", "r", "q"}) /\ 1 \in DOMAIN keys /\ keys[1] = "a"
      /\ \A i \in DOMAIN keys' : i + 1 \in DOMAIN keys /\ i + 1 # 1 /\ keys'[i] = keys[i + 1]
  BY <1>1, <1>2, KeysLeft DEF TypeOK
<1>8. /\ More(tableSize) /\ started \in Nat /\ started = tableSize
      /\ started < MaxStarted /\ started + 1 < MAX_PHIL /\ pc[started] \in Seated
  <2>1. tableSize + 1 < MAX_PHIL
    <3>1. tableSize < MAX_PHIL - 1
      BY <1>2
    <3> QED
      BY <3>1, SizesKnown
  <2>2. More(tableSize)
    BY <1>7, <2>1 DEF More
  <2>3. started = tableSize
    BY <1>2 DEF TableInv, TableOK
  <2>4. started < MaxStarted /\ pc[started] \in Seated
    BY <1>2, <2>2 DEF TableInv, GrowthOK
  <2> QED
    BY <2>1, <2>2, <2>3, <2>4, SizesKnown
<1>9. started \in Philosopher
  BY SizesKnown, Everybody DEF Philosopher
<1>10. TypeOK'
  <2>1. \A q \in Philosopher : pc'[q] \in Unseated \cup Seated
    BY <1>4 DEF TableInv, TypeOK
  <2>2. pc'[Father] \in Adding \cup {"read", "a post"}
    BY <1>3 DEF Adding
  <2> QED
    BY <1>1, <1>2, <1>3, <1>6, <1>7, <2>1, <2>2 DEF TableInv, TypeOK, KernelTypes
<1>11. TableOK'
  <2>1. \A s \in 1 .. started + 1 : sem'[s].open
    <3>1. \A s \in 1 .. started + 1 : s \in Sem
      BY SizesKnown, Everybody DEF Sem, SemForSeat
    <3> QED
      BY <1>6, <3>1 DEF KernelTypes, TableInv, TableOK
  <2> QED
    BY <1>2, <1>3, <1>4, <1>8, <2>1 DEF TableInv, TableOK
<1>12. SeatsOK'
  BY <1>2, <1>3, <1>4, <1>9 DEF TableInv, SeatsOK
<1>13. GrowthOK'
  <2>1. \A i \in DOMAIN keys' : keys'[i] # "r"
    BY <1>7 DEF TableInv, GrowthOK
  <2>2. ~More(tableSize + 1)'
    <3>1. CASE tableSize + 2 >= MAX_PHIL
      <4>1. ~(tableSize' + 1 + 1 < MAX_PHIL)
        <5>1. tableSize' = tableSize
          BY <1>2
        <5> QED
          BY <3>1, <5>1, SizesKnown
      <4> QED
        BY <4>1 DEF More
    <3>2. CASE \A i, j \in DOMAIN keys : keys[i] = "a" /\ keys[j] = "a" => i = j
      <4>1. \A i \in DOMAIN keys' : keys'[i] # "a"
        BY <1>7, <3>2
      <4> QED
        BY <4>1 DEF More
    <3> QED
      BY <1>2, <3>1, <3>2 DEF TableInv, GrowthOK
  <2>3. pc'[started] \in Seated
    BY <1>4, <1>8, <1>9
  <2> QED
    BY <1>2, <1>3, <1>8, <2>1, <2>2, <2>3 DEF GrowthOK
<1>14. ForksOK'
  BY <1>2, <1>4, <1>8 DEF TableInv, ForksOK
<1>15. Others(Father)
  BY <1>2, <1>3 DEF Others
<1>16. FatherStop' = f
  BY <1>2, <1>3 DEF FatherStop, SemToStop
<1>17. SleepsAt(Father)'
  BY <1>3, <1>6, <1>16 DEF SleepsAt
<1>18. \A g \in Fork :
           Holds(Father, g)' <=> Holds(Father, g) \/ (g = f /\ asleep'[Father] = NoSem)
  <2>1. ~FatherHas /\ (FatherHas' <=> asleep'[Father] = NoSem)
    BY <1>2, <1>3 DEF FatherHas, Adding, Father
  <2> QED
    BY <1>16, <2>1 DEF Holds
<1> HIDE DEF f
<1>19. SleepOK' /\ QueuesOK' /\ TokensOK'
  BY <1>1, <1>2, <1>5, <1>15, <1>17, <1>18, AfterWait
<1> QED
  BY <1>10, <1>11, <1>12, <1>13, <1>14, <1>19 DEF TableInv

\* A new fork, and its semaphore.
LEMMA AddForkStep ==
    ASSUME TableInv, AddFork, UNCHANGED father
    PROVE  TableInv'
<1> DEFINE n == tableSize
<1>1. /\ pc \in [Everyone -> Unseated \cup Seated \cup Adding \cup {"read", "a post"}]
      /\ Father \in Everyone /\ MAX_PHIL \in Nat
      /\ sem \in [Sem -> [open : BOOLEAN, value : Nat, queue : Seq(Everyone)]]
      /\ eatingSemaphores \in [0 .. MAX_PHIL - 1 -> Nat]
  BY Everybody, SizesKnown DEF TableInv, TypeOK
<1>2. /\ pc[Father] = "a fork" /\ asleep[Father] = NoSem /\ Go(Father, "a start")
      /\ started' = started + 1
      /\ eatingSemaphores' = [eatingSemaphores EXCEPT ![n] = ForkId(started + 1)]
      /\ sem' = [sem EXCEPT ![ForkId(started + 1)].open = TRUE]
      /\ UNCHANGED <<asleep, seat, left, right, pids, tableSize, forSeat, mustSkip, keys>>
  BY DEF AddFork, Step, At, HasCpu, locals, flags, father
<1>3. /\ pc' \in [Everyone -> Unseated \cup Seated \cup Adding \cup {"read", "a post"}]
      /\ pc'[Father] = "a start" /\ \A q \in Everyone : q # Father => pc'[q] = pc[q]
  <2>1. "a start" \in Adding
    BY DEF Adding
  <2> QED
    BY <1>1, <1>2, <2>1 DEF Go
<1>4. \A q \in Philosopher : pc'[q] = pc[q]
  BY <1>3, Everybody
<1>5. /\ started < MaxStarted /\ started + 1 < MAX_PHIL /\ pc[started] \in Seated
      /\ \A i \in DOMAIN keys : keys[i] # "r"
      /\ ~More(n + 1)
  BY <1>2 DEF TableInv, GrowthOK, Adding
<1>6. started = n
  BY <1>2 DEF TableInv, TableOK
<1>7. /\ started \in Nat /\ started >= 2 /\ MaxStarted \in Nat /\ MAX_PHIL \in Nat
      /\ started < MaxStarted /\ started + 1 < MAX_PHIL
      /\ n = started /\ tableSize' = started /\ started' = started + 1
  <2>1. n \in Nat /\ n >= 2 /\ MaxStarted \in Nat /\ MAX_PHIL \in Nat
    BY SizesKnown, Everybody
  <2>2. started < MaxStarted /\ started + 1 < MAX_PHIL
    BY <1>5
  <2>3. tableSize' = n /\ started' = started + 1
    BY <1>2
  <2> QED
    BY <1>6, <2>1, <2>2, <2>3
<1> HIDE DEF n
<1>8. ForkId(started + 1) = started + 2 /\ started + 2 \in Nat /\ started + 2 \in Sem
  BY <1>7 DEF ForkId, Sem, SemForSeat
<1>9. started \in Philosopher /\ started + 1 \in Philosopher
  BY <1>7 DEF Philosopher
<1>10. /\ eatingSemaphores' \in [0 .. MAX_PHIL - 1 -> Nat]
       /\ eatingSemaphores'[started] = started + 2
       /\ \A i \in 0 .. started - 1 : eatingSemaphores'[i] = eatingSemaphores[i]
  <2>1. n = started /\ started \in 0 .. MAX_PHIL - 1
    BY <1>7
  <2>2. \A i \in 0 .. started - 1 : i \in 0 .. MAX_PHIL - 1 /\ i # started
    BY <1>7
  <2> QED
    BY <1>1, <1>2, <1>8, <2>1, <2>2
<1>11. /\ sem' \in [Sem -> [open : BOOLEAN, value : Nat, queue : Seq(Everyone)]]
       /\ \A s \in Sem : sem'[s].value = sem[s].value /\ sem'[s].queue = sem[s].queue
       /\ \A s \in Sem : sem[s].open \/ s = started + 2 => sem'[s].open
  <2>1. sem' = [sem EXCEPT ![started + 2].open = TRUE]
    BY <1>2, <1>8
  <2>2. PICK f \in Sem : f = started + 2
    BY <1>8
  <2>3. sem' = [sem EXCEPT ![f].open = TRUE]
    BY <2>1, <2>2
  <2>4. sem' \in [Sem -> [open : BOOLEAN, value : Nat, queue : Seq(Everyone)]]
    BY <1>1, <2>3
  <2>5. \A s \in Sem : sem'[s].value = sem[s].value /\ sem'[s].queue = sem[s].queue
    BY <1>1, <2>3
  <2>6. sem'[f].open /\ \A s \in Sem : s # f => sem'[s].open = sem[s].open
    BY <1>1, <2>3
  <2> QED
    BY <2>2, <2>4, <2>5, <2>6
<1>12. TypeOK'
  <2>1. \A q \in Philosopher : pc'[q] \in Unseated \cup Seated
    BY <1>4 DEF TableInv, TypeOK
  <2>2. pc'[Father] \in Adding \cup {"read", "a post"} /\ started' \in Nat
    <3>1. started' \in Nat
      BY <1>7
    <3> QED
      BY <1>3, <3>1 DEF Adding
  <2> QED
    BY <1>2, <1>3, <1>10, <1>11, <2>1, <2>2 DEF TableInv, TypeOK
<1>13. TableOK'
  <2>1. started' = tableSize' + 1 /\ tableSize' >= 2 /\ started' <= MaxStarted
        /\ started' < MAX_PHIL
    BY <1>7
  <2>2. \A i \in 0 .. started' - 1 : eatingSemaphores'[i] = ForkId(i + 1)
    <3>1. \A i \in 0 .. started - 1 : eatingSemaphores'[i] = i + 2
      BY <1>10, ForksOfSeats
    <3>2. \A i \in 0 .. started' - 1 : eatingSemaphores'[i] = i + 2 /\ i \in Int
      <4> TAKE i \in 0 .. started' - 1
      <4>1. i \in 0 .. started - 1 \/ i = started
        BY <1>7
      <4> QED
        BY <1>7, <1>10, <3>1, <4>1
    <3>3. \A i \in Int : ForkId(i + 1) = i + 2
      BY DEF ForkId
    <3> QED
      BY <3>2, <3>3
  <2>3. \A s \in 1 .. started' + 1 : sem'[s].open
    <3> TAKE s \in 1 .. started' + 1
    <3>1. s \in Sem /\ (s \in 1 .. started + 1 \/ s = started + 2)
      BY <1>7 DEF Sem, SemForSeat
    <3>2. s \in 1 .. started + 1 => sem[s].open
      BY DEF TableInv, TableOK
    <3> QED
      BY <1>11, <3>1, <3>2
  <2>4. /\ \A i \in 0 .. tableSize' - 1 : pids'[i] \in Philosopher
        /\ \A p \in Philosopher : pc'[p] # "none" =>
               \E i \in 0 .. tableSize' - 1 : pids'[i] = p
    BY <1>2, <1>4 DEF TableInv, TableOK
  <2>5. pc'[Father] # "a grow" /\ pc'[Father] # "a post" /\ pc'[Father] \in {"a start", "a grow"}
    BY <1>3
  <2> QED
    BY <2>1, <2>2, <2>3, <2>4, <2>5 DEF TableOK
<1>14. SeatsOK'
  <2>1. \A p \in Philosopher : p < started' => pc'[p] \in Seated
    <3> TAKE p \in Philosopher
    <3>1. p < started' => p < started \/ p = started
      BY <1>7 DEF Philosopher
    <3> QED
      BY <1>4, <1>5, <3>1 DEF TableInv, SeatsOK
  <2>2. \A p \in Philosopher : p >= started' => pc'[p] = "none"
    <3> TAKE p \in Philosopher
    <3>1. p >= started' => p > started
      BY <1>7 DEF Philosopher
    <3> QED
      BY <1>4, <3>1 DEF TableInv, SeatsOK
  <2>3. pc'[started'] = "none" /\ "none" \in Unseated
    <3>1. started' \in Philosopher /\ started' >= started'
      BY <1>7, <1>9
    <3> QED
      BY <2>2, <3>1 DEF Unseated
  <2>4. forSeat' = started' - 1
    <3>1. forSeat = started
      BY <1>5 DEF TableInv, SeatsOK, Unseated, Seated, Known
    <3>2. forSeat' = forSeat
      BY <1>2
    <3> QED
      BY <1>7, <3>1, <3>2
  <2>5. \A p \in Philosopher : p > started' => p >= started'
    BY <1>7 DEF Philosopher
  <2>6. /\ \A p \in Philosopher : pc'[p] \in Seated => seat'[p] < forSeat'
        /\ \A p, q \in Philosopher :
               pc'[p] \in Seated /\ pc'[q] \in Seated /\ seat'[p] = seat'[q] => p = q
    BY <1>2, <1>4 DEF TableInv, SeatsOK
  <2> QED
    BY <1>3, <2>1, <2>2, <2>3, <2>4, <2>5, <2>6 DEF SeatsOK
<1>15. GrowthOK'
  <2>1. ~More(tableSize + 1)'
    BY <1>2, <1>5 DEF More, n
  <2> QED
    BY <1>2, <1>3, <1>5, <2>1 DEF GrowthOK
<1>16. ForksOK'
  BY <1>2, <1>4 DEF TableInv, ForksOK, Adding
<1>17. Others(Father)
  BY <1>2, <1>3 DEF Others
<1>18. FatherStop' = FatherStop
  <2>1. 0 \in 0 .. started - 1 /\ n - 1 \in 0 .. started - 1
    BY <1>7
  <2>2. SemToStop(tableSize)' = SemToStop(tableSize)
    BY <1>2, <1>10, <2>1 DEF SemToStop, n
  <2> QED
    BY <1>2, <1>3, <2>2 DEF FatherStop
<1>19. SleepsAt(Father)' /\ \A g \in Fork : Holds(Father, g)' <=> Holds(Father, g)
  <2>1. FatherHas /\ FatherHas'
    BY <1>2, <1>3 DEF FatherHas, Adding
  <2> QED
    BY <1>2, <1>18, <2>1 DEF SleepsAt, Holds
<1>20. SleepOK' /\ QueuesOK' /\ TokensOK'
  BY <1>1, <1>2, <1>11, <1>17, <1>19, AfterNothing
<1> QED
  BY <1>12, <1>13, <1>14, <1>15, <1>16, <1>20 DEF TableInv

\* The new seat: whoever had the last one keeps the first fork until he looks again.
LEMMA AddSeatStep ==
    ASSUME TableInv, AddSeat, UNCHANGED father
    PROVE  TableInv'
<1> DEFINE n == tableSize
<1>1. /\ pc \in [Everyone -> Unseated \cup Seated \cup Adding \cup {"read", "a post"}]
      /\ Father \in Everyone
  BY Everybody DEF TableInv, TypeOK
<1>2. /\ pc[Father] = "a grow" /\ asleep[Father] = NoSem /\ Go(Father, "a post")
      /\ tableSize' = n + 1
      /\ UNCHANGED <<sem, asleep, seat, left, right, eatingSemaphores, pids, started,
                     forSeat, mustSkip, keys>>
  BY DEF AddSeat, Step, At, HasCpu, kernel, locals, flags, father
<1>3. /\ pc' \in [Everyone -> Unseated \cup Seated \cup Adding \cup {"read", "a post"}]
      /\ pc'[Father] = "a post" /\ \A q \in Everyone : q # Father => pc'[q] = pc[q]
  BY <1>1, <1>2 DEF Go
<1>4. \A q \in Philosopher : pc'[q] = pc[q]
  BY <1>3, Everybody
<1>5. ~More(n + 1) /\ \A i \in DOMAIN keys : keys[i] # "r"
  BY <1>2 DEF TableInv, GrowthOK, Adding
<1>6. started = n + 1 /\ pids[n] = started
  BY <1>2 DEF TableInv, TableOK
<1>7. n \in Nat /\ n >= 2 /\ started \in Nat /\ started \in Philosopher
  BY SizesKnown, Everybody DEF Philosopher
<1>8. /\ tableSize' = n + 1 /\ started = n + 1
      /\ tableSize' \in Nat /\ tableSize' > 2 /\ tableSize' - 1 = n
  <2>1. tableSize' = n + 1
    BY <1>2
  <2> QED
    BY <1>6, <1>7, <2>1
<1>9. ~More(tableSize)'
  BY <1>2, <1>5 DEF More
<1> HIDE DEF n
<1>10. TypeOK'
  <2>1. \A q \in Philosopher : pc'[q] \in Unseated \cup Seated
    BY <1>4 DEF TableInv, TypeOK
  <2> QED
    BY <1>2, <1>3, <1>8, <2>1 DEF TableInv, TypeOK
<1>11. TableOK'
  <2>1. \A i \in 0 .. tableSize' - 1 : pids'[i] \in Philosopher
    <3> TAKE i \in 0 .. tableSize' - 1
    <3>1. i \in 0 .. n - 1 \/ i = n
      BY <1>7, <1>8
    <3>2. i \in 0 .. n - 1 => pids[i] \in Philosopher
      BY DEF TableInv, TableOK, n
    <3> QED
      BY <1>2, <1>6, <1>7, <3>1, <3>2
  <2>2. \A p \in Philosopher : pc'[p] # "none" => \E i \in 0 .. tableSize' - 1 : pids'[i] = p
    <3> TAKE p \in Philosopher
    <3>1. pc'[p] # "none" => p = started \/ \E i \in 0 .. n - 1 : pids[i] = p
      BY <1>4 DEF TableInv, TableOK, n
    <3>2. n \in 0 .. tableSize' - 1 /\ \A i \in 0 .. n - 1 : i \in 0 .. tableSize' - 1
      BY <1>7, <1>8
    <3> QED
      BY <1>2, <1>6, <3>1, <3>2
  <2>3. started' = tableSize' /\ tableSize' >= 2
    <3>1. started' = started
      BY <1>2
    <3> QED
      BY <1>8, <3>1
  <2>4. pc'[Father] \notin {"a start", "a grow"}
    BY <1>3
  <2> QED
    BY <1>2, <1>8, <2>1, <2>2, <2>3, <2>4 DEF TableInv, TableOK
<1>12. SeatsOK'
  BY <1>2, <1>3, <1>4, <1>7 DEF TableInv, SeatsOK
<1>13. GrowthOK'
  BY <1>2, <1>3, <1>5, <1>9 DEF GrowthOK, Adding
<1>14. ForksOK'
  <2> SUFFICES ASSUME NEW p \in Philosopher, pc'[p] \in Known
               PROVE  /\ left'[p] = seat'[p] + 2
                      /\ \/ right'[p] = seat'[p] + 3 /\ seat'[p] + 1 < tableSize'
                         \/ right'[p] = 2 /\ seat'[p] + 2 = tableSize'
    BY <1>3, <1>8, <1>9 DEF ForksOK, Adding
  <2>1. /\ left[p] = seat[p] + 2
        /\ \/ right[p] = seat[p] + 3 /\ seat[p] + 1 < n
           \/ right[p] = 2 /\ seat[p] + 1 = n
    BY <1>2, <1>4 DEF TableInv, ForksOK, Adding, n
  <2>2. seat[p] \in Nat
    BY DEF TableInv, TypeOK
  <2>3. /\ seat[p] + 1 < n => seat[p] + 1 < tableSize'
        /\ seat[p] + 1 = n => seat[p] + 2 = tableSize'
    BY <1>7, <1>8, <2>2
  <2> QED
    BY <1>2, <2>1, <2>3
<1>15. Others(Father)
  BY <1>2, <1>3 DEF Others
<1>16. FatherStop' = FatherStop
  BY <1>2, <1>3, <1>8 DEF FatherStop, SemToStop, n
<1>17. SleepsAt(Father)' /\ \A g \in Fork : Holds(Father, g)' <=> Holds(Father, g)
  <2>1. FatherHas /\ FatherHas'
    BY <1>2, <1>3 DEF FatherHas, Adding
  <2> QED
    BY <1>2, <1>16, <2>1 DEF SleepsAt, Holds
<1>18. SleepOK' /\ QueuesOK' /\ TokensOK'
  BY <1>1, <1>2, <1>15, <1>17, AfterNothing
<1> QED
  BY <1>10, <1>11, <1>12, <1>13, <1>14, <1>18 DEF TableInv

\* The new philosopher, who has no seat yet.
LEMMA AddPhilosopherStep ==
    ASSUME TableInv, AddPhilosopher, UNCHANGED father
    PROVE  TableInv'
<1> DEFINE n == tableSize
           z == started
<1>1. /\ pc \in [Everyone -> Unseated \cup Seated \cup Adding \cup {"read", "a post"}]
      /\ Father \in Everyone /\ \A p \in Philosopher : p \in Everyone /\ p # Father
      /\ pids \in [0 .. MAX_PHIL - 1 -> Everyone]
  BY Everybody DEF TableInv, TypeOK
<1>2. /\ pc[Father] = "a start" /\ asleep[Father] = NoSem
      /\ pids' = [pids EXCEPT ![n] = z]
      /\ pc' = [pc EXCEPT ![Father] = "a grow", ![z] = "sit"]
      /\ UNCHANGED <<sem, asleep, seat, left, right, eatingSemaphores, started, tableSize,
                     forSeat, mustSkip, keys>>
  BY DEF AddPhilosopher, At, HasCpu, kernel, locals, flags, father
<1>3. n \in Nat /\ n >= 2 /\ z \in Nat /\ z = n + 1 /\ z < MAX_PHIL /\ MAX_PHIL \in Nat
  <2>1. z = n + 1
    BY <1>2 DEF TableInv, TableOK
  <2> QED
    BY <2>1, SizesKnown
<1>4. z \in Philosopher /\ z \in Everyone /\ z # Father
  BY SizesKnown, Everybody DEF Philosopher
<1> HIDE DEF n, z
<1>5. /\ pc'[Father] = "a grow" /\ pc'[z] = "sit"
      /\ \A q \in Everyone : q # Father /\ q # z => pc'[q] = pc[q]
      /\ pc' \in [Everyone -> Unseated \cup Seated \cup Adding \cup {"read", "a post"}]
  <2>1. "a grow" \in Adding /\ "sit" \in Unseated
    BY DEF Adding, Unseated
  <2> QED
    BY <1>1, <1>2, <1>4, <2>1
<1>6. pc[z] = "none" /\ \A q \in Philosopher : q # z => pc'[q] = pc[q]
  <2>1. pc[z] = "none"
    BY <1>2 DEF TableInv, SeatsOK, z
  <2> QED
    BY <1>1, <1>5, <2>1
<1>7. /\ \A w \in {"none", "sit"} : w \in Unseated /\ w \notin Seated /\ w \notin Known
      /\ "sit" # "none"
  BY DEF Seated, Known, Unseated
<1>8. /\ pids' \in [0 .. MAX_PHIL - 1 -> Everyone] /\ pids'[n] = z
      /\ \A i \in 0 .. n - 1 : pids'[i] = pids[i]
  <2>1. n \in 0 .. MAX_PHIL - 1 /\ \A i \in 0 .. n - 1 : i \in 0 .. MAX_PHIL - 1 /\ i # n
    BY <1>3
  <2> QED
    BY <1>1, <1>2, <1>4, <2>1
<1>9. TypeOK'
  <2>1. \A q \in Philosopher : pc'[q] \in Unseated \cup Seated
    BY <1>5, <1>6, <1>7 DEF TableInv, TypeOK
  <2>2. pc'[Father] \in Adding \cup {"read", "a post"}
    BY <1>5 DEF Adding
  <2> QED
    BY <1>2, <1>5, <1>8, <2>1, <2>2 DEF TableInv, TypeOK
<1>10. TableOK'
  <2>1. \A p \in Philosopher : pc'[p] # "none" =>
            p = z \/ \E i \in 0 .. n - 1 : pids'[i] = p
    <3> TAKE p \in Philosopher
    <3>1. p # z /\ pc'[p] # "none" => \E i \in 0 .. n - 1 : pids[i] = p
      BY <1>2, <1>6 DEF TableInv, TableOK, n
    <3> QED
      BY <1>8, <3>1
  <2>2. \A i \in 0 .. n - 1 : pids'[i] \in Philosopher
    BY <1>8 DEF TableInv, TableOK, n
  <2>3. tableSize' = n /\ started' = z /\ z = n + 1 /\ tableSize = n /\ started = z
    BY <1>2, <1>3 DEF n, z
  <2>4. /\ tableSize' >= 2 /\ started' <= MaxStarted /\ started' < MAX_PHIL
        /\ started' = tableSize' + 1
    BY <2>3 DEF TableInv, TableOK
  <2>5. /\ \A i \in 0 .. started' - 1 : eatingSemaphores'[i] = ForkId(i + 1)
        /\ \A s \in 1 .. started' + 1 : sem'[s].open
    BY <1>2 DEF TableInv, TableOK
  <2>6. /\ \A i \in 0 .. tableSize' - 1 : pids'[i] \in Philosopher
        /\ \A p \in Philosopher : pc'[p] # "none" =>
               p = started' \/ \E i \in 0 .. tableSize' - 1 : pids'[i] = p
        /\ pids'[tableSize'] = started'
    BY <1>8, <2>1, <2>2, <2>3
  <2>7. pc'[Father] = "a grow"
    BY <1>5
  <2> QED
    BY <2>4, <2>5, <2>6, <2>7 DEF TableOK
<1>11. \A q \in Philosopher : /\ pc'[q] \in Seated <=> pc[q] \in Seated
                              /\ pc'[q] \in Known <=> pc[q] \in Known
  BY <1>5, <1>6, <1>7
<1>12. SeatsOK'
  <2>1. \A q \in Philosopher : q > z => pc'[q] = "none"
    <3>1. ~(z > z)
      BY <1>3
    <3> QED
      BY <1>6, <3>1 DEF TableInv, SeatsOK, z
  <2>2. /\ \A q \in Philosopher : q < z => pc'[q] \in Seated
        /\ forSeat = z - 1
    BY <1>6, <1>7, <1>11 DEF TableInv, SeatsOK, z
  <2>3. /\ \A p \in Philosopher : pc'[p] \in Seated => seat[p] < forSeat
        /\ \A p, q \in Philosopher :
               pc'[p] \in Seated /\ pc'[q] \in Seated /\ seat[p] = seat[q] => p = q
    BY <1>11 DEF TableInv, SeatsOK
  <2>4. started' = z /\ forSeat' = forSeat /\ seat' = seat
    BY <1>2 DEF z
  <2>5. pc'[Father] = "a grow" /\ pc'[z] = "sit" /\ pc'[z] \in Unseated
    BY <1>5, <1>7
  <2> QED
    BY <2>1, <2>2, <2>3, <2>4, <2>5 DEF SeatsOK
<1>13. GrowthOK'
  <2>1. ~More(tableSize + 1) /\ \A i \in DOMAIN keys : keys[i] # "r"
    BY <1>2 DEF TableInv, GrowthOK, Adding
  <2>2. ~More(tableSize + 1)'
    BY <1>2, <2>1 DEF More
  <2> QED
    BY <1>2, <1>5, <2>1, <2>2 DEF GrowthOK
<1>14. ForksOK'
  BY <1>2, <1>11 DEF TableInv, ForksOK, Adding
<1>15. ASSUME NEW q \in Everyone
       PROVE  SleepsAt(q)' /\ \A g \in Fork : Holds(q, g)' <=> Holds(q, g)
  <2>1. SleepsAt(q) /\ asleep'[q] = asleep[q]
    BY <1>2 DEF TableInv, SleepOK
  <2>2. FatherStop' = FatherStop
    BY <1>2, <1>5 DEF FatherStop, SemToStop
  <2>3. CASE q = z
    <3>1. asleep'[q] = NoSem
      BY <1>4, <1>6, <2>1, <2>3 DEF SleepsAt
    <3>2. ~HasFirst(q) /\ ~HasSecond(q) /\ ~HasFirst(q)' /\ ~HasSecond(q)'
      BY <1>5, <1>6, <2>3 DEF HasFirst, HasSecond
    <3> QED
      BY <1>4, <2>3, <3>1, <3>2 DEF SleepsAt, Holds
  <2>4. CASE q = Father
    <3>1. FatherHas /\ FatherHas' /\ asleep'[q] = NoSem
      BY <1>2, <1>5, <2>4 DEF FatherHas, Adding
    <3> QED
      BY <2>2, <2>4, <3>1 DEF SleepsAt, Holds
  <2>5. CASE q # z /\ q # Father
    <3>1. pc'[q] = pc[q]
      BY <1>5, <2>5
    <3>2. First(q)' = First(q) /\ Second(q)' = Second(q)
      BY <1>2 DEF First, Second, Even
    <3> QED
      BY <2>1, <2>5, <3>1, <3>2, NotOne
  <2> QED
    BY <2>3, <2>4, <2>5
<1>16. SleepOK'
  BY <1>15 DEF SleepOK
<1>17. QueuesOK'
  BY <1>2 DEF TableInv, QueuesOK
<1>18. TokensOK'
  <2>1. \A f \in Fork : sem'[f].value = sem[f].value
    BY <1>2
  <2>2. \A q \in Everyone, g \in Fork : Holds(q, g)' <=> Holds(q, g)
    BY <1>15
  <2> QED
    BY <2>1, <2>2, TokensStay DEF TableInv
<1> QED
  BY <1>9, <1>10, <1>12, <1>13, <1>14, <1>16, <1>17, <1>18 DEF TableInv

\* The father gives the fork back.
LEMMA AddEndsStep ==
    ASSUME TableInv, AddEnds, UNCHANGED father
    PROVE  TableInv'
<1> DEFINE f == SemToStop(tableSize - 1)
<1>1. /\ pc \in [Everyone -> Unseated \cup Seated \cup Adding \cup {"read", "a post"}]
      /\ Father \in Everyone /\ TypeOK /\ QueuesOK
  BY Everybody DEF TableInv, TypeOK
<1>2. /\ pc[Father] = "a post" /\ asleep[Father] = NoSem /\ Go(Father, "read") /\ PostSem(f)
      /\ UNCHANGED <<seat, left, right, eatingSemaphores, pids, started, tableSize,
                     forSeat, mustSkip, keys>>
  BY DEF AddEnds, Step, At, HasCpu, locals, seating, father
<1>3. /\ pc' \in [Everyone -> Unseated \cup Seated \cup Adding \cup {"read", "a post"}]
      /\ pc'[Father] = "read" /\ \A q \in Everyone : q # Father => pc'[q] = pc[q]
  BY <1>1, <1>2 DEF Go
<1>4. \A q \in Philosopher : pc'[q] = pc[q]
  BY <1>3, Everybody
<1>5. tableSize > 2 /\ ~More(tableSize)
  BY <1>2 DEF TableInv, TableOK, GrowthOK
<1>6. f \in Fork /\ f \in Sem /\ sem[f].open
  BY <1>5, StopFork, Everybody
<1>7. f = FatherStop
  BY <1>2 DEF FatherStop
<1> HIDE DEF f
<1>8. KernelTypes
  BY <1>1, <1>2, <1>6, Posts DEF KernelTypes
<1>9. started \in Philosopher
  BY SizesKnown, Everybody DEF Philosopher
<1>10. TypeOK'
  <2>1. \A q \in Philosopher : pc'[q] \in Unseated \cup Seated
    BY <1>4 DEF TableInv, TypeOK
  <2> QED
    BY <1>2, <1>3, <1>8, <2>1 DEF TableInv, TypeOK, KernelTypes
<1>11. TableOK'
  <2>1. \A s \in 1 .. started + 1 : sem'[s].open
    <3>1. \A s \in 1 .. started + 1 : s \in Sem
      BY SizesKnown, Everybody DEF Sem, SemForSeat
    <3> QED
      BY <1>8, <3>1 DEF KernelTypes, TableInv, TableOK
  <2>2. started = tableSize
    BY <1>2 DEF TableInv, TableOK
  <2> QED
    BY <1>2, <1>3, <1>4, <2>1, <2>2 DEF TableInv, TableOK
<1>12. SeatsOK'
  BY <1>2, <1>3, <1>4, <1>9 DEF TableInv, SeatsOK
<1>13. GrowthOK'
  <2>1. ~More(tableSize)'
    BY <1>2, <1>5 DEF More
  <2>2. \A i \in DOMAIN keys' : keys'[i] # "r"
    BY <1>2 DEF TableInv, GrowthOK
  <2>3. \/ tableSize' + 2 >= MAX_PHIL
        \/ \A i, j \in DOMAIN keys' : keys'[i] = "a" /\ keys'[j] = "a" => i = j
    <3>1. CASE ~(tableSize + 1 < MAX_PHIL)
      <4>1. tableSize' = tableSize
        BY <1>2
      <4>2. tableSize + 2 >= MAX_PHIL
        BY <3>1, SizesKnown
      <4> QED
        BY <4>1, <4>2
    <3>2. CASE ~\E i \in DOMAIN keys : keys[i] = "a"
      BY <1>2, <3>2
    <3> QED
      BY <1>5, <3>1, <3>2 DEF More
  <2> QED
    BY <1>3, <2>1, <2>2, <2>3 DEF GrowthOK, Adding
<1>14. ForksOK'
  BY <1>2, <1>3, <1>4 DEF TableInv, ForksOK, Adding, More
<1>15. Others(Father)
  BY <1>2, <1>3 DEF Others
<1>16. FatherHas /\ ~FatherHas'
  BY <1>2, <1>3 DEF FatherHas, Adding
<1>17. Holds(Father, f) /\ \A g \in Fork : Holds(Father, g)' <=> Holds(Father, g) /\ g # f
  BY <1>7, <1>16 DEF Holds
<1>18. SleepOK' /\ QueuesOK' /\ TokensOK'
  BY <1>1, <1>2, <1>6, <1>15, <1>17, AfterPost
<1> QED
  BY <1>10, <1>11, <1>12, <1>13, <1>14, <1>18 DEF TableInv

\* While nobody has asked for the end, the father keeps the invariant.
LEMMA FatherKeeps ==
    ASSUME TableInv, Refused \/ AddWaits \/ RemoveWaits \/ FatherGoesOn
    PROVE  TableInv'
<1>1. pc[Father] \in Adding \cup {"read", "a post"}
  BY DEF TableInv, TypeOK
<1>2. ~RemoveWaits
  <2>1. ~Typed("r")
    BY KeysLeft DEF TableInv, TypeOK, GrowthOK
  <2> QED
    BY <2>1 DEF RemoveWaits
<1>3. ~RemoveCalls /\ ~RemoveSkips /\ ~RemoveSeat /\ ~RemoveEnds
  <2>1. ~RemoveCalls
    BY <1>1 DEF RemoveCalls, Step, At, Adding
  <2>2. ~RemoveSkips
    BY <1>1 DEF RemoveSkips, Step, At, Adding
  <2>3. ~RemoveSeat
    BY <1>1 DEF RemoveSeat, Step, At, Adding
  <2>4. ~RemoveEnds
    BY <1>1 DEF RemoveEnds, Step, At, Adding
  <2> QED
    BY <2>1, <2>2, <2>3, <2>4
<1>4. ~QuitCalls
  BY <1>1 DEF QuitCalls, Step, At, Adding
<1>5. FatherGoesOn => (AddFork \/ AddPhilosopher \/ AddSeat \/ AddEnds) /\ UNCHANGED father
  BY <1>3, <1>4 DEF FatherGoesOn
<1> QED
  BY <1>2, <1>5, RefusedStep, AddWaitsStep, AddForkStep, AddPhilosopherStep,
     AddSeatStep, AddEndsStep

\* The end of the program.
LEMMA QuitBegins ==
    ASSUME TableInv, Quit
    PROVE  QuitInv'
<1>1. /\ pc[Father] = "read" /\ Go(Father, "q post") /\ quitting' = 0
      /\ pids' = pids /\ tableSize' = tableSize
  BY DEF Quit, Step, At, seating
<1>2. /\ pc' = [pc EXCEPT ![Father] = "q post"] /\ DOMAIN pc = Everyone /\ Father \in Everyone
  BY <1>1, Everybody DEF Go, TableInv, TypeOK
<1>3. /\ pc'[Father] = "q post" /\ DOMAIN pc' = Everyone
      /\ \A p \in Philosopher : pc'[p] = pc[p]
  BY <1>2, Everybody
<1>4. /\ \A i \in 0 .. tableSize - 1 : pids[i] \in Philosopher
      /\ \A p \in Philosopher : pc[p] # "none" => \E i \in 0 .. tableSize - 1 : pids[i] = p
  BY <1>1 DEF TableInv, TableOK
<1>5. tableSize \in Nat /\ 0 <= tableSize /\ \A i \in 0 .. 0 - 1 : FALSE
  BY SizesKnown
<1> QED
  BY <1>1, <1>3, <1>4, <1>5 DEF QuitInv

LEMMA QuitGoesOn ==
    ASSUME QuitInv, QuitCalls
    PROVE  QuitInv'
<1>1. /\ quitting \in Nat /\ tableSize \in Nat /\ quitting <= tableSize
      /\ DOMAIN pc = Everyone /\ Father \in Everyone
      /\ \A p \in Philosopher : p \in Everyone /\ p # Father
      /\ \A i \in 0 .. quitting - 1 : pc[pids[i]] = "dead"
      /\ \A i \in 0 .. tableSize - 1 : pids[i] \in Philosopher
      /\ \A p \in Philosopher : pc[p] # "none" => \E i \in 0 .. tableSize - 1 : pids[i] = p
  BY Everybody DEF QuitInv
<1>2. pids' = pids /\ tableSize' = tableSize
  BY DEF QuitCalls, seating
<1>3. ASSUME NEW w, Go(Father, w)
      PROVE  /\ DOMAIN pc' = Everyone /\ pc'[Father] = w
             /\ \A p \in Philosopher : pc'[p] = pc[p]
  BY <1>1, <1>3 DEF Go
<1>4. /\ quitting \in Nat /\ tableSize \in Nat /\ quitting <= tableSize
      /\ \A i \in 0 .. quitting - 1 : i \in 0 .. tableSize - 1
  <2>1. quitting \in Nat /\ tableSize \in Nat /\ quitting <= tableSize
    BY <1>1
  <2> QED
    BY <2>1
<1>5. CASE \/ Step("q post", "q post again") /\ UNCHANGED quitting
           \/ Step("q post again", "q kill") /\ UNCHANGED quitting
  <2>1. PICK w \in {"q post again", "q kill"} : Go(Father, w)
    BY <1>5 DEF Step
  <2>2. quitting' = quitting
    BY <1>5
  <2>3. /\ DOMAIN pc' = Everyone /\ pc'[Father] = w /\ \A p \in Philosopher : pc'[p] = pc[p]
    BY <1>3, <2>1
  <2> QED
    BY <1>1, <1>2, <1>4, <2>1, <2>2, <2>3 DEF QuitInv
<1>6. CASE quitting < tableSize /\ Kill(pids[quitting], "q close") /\ UNCHANGED quitting
  <2>1. quitting \in 0 .. tableSize - 1
    <3>1. quitting < tableSize
      BY <1>6
    <3> QED
      BY <1>4, <3>1
  <2>2. PICK d \in Philosopher : d = pids[quitting]
    BY <1>1, <2>1
  <2>3. pc' = [pc EXCEPT ![Father] = "q close", ![d] = "dead"]
    BY <1>6, <2>2 DEF Kill
  <2>4. /\ DOMAIN pc' = Everyone /\ pc'[Father] = "q close" /\ pc'[d] = "dead"
        /\ \A p \in Philosopher : p # d => pc'[p] = pc[p]
    BY <1>1, <2>3
  <2>5. \A i \in 0 .. quitting - 1 : pc'[pids[i]] = "dead"
    BY <1>1, <1>4, <2>4
  <2>6. \A p \in Philosopher : pc'[p] # "none" => \E i \in 0 .. tableSize - 1 : pids[i] = p
    BY <1>1, <2>1, <2>2, <2>4
  <2> QED
    BY <1>1, <1>2, <1>6, <2>2, <2>4, <2>5, <2>6 DEF QuitInv
<1>7. CASE /\ quitting < tableSize /\ Step("q close", "q post")
           /\ quitting' = quitting + 1
  <2>1. /\ DOMAIN pc' = Everyone /\ pc'[Father] = "q post"
        /\ \A p \in Philosopher : pc'[p] = pc[p]
    BY <1>3, <1>7 DEF Step
  <2>2. pc[pids[quitting]] = "dead"
    BY <1>7 DEF Step, At, QuitInv
  <2>3. quitting < tableSize /\ quitting' = quitting + 1
    BY <1>7
  <2>4. quitting' \in Nat /\ quitting' <= tableSize
    BY <1>4, <2>3
  <2>5. \A i \in 0 .. quitting' - 1 : i \in 0 .. tableSize - 1 /\ pc[pids[i]] = "dead"
    <3> TAKE i \in 0 .. quitting' - 1
    <3>1. i \in 0 .. tableSize - 1 /\ (i \in 0 .. quitting - 1 \/ i = quitting)
      BY <1>4, <2>3
    <3> QED
      BY <1>1, <2>2, <3>1
  <2>6. /\ \A i \in 0 .. quitting' - 1 : pc'[pids'[i]] = "dead"
        /\ \A i \in 0 .. tableSize' - 1 : pids'[i] \in Philosopher
        /\ \A p \in Philosopher : pc'[p] # "none" => \E i \in 0 .. tableSize' - 1 : pids'[i] = p
    BY <1>1, <1>2, <2>1, <2>5
  <2>7. tableSize' \in Nat /\ quitting' <= tableSize'
    BY <1>2, <1>4, <2>4
  <2> QED
    BY <2>1, <2>4, <2>6, <2>7 DEF QuitInv
<1>8. CASE quitting = tableSize /\ UNCHANGED quitting /\ Step("q post", "ended")
  <2>1. /\ DOMAIN pc' = Everyone /\ pc'[Father] = "ended"
        /\ \A p \in Philosopher : pc'[p] = pc[p]
    BY <1>3, <1>8 DEF Step
  <2> QED
    BY <1>1, <1>2, <1>4, <1>8, <2>1 DEF QuitInv
<1> QED
  BY <1>5, <1>6, <1>7, <1>8 DEF QuitCalls

\* A philosopher who is still alive then goes on, and stays at the table.
LEMMA QuitEating ==
    ASSUME QuitInv, NEW p \in Philosopher, EatingPhylo(p)
    PROVE  QuitInv'
<1>1. /\ \E w \in Seated \cup {"take"} : Go(p, w)
      /\ pc[p] # "dead" /\ pc[p] # "none"
      /\ UNCHANGED <<pids, tableSize, quitting>>
  <2>1. UNCHANGED quitting
    BY DEF EatingPhylo, father
  <2>2. \/ WaitForSeat(p) \/ TakeSeat(p) \/ SeatTaken(p)
        \/ Look(p) \/ Announce(p) \/ WaitFirst(p) \/ Between(p) \/ WaitSecond(p)
        \/ HasBoth(p) \/ EatOrSkip(p) \/ PostFirst(p) \/ ClearFlag(p) \/ PostSecond(p)
    BY DEF EatingPhylo
  <2>3. UNCHANGED <<pids, tableSize>>
    BY <2>2 DEF WaitForSeat, TakeSeat, SeatTaken, Look, Announce, WaitFirst, Between,
                WaitSecond, HasBoth, EatOrSkip, PostFirst, ClearFlag, PostSecond, seating
  <2>4. \E v \in {"sit", "take", "taken", "look", "announce", "first", "between", "second",
                  "both", "check", "eat", "clear", "full"} : At(p, v)
    BY <2>2 DEF WaitForSeat, TakeSeat, SeatTaken, Look, Announce, WaitFirst, Between,
                WaitSecond, HasBoth, EatOrSkip, PostFirst, ClearFlag, PostSecond
  <2>5. \E w \in Seated \cup {"take"} : Go(p, w)
    <3>1. {"take", "taken", "look", "announce", "first", "between", "second", "both",
           "check", "eat", "clear", "full"} \subseteq Seated \cup {"take"}
      BY DEF Seated, Known
    <3>2. \E w \in {"take", "taken", "look", "announce", "first", "between", "second",
                    "both", "check", "eat", "clear", "full"} : Go(p, w)
      BY <2>2 DEF WaitForSeat, TakeSeat, SeatTaken, Look, Announce, WaitFirst, Between,
                  WaitSecond, HasBoth, EatOrSkip, PostFirst, ClearFlag, PostSecond
    <3> QED
      BY <3>1, <3>2
  <2>6. pc[p] # "dead" /\ pc[p] # "none"
    BY <2>4 DEF At
  <2> QED
    BY <2>1, <2>3, <2>5, <2>6
<1>2. /\ DOMAIN pc = Everyone /\ p \in Everyone /\ p # Father /\ Father \in Everyone
      /\ \A q \in Philosopher : q \in Everyone
  BY Everybody DEF QuitInv
<1>3. PICK w \in Seated \cup {"take"} : Go(p, w)
  BY <1>1
<1>4. /\ DOMAIN pc' = Everyone /\ \A q \in Everyone : q # p => pc'[q] = pc[q]
      /\ pc'[Father] = pc[Father]
  BY <1>2, <1>3 DEF Go
<1>5. \A q \in Philosopher : /\ pc'[q] # "none" => pc[q] # "none"
                             /\ pc[q] = "dead" => pc'[q] = "dead"
  BY <1>1, <1>2, <1>4
<1>6. /\ quitting \in Nat /\ tableSize \in Nat /\ quitting <= tableSize
      /\ \A i \in 0 .. quitting - 1 : i \in 0 .. tableSize - 1
      /\ quitting < tableSize => quitting \in 0 .. tableSize - 1
  <2>1. quitting \in Nat /\ tableSize \in Nat /\ quitting <= tableSize
    BY DEF QuitInv
  <2> QED
    BY <2>1
<1>7. /\ \A i \in 0 .. tableSize - 1 : pids[i] \in Philosopher
      /\ \A i \in 0 .. quitting - 1 : pc[pids[i]] = "dead"
      /\ \A q \in Philosopher : pc[q] # "none" => \E i \in 0 .. tableSize - 1 : pids[i] = q
      /\ \/ pc[Father] \in {"q post", "q post again", "q kill"}
         \/ pc[Father] = "q close" /\ quitting < tableSize /\ pc[pids[quitting]] = "dead"
         \/ pc[Father] = "ended" /\ quitting = tableSize
  BY DEF QuitInv
<1>8. \A i \in 0 .. tableSize - 1 : pc[pids[i]] = "dead" => pc'[pids[i]] = "dead"
  BY <1>5, <1>7
<1> QED
  BY <1>1, <1>4, <1>5, <1>6, <1>7, <1>8 DEF QuitInv

-----------------------------------------------------------------------------
(* The specification.                                                      *)

LEMMA InitInv ==
    ASSUME GrowsOnce, Init
    PROVE  TableInv
<1>1. PICK s \in Sessions :
          LET amount == s.amount
              AtTable == 0 .. amount - 1 IN
          /\ keys = s.keys
          /\ sem = [x \in Sem |-> [open |-> x <= ForkId(amount), value |-> 1, queue |-> <<>>]]
          /\ asleep = [p \in {Father} \cup Philosopher |-> NoSem]
          /\ pc = [p \in {Father} \cup Philosopher |->
                      IF p = Father THEN "read" ELSE IF p <= amount THEN "look" ELSE "none"]
          /\ seat = [p \in Philosopher |-> IF p <= amount THEN amount - p ELSE 0]
          /\ left = [p \in Philosopher |-> NoSem] /\ right = left
          /\ eatingSemaphores = [x \in 0 .. MAX_PHIL - 1 |->
                                    IF x \in AtTable THEN ForkId(x + 1) ELSE NoSem]
          /\ pids = [x \in 0 .. MAX_PHIL - 1 |-> IF x \in AtTable THEN amount - x ELSE Father]
          /\ started = amount /\ tableSize = amount /\ forSeat = amount
          /\ mustSkip = 0
  BY DEF Init
<1> DEFINE n == s.amount
<1>2. /\ n \in Nat /\ n >= 2 /\ n < MaxStarted /\ n < MAX_PHIL
      /\ MaxStarted \in Nat /\ MAX_PHIL \in Nat
  <2>1. n \in MIN_PHIL .. MAX_PHIL - 1 /\ n < MaxStarted
    BY PhyloAssumption DEF GrowsOnce
  <2>2. {MAX_PHIL, MIN_PHIL, MaxStarted} \subseteq Nat /\ 2 <= MIN_PHIL
    BY PhyloAssumption
  <2> HIDE DEF n
  <2> QED
    BY <2>1, <2>2
<1>3. /\ s.keys \in Seq({"a", "r", "q"})
      /\ \A i \in DOMAIN s.keys : s.keys[i] # "r"
      /\ \/ n + 2 >= MAX_PHIL
         \/ \A i, j \in DOMAIN s.keys : s.keys[i] = "a" /\ s.keys[j] = "a" => i = j
  BY PhyloAssumption DEF GrowsOnce
<1>4. /\ keys = s.keys /\ started = n /\ tableSize = n /\ forSeat = n /\ mustSkip = 0
      /\ sem = [x \in Sem |-> [open |-> x <= n + 1, value |-> 1, queue |-> <<>>]]
      /\ asleep = [p \in Everyone |-> NoSem]
      /\ pc = [p \in Everyone |->
                  IF p = Father THEN "read" ELSE IF p <= n THEN "look" ELSE "none"]
      /\ seat = [p \in Philosopher |-> IF p <= n THEN n - p ELSE 0]
      /\ left = [p \in Philosopher |-> NoSem] /\ right = left
  BY <1>1 DEF Everyone, ForkId
<1>5. /\ eatingSemaphores = [x \in 0 .. MAX_PHIL - 1 |->
                                IF x \in 0 .. n - 1 THEN x + 1 + 1 ELSE 0]
      /\ pids = [x \in 0 .. MAX_PHIL - 1 |-> IF x \in 0 .. n - 1 THEN n - x ELSE 0]
  BY <1>1 DEF ForkId, NoSem, Father
<1> HIDE DEF n
<1>6. /\ \A p \in Philosopher : p \in Everyone /\ p # Father /\ p \in Nat /\ p >= 1
      /\ Philosopher = 1 .. MaxStarted /\ Father \in Everyone
      /\ n \in Philosopher
  BY <1>2, Everybody DEF Philosopher
<1>7. pc[Father] = "read" /\ asleep[Father] = NoSem
  BY <1>4, <1>6
<1>8. \A p \in Philosopher : /\ asleep[p] = NoSem
                             /\ p <= n => pc[p] = "look" /\ seat[p] = n - p
                             /\ ~(p <= n) => pc[p] = "none" /\ seat[p] = 0
                             /\ left[p] = NoSem /\ right[p] = NoSem
  BY <1>4, <1>6
<1>9. \A i \in 0 .. n - 1 : /\ i \in Int /\ i \in 0 .. MAX_PHIL - 1 /\ n - i \in Philosopher
                            /\ eatingSemaphores[i] = i + 1 + 1 /\ pids[i] = n - i
  <2> TAKE i \in 0 .. n - 1
  <2>1. i \in Int /\ i \in 0 .. MAX_PHIL - 1 /\ n - i \in Philosopher
    BY <1>2, <1>6
  <2> QED
    BY <1>5, <2>1
<1>10. /\ "look" \in Seated /\ "look" \notin Unseated /\ "look" \notin Known
       /\ "none" \in Unseated /\ "none" \notin Seated /\ "none" \notin Known
  BY DEF Seated, Known, Unseated
<1>11. TypeOK
  <2>1. pc \in [Everyone -> Unseated \cup Seated \cup Adding \cup {"read", "a post"}]
    BY <1>4, <1>10
  <2>2. asleep \in [Everyone -> Sem \cup {NoSem}]
    BY <1>4
  <2>3. sem \in [Sem -> [open : BOOLEAN, value : Nat, queue : Seq(Everyone)]]
    <3>1. <<>> \in Seq(Everyone)
      OBVIOUS
    <3>2. \A x \in Sem : (x <= n + 1) \in BOOLEAN
      BY <1>2 DEF Sem, SemForSeat
    <3> QED
      BY <1>4, <3>1, <3>2
  <2>4. seat \in [Philosopher -> Nat]
    <3>1. \A p \in Philosopher : p <= n => n - p \in Nat
      BY <1>2, <1>6
    <3> QED
      BY <1>4, <3>1
  <2>5. left \in [Philosopher -> Nat] /\ right \in [Philosopher -> Nat]
    BY <1>4 DEF NoSem
  <2>6. eatingSemaphores \in [0 .. MAX_PHIL - 1 -> Nat]
    BY <1>2, <1>5
  <2>7. pids \in [0 .. MAX_PHIL - 1 -> Everyone]
    <3>1. 0 \in Everyone /\ \A x \in 0 .. n - 1 : n - x \in Everyone
      BY <1>6, <1>9, Everybody
    <3> QED
      BY <1>5, <3>1
  <2>8. \A p \in Philosopher : pc[p] \in Unseated \cup Seated
    BY <1>8, <1>10
  <2> QED
    BY <1>2, <1>3, <1>4, <1>7, <2>1, <2>2, <2>3, <2>4, <2>5, <2>6, <2>7, <2>8 DEF TypeOK
<1>12. TableOK
  <2>1. \A i \in 0 .. n - 1 : eatingSemaphores[i] = ForkId(i + 1) /\ pids[i] \in Philosopher
    BY <1>9 DEF ForkId
  <2>2. \A x \in 1 .. n + 1 : sem[x].open
    <3>1. \A x \in 1 .. n + 1 : x \in Sem /\ x <= n + 1
      BY <1>2 DEF Sem, SemForSeat
    <3> QED
      BY <1>4, <3>1
  <2>3. \A p \in Philosopher : pc[p] # "none" => \E i \in 0 .. n - 1 : pids[i] = p
    <3> SUFFICES ASSUME NEW p \in Philosopher, p <= n
                 PROVE  \E i \in 0 .. n - 1 : pids[i] = p
      BY <1>8
    <3>1. n - p \in 0 .. n - 1 /\ n - (n - p) = p
      BY <1>2, <1>6
    <3> QED
      BY <1>9, <3>1
  <2>4. n <= MaxStarted
    BY <1>2
  <2> QED
    BY <1>2, <1>4, <1>7, <2>1, <2>2, <2>3, <2>4 DEF TableOK
<1>13. SeatsOK
  <2>1. n <= n /\ pc[n] = "look"
    BY <1>2, <1>6, <1>8
  <2>2. \A p \in Philosopher : /\ p < n => p <= n
                               /\ p > n => ~(p <= n)
                               /\ p <= n => n - p < n
    BY <1>2, <1>6
  <2>3. \A p, q \in Philosopher : n - p = n - q => p = q
    BY <1>2, <1>6
  <2>4. \A p \in Philosopher : pc[p] \in Seated => p <= n
    BY <1>8, <1>10
  <2>5. \A p, q \in Philosopher :
            pc[p] \in Seated /\ pc[q] \in Seated /\ seat[p] = seat[q] => p = q
    BY <1>8, <2>3, <2>4
  <2>6. \A p \in Philosopher : pc[p] \in Seated => seat[p] < n
    BY <1>8, <2>2, <2>4
  <2>7. \A p \in Philosopher : /\ p < n => pc[p] \in Seated
                               /\ p > n => pc[p] = "none"
    BY <1>8, <1>10, <2>2
  <2>8. started = n /\ forSeat = n /\ pc[n] \notin Unseated
    BY <1>4, <1>10, <2>1
  <2> QED
    BY <1>7, <2>5, <2>6, <2>7, <2>8 DEF SeatsOK
<1>14. GrowthOK
  <2>1. pc[n] \in Seated
    <3>1. n <= n
      BY <1>2
    <3> QED
      BY <1>6, <1>8, <1>10, <3>1
  <2>2. n < MaxStarted
    BY <1>2
  <2> QED
    BY <1>3, <1>4, <1>7, <2>1, <2>2 DEF GrowthOK, Adding
<1>15. ForksOK
  BY <1>8, <1>10 DEF ForksOK
<1>16. SleepOK
  BY <1>4 DEF SleepOK, SleepsAt
<1>17. QueuesOK
  <2>1. \A x \in Sem : sem[x].queue = <<>>
    BY <1>4
  <2> QED
    BY <2>1 DEF QueuesOK
<1>18. TokensOK
  <2>1. \A f \in Fork : sem[f].value = 1
    BY <1>4, Everybody
  <2>2. ~FatherHas
    BY <1>7 DEF FatherHas, Adding
  <2>3. \A p \in Philosopher : ~HasFirst(p) /\ ~HasSecond(p)
    BY <1>8 DEF HasFirst, HasSecond
  <2>4. \A p \in Everyone, f \in Fork : ~Holds(p, f)
    BY <2>2, <2>3, Everybody DEF Holds
  <2> QED
    BY <2>1, <2>4 DEF TokensOK
<1> QED
  BY <1>11, <1>12, <1>13, <1>14, <1>15, <1>16, <1>17, <1>18 DEF TableInv

\* The inductive invariant of the philosophers' table holds in every state.
THEOREM PhyloInvHolds ==
    ASSUME GrowsOnce
    PROVE  Spec => []PhyloInv
<1>1. Init => PhyloInv
  BY InitInv DEF PhyloInv
<1>2. ASSUME PhyloInv, [Next]_vars
      PROVE  PhyloInv'
  <2>1. CASE UNCHANGED vars
    <3>1. CASE TableInv
      <4>1. UNCHANGED <<sem, asleep, pc, seat, left, right, eatingSemaphores, pids, started,
                        tableSize, forSeat, keys, mustSkip>>
        BY <2>1 DEF vars, kernel, locals, seating, flags, father
      <4>2. TypeOK' /\ TableOK' /\ SeatsOK' /\ GrowthOK' /\ ForksOK'
        <5>1. TypeOK' /\ TableOK'
          BY <3>1, <4>1 DEF TableInv, TypeOK, TableOK
        <5>2. SeatsOK' /\ GrowthOK'
          BY <3>1, <4>1 DEF TableInv, SeatsOK, GrowthOK, More
        <5>3. ForksOK'
          BY <3>1, <4>1 DEF TableInv, ForksOK, More
        <5> QED
          BY <5>1, <5>2, <5>3
      <4>3. Others(Father) /\ SleepsAt(Father)' /\ Father \in Everyone
        BY <3>1, <4>1, Everybody
        DEF TableInv, SleepOK, SleepsAt, Others, FatherStop, SemToStop
      <4>4. \A g \in Fork : Holds(Father, g)' <=> Holds(Father, g)
        BY <4>1 DEF Holds, FatherHas, FatherStop, SemToStop
      <4>5. SleepOK' /\ QueuesOK' /\ TokensOK'
        BY <3>1, <4>1, <4>3, <4>4, AfterNothing
      <4> QED
        BY <4>2, <4>5 DEF TableInv, PhyloInv
    <3>2. CASE QuitInv
      BY <2>1, <3>2 DEF vars, seating, father, QuitInv, PhyloInv
    <3> QED
      BY <1>2, <3>1, <3>2 DEF PhyloInv
  <2>2. CASE Next /\ TableInv
    <3>1. CASE Refused \/ AddWaits \/ RemoveWaits \/ FatherGoesOn
      BY <2>2, <3>1, FatherKeeps DEF PhyloInv
    <3>2. CASE Quit
      BY <2>2, <3>2, QuitBegins DEF PhyloInv
    <3>3. CASE \E p \in Philosopher : EatingPhylo(p)
      BY <2>2, <3>3, EatingPhyloKeeps DEF PhyloInv
    <3> QED
      BY <2>2, <3>1, <3>2, <3>3 DEF Next
  <2>3. CASE Next /\ QuitInv
    <3>1. pc[Father] \in {"q post", "q post again", "q kill", "q close", "ended"}
      BY <2>3 DEF QuitInv
    <3>2. ~Refused /\ ~AddWaits /\ ~RemoveWaits /\ ~Quit
      BY <3>1 DEF Refused, AddWaits, RemoveWaits, Quit, Step, At
    <3>3. ~AddFork /\ ~AddPhilosopher /\ ~AddSeat /\ ~AddEnds
      BY <3>1 DEF AddFork, AddPhilosopher, AddSeat, AddEnds, Step, At
    <3>4. ~RemoveCalls
      BY <3>1 DEF RemoveCalls, Step, At
    <3>5. ~RemoveSkips /\ ~RemoveSeat /\ ~RemoveEnds
      BY <3>1 DEF RemoveSkips, RemoveSeat, RemoveEnds, Step, At
    <3>6. QuitCalls \/ \E p \in Philosopher : EatingPhylo(p)
      BY <2>3, <3>2, <3>3, <3>4, <3>5 DEF Next, FatherGoesOn
    <3> QED
      BY <2>3, <3>6, QuitGoesOn, QuitEating DEF PhyloInv
  <2> QED
    BY <1>2, <2>1, <2>2, <2>3 DEF PhyloInv
<1> QED
  BY <1>1, <1>2, PTL DEF Spec

\* Two neighbours who eat have the fork between them, both: but a fork is in one hand.
LEMMA InvGivesNeighbours ==
    ASSUME PhyloInv
    PROVE  NeighboursNeverEat
<1>1. CASE TableInv
  <2> SUFFICES ASSUME NEW p \in Philosopher, NEW q \in Philosopher, pc[p] = "eat",
                      pc[q] = "eat", p # q, (seat[p] + 1) % tableSize = seat[q]
               PROVE  FALSE
    BY DEF NeighboursNeverEat, Eating
  <2> DEFINE s == seat[p]
             t == seat[q]
             n == tableSize
  <2>1. /\ "eat" \in Known /\ "eat" \in Seated
        /\ p \in Everyone /\ q \in Everyone /\ p # Father /\ q # Father
    BY Everybody DEF Known, Seated
  <2>2. /\ First(p) \in Fork /\ Second(p) \in Fork /\ First(q) \in Fork /\ Second(q) \in Fork
    BY <1>1, <2>1, TwoForks
  <2>3. /\ HasFirst(p) /\ HasSecond(p) /\ HasFirst(q) /\ HasSecond(q)
    BY DEF HasFirst, HasSecond
  <2>4. \A f \in {left[p], right[p]} : f \in Fork /\ Holds(p, f)
    BY <2>1, <2>2, <2>3 DEF Holds, First, Second
  <2>5. \A f \in {left[q], right[q]} : f \in Fork /\ Holds(q, f)
    BY <2>1, <2>2, <2>3 DEF Holds, First, Second
  <2>6. \A f \in {left[p], right[p]} : f \notin {left[q], right[q]}
    BY <1>1, <2>1, <2>4, <2>5 DEF TableInv, TokensOK
  <2>7. /\ left[p] = s + 2
        /\ \/ right[p] = s + 3 /\ s + 1 < n
           \/ right[p] = 2 /\ s + 1 = n
           \/ right[p] = 2 /\ s + 2 = n
    BY <1>1, <2>1 DEF TableInv, ForksOK
  <2>8. /\ left[q] = t + 2
        /\ \/ right[q] = t + 3 /\ t + 1 < n
           \/ right[q] = 2
    BY <1>1, <2>1 DEF TableInv, ForksOK
  <2>9. s \in Nat /\ t \in Nat /\ n \in Nat /\ n >= 2
    BY <1>1, SizesKnown DEF TableInv, TypeOK
  <2>10. (s + 1) % n = t
    OBVIOUS
  <2> HIDE DEF s, t, n
  <2>11. CASE s + 1 < n /\ right[p] = s + 3
    <3>1. t = s + 1
      BY <2>9, <2>10, <2>11
    <3>2. left[q] = right[p]
      BY <2>8, <2>9, <2>11, <3>1
    <3> QED
      BY <2>6, <3>2
  <2>12. CASE right[p] = 2 /\ s + 1 = n
    <3>1. t = 0
      BY <2>9, <2>10, <2>12
    <3>2. left[q] = right[p]
      BY <2>8, <2>12, <3>1
    <3> QED
      BY <2>6, <3>2
  <2>13. CASE right[p] = 2 /\ s + 2 = n
    <3>1. t = s + 1 /\ ~(t + 1 < n)
      BY <2>9, <2>10, <2>13
    <3>2. right[q] = right[p]
      BY <2>8, <2>13, <3>1
    <3> QED
      BY <2>6, <3>2
  <2> QED
    BY <2>7, <2>11, <2>12, <2>13
<1>2. CASE QuitInv
  <2> SUFFICES ASSUME ~Quitting, NEW p \in Philosopher, pc[p] = "eat"
               PROVE  FALSE
    BY DEF NeighboursNeverEat, Eating
  <2>1. pc[Father] = "ended" /\ quitting = tableSize
    BY <1>2 DEF QuitInv, Quitting
  <2>2. PICK i \in 0 .. tableSize - 1 : pids[i] = p
    BY <1>2 DEF QuitInv
  <2>3. pc[pids[i]] = "dead"
    BY <1>2, <2>1 DEF QuitInv
  <2> QED
    BY <2>2, <2>3
<1> QED
  BY <1>1, <1>2 DEF PhyloInv

\* Two neighbours never eat at the same time, at a table of any size that grows by one
\* at most: the semaphores of phylo.c are the forks, and each is in one hand.
THEOREM NeighboursNeverEatHolds ==
    ASSUME GrowsOnce
    PROVE  Spec => []NeighboursNeverEat
<1>1. Spec => []PhyloInv
  BY PhyloInvHolds
<1> QED
  BY <1>1, InvGivesNeighbours, PTL
=============================================================================

------------------------------- MODULE Buddy --------------------------------
(***************************************************************************)
(* The buddy allocator (Kernel/c/mem/buddy.c), the manager of the builds   *)
(* with BUDDY.  Blocks of division d have 2^d bytes; occupied[d] lists the *)
(* free ones, and the byte before an allocated block says its division.    *)
(***************************************************************************)
EXTENDS Memory

CONSTANTS
    BASE_SIZE,     \* sizeof(struct base), which the arena begins with
    MIN_SIZE,      \* the smallest block
    MAX_DIVISIONS

ASSUME BuddyAssumption == BASE_SIZE \in Nat /\ BASE_SIZE < MEM_SIZE
                          /\ MIN_SIZE \in Nat \ {0} /\ MAX_DIVISIONS \in Nat \ {0}

VARIABLES
    occupied, \* occupied[division], head first
    memUsed

buddyVars == <<occupied, memUsed>>

\* logBase2 with its two roundings.
CeilLog(n) == CHOOSE v \in 0 .. n : 2^v >= n /\ \A w \in 0 .. v - 1 : 2^w < n
FloorLog(n) == CHOOSE v \in 0 .. n : 2^v <= n /\ 2^(v + 1) > n

Start == BASE_SIZE
LargestDivision == Min({FloorLog(MEM_SIZE - BASE_SIZE), MAX_DIVISIONS - 1})
BuddySize == 2^LargestDivision
Division == 0 .. LargestDivision

BuddyInit == /\ occupied = [d \in Division |-> IF d = LargestDivision THEN <<Start>> ELSE <<>>]
             /\ memUsed = 0

\* The division of a request: one byte more for the header, MIN_SIZE at least.
DivisionFor(n) == CeilLog(Max({n + 1, MIN_SIZE}))

ToSplit(d) == {e \in d .. LargestDivision : occupied[e] # <<>>}

\* updatingLists takes the last block of the first division that has one and
\* halves it down to d: every first half is put in its list, the second halves
\* go down, so what is handed out is the end of the block.
BuddyMemalloc(n) ==
    LET d == DivisionFor(n)
        e == Min(ToSplit(d))
        block == Last(occupied[e])
    IN  /\ n \in 1 .. BuddySize
        /\ ToSplit(d) # {}
        /\ occupied' = [f \in Division |->
                CASE f = e -> Front(occupied[f])
                  [] f \in d .. e - 1 -> <<block + 2^e - 2^(f + 1)>> \o occupied[f]
                  [] OTHER -> occupied[f]]
        /\ memUsed' = memUsed + 2^d
        /\ Hold(block + 2^e - 2^d + 1, n, d)

\* Where the pair begins that a block of division d belongs to.
PairStart(block, d) == block - ((block - Start) % 2^(d + 1))

\* Mutant of InPair: the pair is taken to begin at the block itself.
InPairAbove(block, d) ==
    {i \in DOMAIN occupied[d] : occupied[d][i] \in block .. block + 2^(d + 1) - 1}

\* What findAndRemove looks for: the list's blocks inside that pair.
InPair(block, d) ==
    {i \in DOMAIN occupied[d] :
        occupied[d][i] \in PairStart(block, d) .. PairStart(block, d) + 2^(d + 1) - 1}

\* restoreToList: as long as the other half is free it leaves its list and the
\* pair goes up a division; a block that arrives above the largest is lost.
Stops(block, d) ==
    Min({e \in d .. LargestDivision : InPair(block, e) = {}} \cup {LargestDivision + 1})

Restored(block, d) ==
    LET s == Stops(block, d) IN
    [e \in Division |->
        CASE e \in d .. s - 1 -> RemoveAt(occupied[e], Min(InPair(block, e)))
          [] e = s -> <<block - ((block - Start) % 2^e)>> \o occupied[e]
          [] OTHER -> occupied[e]]

BuddyMemfree(b) ==
    /\ b.at \in Start .. Start + BuddySize - 1
    /\ b.header \in Division
    /\ occupied' = Restored(b.at - 1, b.header)
    /\ memUsed' = memUsed - 2^b.header
    /\ LetGo(b)

\* What getMemInfo reports after it has allocated its own answer.
BuddyFreeBlocks == (BuddySize - memUsed) \div MIN_SIZE
-----------------------------------------------------------------------------
\* The bytes that nobody holds, from the callers' side alone: a held block
\* covers the whole power of two that its length and its header need.
BuddyBytesOf(b) == (b.at - 1) .. (b.at - 2 + 2^DivisionFor(b.len))
BuddyUnused == (Start .. Start + BuddySize - 1) \ UNION {BuddyBytesOf(b) : b \in used}

BuddyCouldHold(n) ==
    LET size == 2^DivisionFor(n) IN
    \E k \in 0 .. BuddySize \div size - 1 :
        Start + k * size .. Start + (k + 1) * size - 1 \subseteq BuddyUnused
=============================================================================

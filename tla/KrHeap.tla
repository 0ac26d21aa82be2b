------------------------------- MODULE KrHeap -------------------------------
(***************************************************************************)
(* The K&R heap (Kernel/c/mem/krheap.c), the manager of the default build. *)
(* The free blocks form a list in address order; a block is measured in    *)
(* units of BLOCK_SIZE bytes and begins with a header of one unit.         *)
(***************************************************************************)
EXTENDS Memory

CONSTANT BLOCK_SIZE \* sizeof(Header)

ASSUME BlockAssumption == BLOCK_SIZE \in Nat \ {0}

VARIABLE freep \* the list from freep on: [at, size] in units

KrUnits == MEM_SIZE \div BLOCK_SIZE

KrInit == freep = <<[at |-> 0, size |-> KrUnits]>>

\* memalloc adds the unit of the header to the units of the request.
NUnits(n) == (n + BLOCK_SIZE - 1) \div BLOCK_SIZE + 1

LongEnough(n) == {i \in DOMAIN freep : freep[i].size >= NUnits(n)}

\* First fit: a block of the exact size leaves the list, a longer one gives its end.
KrMemalloc(n) ==
    /\ n > 0
    /\ LongEnough(n) # {}
    /\ LET i == Min(LongEnough(n))
           rest == freep[i].size - NUnits(n)
       IN  /\ freep' = IF rest = 0 THEN RemoveAt(freep, i)
                                   ELSE [freep EXCEPT ![i].size = rest]
           /\ Hold((freep[i].at + rest + 1) * BLOCK_SIZE, n, NUnits(n))

\* Mutants of Joined: blocks are never joined, or the length of the second is lost.
JoinedNever(low, high) == <<low, high>>
JoinedShort(low, high) == IF low.at + low.size = high.at THEN <<low>> ELSE <<low, high>>

\* Two blocks that touch become one.
Joined(low, high) ==
    IF low.at + low.size = high.at THEN <<[low EXCEPT !.size = @ + high.size]>>
                                   ELSE <<low, high>>

\* How many blocks of the list stay before a block that comes back at `at'.
StayBefore(at) ==
    IF freep = <<>> \/ at < freep[1].at THEN 0
    ELSE Max({i \in DOMAIN freep : \A j \in 2 .. i : freep[j].at < at})

\* The block is joined with the next one and then with the one before.
InsertedAfter(i, block) ==
    LET upper == IF i < Len(freep) THEN Joined(block, freep[i + 1]) ELSE <<block>>
        lower == IF i > 0 THEN Joined(freep[i], Head(upper)) \o Tail(upper) ELSE upper
    IN  SubSeq(freep, 1, i - 1) \o lower \o SubSeq(freep, i + 2, Len(freep))

KrMemfree(b) ==
    LET block == [at |-> b.at \div BLOCK_SIZE - 1, size |-> b.header] IN
    /\ b.at \in 0 .. MEM_SIZE - 1
    /\ freep' = InsertedAfter(StayBefore(block.at), block)
    /\ LetGo(b)

\* What getMemInfo counts after it has allocated its own answer.
KrFreeBlocks == FoldLeft(LAMBDA sum, block : sum + block.size, 0, freep)
-----------------------------------------------------------------------------
\* The units that nobody holds, from the callers' side alone.
KrUnitsOf(b) == (b.at \div BLOCK_SIZE - 1) .. (b.at \div BLOCK_SIZE + (b.len - 1) \div BLOCK_SIZE)
KrUnused == (0 .. KrUnits - 1) \ UNION {KrUnitsOf(b) : b \in used}

KrCouldHold(n) == \E at \in KrUnused : at .. at + NUnits(n) - 1 \subseteq KrUnused
=============================================================================

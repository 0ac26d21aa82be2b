--------------------------- MODULE KernelServices ---------------------------
(***************************************************************************)
(* The parts of the kernel that need no scheduler to be understood: the    *)
(* memory manager of the build (K&R heap or buddy allocator), the doubly   *)
(* linked list, the clock and the terminal.  They share no state here, so  *)
(* each behaviour is about one of them, its subject.                       *)
(***************************************************************************)
EXTENDS KrHeap, Buddy, DdlList, Clock, Terminal

VARIABLE subject

memoryVars == <<used, freep, buddyVars>>
vars == <<subject, memoryVars, ddlVars, clockVars, terminalVars>>

Subject == {"K&R heap malloc", "Buddy", "ddlADT", "clock", "terminal"}

\* The parts that are not the subject wait in one of their initial states.
Init ==
    /\ subject \in Subject
    /\ NoneHeld /\ KrInit /\ BuddyInit /\ newList
    /\ ClockInit /\ (subject = "clock" \/ rtc = CHOOSE instant \in Instants : TRUE)
    /\ TerminalInit /\ (subject = "terminal" \/ keys = CHOOSE set \in KeySets : TRUE)

Allocates == \E n \in Requests :
    /\ MayRequest
    /\ CASE subject = "Buddy" -> BuddyMemalloc(n) /\ UNCHANGED freep
         [] subject = "K&R heap malloc" -> KrMemalloc(n) /\ UNCHANGED buddyVars
         [] OTHER -> FALSE
    /\ UNCHANGED <<subject, ddlVars, clockVars, terminalVars>>

Frees == \E b \in used :
    /\ IF subject = "Buddy" THEN BuddyMemfree(b) /\ UNCHANGED freep
                            ELSE KrMemfree(b) /\ UNCHANGED buddyVars
    /\ UNCHANGED <<subject, ddlVars, clockVars, terminalVars>>

Next ==
    \/ Allocates
    \/ Frees
    \/ subject = "ddlADT" /\ ddlNext
       /\ UNCHANGED <<subject, memoryVars, clockVars, terminalVars>>
    \/ subject = "clock" /\ (SleepNext \/ DateNext)
       /\ UNCHANGED <<subject, memoryVars, ddlVars, terminalVars>>
    \/ subject = "terminal" /\ TerminalNext
       /\ UNCHANGED <<subject, memoryVars, ddlVars, clockVars>>

Spec == Init /\ [][Next]_vars
-----------------------------------------------------------------------------
\* Both managers implement Allocator: a block that is handed out lies in the
\* arena, is long enough and overlaps nothing that is still held, whatever was
\* allocated and freed before, in whatever order.
Blocks == INSTANCE Allocator WITH
    ArenaSize <- MEM_SIZE, Sizes <- Requests,
    held <- {[at |-> b.at, len |-> b.len] : b \in used}
ImplementsAllocator == Blocks!Spec

\* memalloc returns NULL only when no place that a block of the size could
\* take is wholly unused: nothing that was freed is lost or left in pieces.
RefusesOnlyWhenFull ==
    /\ subject = "K&R heap malloc" =>
        \A n \in Requests \ {0} : KrCouldHold(n) => LongEnough(n) # {}
    /\ subject = "Buddy" =>
        \A n \in Requests \ {0} :
            n <= BuddySize /\ BuddyCouldHold(n) => ToSplit(DivisionFor(n)) # {}

\* The free memory that getMemInfo reports, from the K&R list or from the
\* buddy's counter, is what the callers do not hold.
ReportsExact ==
    /\ subject = "K&R heap malloc" => KrFreeBlocks = Cardinality(KrUnused)
    /\ subject = "Buddy" => BuddyFreeBlocks = Cardinality(BuddyUnused) \div MIN_SIZE

\* The list implements List: links, cursor and the pointer that remove uses
\* describe one sequence, and a traversal that removes as it goes skips nothing
\* and visits nothing twice; an add that finds no memory empties the list.
L == INSTANCE List WITH
    NoElem <- 0, elems <- Elems(From(first)), rest <- Elems(From(current)), seen <- found
ImplementsList == L!Spec
=============================================================================

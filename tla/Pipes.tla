------------------------------- MODULE Pipes -------------------------------
(***************************************************************************)
(* Pipes and file descriptors (Kernel/c/ipc/files.c and the last part of   *)
(* Kernel/c/main/scheduler.c).                                             *)
(*                                                                         *)
(* A pipe is a ring of characters with two open counts; a process has a    *)
(* table of descriptors, which its children inherit.  The counts say when  *)
(* a reader has met the end of the pipe and when the pipe can be freed, so *)
(* every way in which a descriptor comes or goes must keep them.           *)
(*                                                                         *)
(* A call is one step up to the block inside read or write, and one step   *)
(* from there on.  Files 0, 1 and 2 are the keyboard and the screen, which *)
(* are not in this module: calls on them change nothing here.              *)
(***************************************************************************)
EXTENDS Processes

CONSTANTS
    Name,                 \* names of pipes
    NoName,               \* not a name
    FromThird,            \* what is left of a name without its first two characters
    MAX_PIPE_BUFFER_SIZE, \* size of the ring (1024 in the code)
    MAX_FD_COUNT,         \* descriptors of a process (64 in the code)
    MaxFileId,            \* bound: pipes are 3 .. MaxFileId
    MaxIndex,             \* bound: the characters ever written to one pipe
    DupSource, DupTarget, \* the descriptors that dup2 copies, and writes to
    MaxDups,              \* bound: dup2 calls before a revert
    Char,                 \* the characters that are written
    Text,                 \* the strings that are written
    MaxRead               \* bound: characters that a read asks for (255 in the code)

AllCalls == {"mkpipe", "open", "close", "write", "read", "dup2", "revert", "startChild",
             "startParent", "exit", "kill", "esc",
             "readEmpty", "longWrite", "crowdedWrite", "readOwn", "dupOver", "lateRevert",
             "killZombie", "afterEsc", "outOfMemory"}

EMPTY == -1
STDERR == 2
File == STDERR + 1 .. MaxFileId
Fd == 0 .. MAX_FD_COUNT - 1

ASSUME PipeAssumption ==
    /\ NoName \notin Name /\ FromThird \in [Name -> Name \cup {NoName}]
    /\ MAX_PIPE_BUFFER_SIZE \in Nat /\ MAX_PIPE_BUFFER_SIZE > 1
    /\ MAX_FD_COUNT \in Nat /\ MAX_FD_COUNT > 4
    /\ DupSource \subseteq Fd /\ DupTarget \subseteq 0 .. STDERR /\ MaxDups \in Nat
    /\ MaxFileId \in Nat /\ MaxFileId > STDERR /\ MaxIndex \in Nat
    /\ MaxRead \in 1 .. MAX_PIPE_BUFFER_SIZE - 1
    /\ Text \subseteq Seq(Char) \ {<<>>}
    /\ Calls \subseteq AllCalls

VARIABLES
    fds,            \* PCB fds
    fdReplacements, \* PCB fdReplacements, the newest first
    pipe,           \* the pipeFile_t of each file id; its name is NoName when it is not
                    \* in pipeFilesList
    fileIdToGive,   \* fileIdToGive
    call,           \* the read or write of each process that is suspended in its block
    atEnd,          \* whether the last read of each process met the end of the pipe
    hung            \* a call loops for ever with interrupts disabled

fileVars == <<fds, fdReplacements, pipe, fileIdToGive>>
pipeVars == <<processVars, fileVars, call, atEnd, hung>>

NoCall == [op |-> "none", file |-> EMPTY, rest |-> <<>>, left |-> 0]
Closed == [fileID |-> EMPTY, mode |-> "N"]
DefaultFds == [fd \in Fd |-> CASE fd = 0 -> [fileID |-> 0, mode |-> "R"]
                               [] fd \in {1, 2} -> [fileID |-> fd, mode |-> "W"]
                               [] OTHER -> Closed]

NoPipe == [name |-> NoName, buffer |-> [i \in 0 .. MAX_PIPE_BUFFER_SIZE - 1 |-> ""],
           readingIndex |-> 0, writingIndex |-> 0, currentOpenCount |-> 0,
           writeOpenCount |-> 0]

ReadReason(f) == [source |-> "PIPE_READ", id |-> f]
WriteReason(f) == [source |-> "PIPE_WRITE", id |-> f]

Exists(f) == f \in File /\ pipe[f].name # NoName

\* The processes alive that have not returned from a read or write of pipe f.
SuspendedIn(op, f) ==
    {p \in Process : Live(p) /\ call[p].op = op /\ call[p].file = f}

InUserCode ==
    /\ ~hung /\ nowRunning # InitPid /\ call[nowRunning] = NoCall
    /\ state[nowRunning] = "READY" \/ Asks("afterEsc")

InterruptsEnabled == ~hung /\ call[nowRunning] = NoCall

-----------------------------------------------------------------------------
(* Descriptors that are opened and closed.  An end is a pair of a process  *)
(* and one of its descriptors.                                             *)

EndsOf(K) == {e \in K \X Fd : fds[e[1]][e[2]].mode # "N" /\ fds[e[1]][e[2]].fileID > STDERR}

On(ends, f) == {e \in ends : fds[e[1]][e[2]].fileID = f}
ForWriting(ends) == {e \in ends : fds[e[1]][e[2]].mode = "W"}

\* modifyOpenCount, for all ends that come or go at once.
Counted(file, all, writers) ==
    [file EXCEPT !.currentOpenCount = @ + all, !.writeOpenCount = @ + writers]

\* closeForKilling (and close) for each of the ends: the pipe is freed when the last
\* one goes.
\* (a bug would be: the pipe is freed with its last write end)
AfterClosingWriters(ends) ==
    [f \in File |->
        LET all == Cardinality(On(ends, f))
            writers == Cardinality(ForWriting(On(ends, f)))
        IN  IF ~Exists(f) THEN pipe[f]
            ELSE IF all > 0 /\ pipe[f].writeOpenCount = writers THEN NoPipe
            ELSE Counted(pipe[f], -all, -writers)]

AfterClosing(ends) ==
    [f \in File |->
        LET all == Cardinality(On(ends, f))
            writers == Cardinality(ForWriting(On(ends, f)))
        IN  IF ~Exists(f) THEN pipe[f]
            ELSE IF pipe[f].currentOpenCount \in 1 .. all THEN NoPipe
            ELSE Counted(pipe[f], -all, -writers)]

\* The readers that wake because the last write end goes.
\* (a bug would be: nobody is woken)
ReadersAtEndNone(ends) == {}

ReadersAtEnd(ends) ==
    UNION {BlockedFor(ReadReason(f)) :
              f \in {g \in File : /\ Exists(g)
                                  /\ pipe[g].writeOpenCount
                                       \in 1 .. Cardinality(ForWriting(On(ends, g)))}}

\* modifyOpenCount for one more end.
\* (a bug would be: an end for reading is not counted)
OpenedForWriting(f, mode) ==
    IF mode = "W" THEN [pipe EXCEPT ![f] = Counted(@, 1, 1)] ELSE pipe

Opened(f, mode) ==
    [pipe EXCEPT ![f] = Counted(@, 1, IF mode = "W" THEN 1 ELSE 0)]

\* modifyOpenCount with -1 for each of the ends.
Discounted(ends) ==
    [f \in File |->
        LET all == Cardinality(On(ends, f))
            writers == Cardinality(ForWriting(On(ends, f)))
        IN  IF ~Exists(f) THEN pipe[f] ELSE Counted(pipe[f], -all, -writers)]

\* modifyOpenCount for all descriptors of a table; files that do not exist are
\* passed over.
\* (a bug would be: the copies of a child are not counted)
CountedAgainNever(table) == pipe

CountedAgain(table) ==
    [f \in File |->
        LET on == {fd \in Fd : table[fd].fileID = f /\ table[fd].mode # "N"}
            writing == {fd \in on : table[fd].mode = "W"}
        IN  IF ~Exists(f) THEN pipe[f]
            ELSE Counted(pipe[f], Cardinality(on), Cardinality(writing))]

\* mkpipe looks for the name from its third character on among the names, and loses
\* all pipes when there is no memory for the node of the list (see AfterAdd in
\* Scheduler).
Mkpipe(n) ==
    /\ InUserCode /\ Asks("mkpipe")
    /\ fileIdToGive <= MaxFileId
    /\ \A f \in File : Exists(f) => pipe[f].name # FromThird[n]
    /\ pipe' \in {[pipe EXCEPT ![fileIdToGive] = [NoPipe EXCEPT !.name = n]]} \cup
                 (IF Asks("outOfMemory") THEN {[f \in File |-> NoPipe]} ELSE {})
    /\ fileIdToGive' = fileIdToGive + 1
    /\ UNCHANGED <<processVars, fds, fdReplacements, call, atEnd, hung>>

\* The pipes are looked through from the newest to the oldest.
FileNamed(n) == LET named == {f \in File : pipe[f].name = n}
                IN  IF named = {} THEN EMPTY ELSE Max(named)

\* openFile gives the first free descriptor from the fourth on.
FreeFds == {fd \in 4 .. MAX_FD_COUNT - 1 : fds[nowRunning][fd].fileID = EMPTY}

Open(n, mode) ==
    /\ InUserCode /\ Asks("open")
    /\ FileNamed(n) # EMPTY /\ FreeFds # {}
    /\ LET f == FileNamed(n)
       IN  /\ fds' = [fds EXCEPT ![nowRunning][Min(FreeFds)] = [fileID |-> f, mode |-> mode]]
           /\ pipe' = Opened(f, mode)
    /\ UNCHANGED <<processVars, fdReplacements, fileIdToGive, call, atEnd, hung>>

CloseFd(fd) ==
    /\ InUserCode /\ Asks("close")
    /\ Exists(fds[nowRunning][fd].fileID) /\ fds[nowRunning][fd].mode # "N"
    /\ pipe' = AfterClosing({<<nowRunning, fd>>})
    /\ Wake(ReadersAtEnd({<<nowRunning, fd>>}))
    /\ fds' = [fds EXCEPT ![nowRunning][fd] = Closed]
    /\ UNCHANGED <<fdReplacements, fileIdToGive, call, atEnd, hung>>

\* dup2, to a standard descriptor: it closes nothing in the place it writes to.
Dup2(fromFd, toFd) ==
    /\ InUserCode /\ Asks("dup2")
    /\ Len(fdReplacements[nowRunning]) < MaxDups
    /\ fds[nowRunning][toFd].fileID <= STDERR \/ Asks("dupOver")
    /\ LET from == fds[nowRunning][fromFd]
           lost == [index |-> toFd, lostMode |-> fds[nowRunning][toFd].mode]
       IN  /\ fdReplacements' = [fdReplacements EXCEPT ![nowRunning] = <<lost>> \o @]
           /\ fds' = [fds EXCEPT ![nowRunning][toFd] = from]
           /\ pipe' = IF Exists(from.fileID) THEN Opened(from.fileID, from.mode) ELSE pipe
    /\ UNCHANGED <<processVars, fileIdToGive, call, atEnd, hung>>

\* revertFdReplacements: the replaced descriptors get their standard files back, and
\* the ends that were in their place are no longer counted.  It wakes nobody and
\* frees nothing.
Replaced == {fdReplacements[nowRunning][i].index : i \in DOMAIN fdReplacements[nowRunning]}

OldestMode(fd) ==
    LET list == fdReplacements[nowRunning]
    IN  list[Max({i \in DOMAIN list : list[i].index = fd})].lostMode

RevertFdReplacements ==
    /\ InUserCode /\ Asks("revert") /\ Replaced # {}
    /\ LET ends == EndsOf({nowRunning}) \cap ({nowRunning} \X Replaced)
       IN  /\ ReadersAtEnd(ends) = {} \/ Asks("lateRevert")
           /\ pipe' = Discounted(ends)
    /\ fds' = [fds EXCEPT ![nowRunning] =
                  [fd \in Fd |-> IF fd \in Replaced
                                 THEN [fileID |-> fd, mode |-> OldestMode(fd)] ELSE @[fd]]]
    /\ fdReplacements' = [fdReplacements EXCEPT ![nowRunning] = <<>>]
    /\ UNCHANGED <<processVars, fileIdToGive, call, atEnd, hung>>

-----------------------------------------------------------------------------
(* write.                                                                  *)

Pending(f) == pipe[f].writingIndex - pipe[f].readingIndex

\* Characters that fit in a ring that has n, until readingIndex - 1 and writingIndex
\* are the same modulo its size.
Fits(n) == (MAX_PIPE_BUFFER_SIZE - 1 - n) % MAX_PIPE_BUFFER_SIZE

\* The ring after s is put in it from index w on, character by character.
Filled(ring, w, s) ==
    LET at(i) == {j \in DOMAIN s : (w + j - 1) % MAX_PIPE_BUFFER_SIZE = i}
    IN  [i \in DOMAIN ring |-> IF at(i) = {} THEN ring[i] ELSE s[Max(at(i))]]

Appended(file, s) ==
    [file EXCEPT !.writingIndex = @ + Len(s),
                 !.buffer = Filled(file.buffer, file.writingIndex, s)]

Stored(f, s) == [pipe EXCEPT ![f] = Appended(pipe[f], s)]

WakeReaders(f) == Wake(BlockedFor(ReadReason(f)))

\* The loop of write: the first `sure' characters are written without looking.  A
\* process that is not READY cannot be blocked, and writes on.  Readers are woken at
\* the end only.
WriteOn(f, s, sure) ==
    LET k == IF MayBlock THEN Min({Len(s), sure + Fits(Pending(f) + sure)}) ELSE Len(s)
    IN  /\ pipe' = Stored(f, SubSeq(s, 1, k))
        /\ \/ /\ k = Len(s)
              /\ WakeReaders(f)
              /\ call' = [call EXCEPT ![nowRunning] = NoCall]
           \/ /\ k < Len(s)
              /\ BlockRunning(WriteReason(f))
              /\ call' = [call EXCEPT ![nowRunning] =
                             [op |-> "write", file |-> f, rest |-> SubSeq(s, k + 1, Len(s)), left |-> 0]]
        /\ UNCHANGED <<fds, fdReplacements, fileIdToGive, atEnd, hung>>

Write(fd, s) ==
    /\ InUserCode /\ Asks("write")
    /\ fds[nowRunning][fd].mode = "W" /\ Exists(fds[nowRunning][fd].fileID)
    /\ LET f == fds[nowRunning][fd].fileID
       IN  /\ pipe[f].writingIndex + Len(s) <= MaxIndex
           /\ Len(s) < MAX_PIPE_BUFFER_SIZE \/ Asks("longWrite")
           /\ SuspendedIn("write", f) = {} \/ Asks("crowdedWrite")
           /\ WriteOn(f, s, 0)

ResumeWrite ==
    /\ ~hung /\ call[nowRunning].op = "write"
    /\ WriteOn(call[nowRunning].file, call[nowRunning].rest, 1)

-----------------------------------------------------------------------------
(* read.                                                                   *)

\* (a bug would be: the writers are not woken)
WakeWritersNever(f) == UNCHANGED processVars

WakeWriters(f) == Wake(BlockedFor(WriteReason(f)))

\* Characters until readingIndex and writingIndex are the same modulo the size.
Available(f) == Pending(f) % MAX_PIPE_BUFFER_SIZE

\* The loop of read, for n more characters: it reads them all, or meets the end of
\* the pipe, or goes to sleep until there is more.  A process that is not READY
\* cannot go to sleep, and loops for ever.
ReadOn(f, n) ==
    LET k == Min({n, Available(f)})
    IN  /\ pipe' = [pipe EXCEPT ![f].readingIndex = @ + k]
        /\ \/ /\ k = n
              /\ WakeWriters(f)
              /\ call' = [call EXCEPT ![nowRunning] = NoCall]
              /\ atEnd' = [atEnd EXCEPT ![nowRunning] = FALSE]
              /\ UNCHANGED hung
           \/ /\ k < n /\ pipe[f].writeOpenCount = 0
              /\ call' = [call EXCEPT ![nowRunning] = NoCall]
              /\ atEnd' = [atEnd EXCEPT ![nowRunning] = TRUE]
              /\ UNCHANGED <<processVars, hung>>
           \/ /\ k < n /\ pipe[f].writeOpenCount # 0
              /\ IF MayBlock THEN BlockRunning(ReadReason(f)) ELSE UNCHANGED processVars
              /\ call' = [call EXCEPT ![nowRunning] =
                             [op |-> "read", file |-> f, rest |-> <<>>, left |-> n - k]]
              /\ hung' = ~MayBlock
              /\ UNCHANGED atEnd
        /\ UNCHANGED <<fds, fdReplacements, fileIdToGive>>

Read(fd, n) ==
    /\ InUserCode /\ Asks("read")
    /\ fds[nowRunning][fd].mode = "R" /\ Exists(fds[nowRunning][fd].fileID)
    /\ LET f == fds[nowRunning][fd].fileID
       IN  /\ ForWriting(On(EndsOf({nowRunning}), f)) = {} \/ Asks("readOwn")
           /\ ReadOn(f, n)

ResumeRead ==
    /\ ~hung /\ call[nowRunning].op = "read"
    /\ ReadOn(call[nowRunning].file, call[nowRunning].left)

\* read from a descriptor that is closed or is not for reading: nobody will wake
\* the process.
ReadEmpty(fd) ==
    /\ InUserCode /\ Asks("readEmpty") /\ MayBlock
    /\ fds[nowRunning][fd].mode # "R" \/ fds[nowRunning][fd].fileID = EMPTY
    /\ BlockRunning(ReadReason(EMPTY))
    /\ call' = [call EXCEPT ![nowRunning].op = "readEmpty"]
    /\ UNCHANGED <<fileVars, atEnd, hung>>

-----------------------------------------------------------------------------
(* Processes: they start with a copy of a table of descriptors, and close  *)
(* all of theirs when they end.                                            *)

Start(p, table) ==
    /\ InUserCode /\ state[p] = "NONE"
    /\ state' = [state EXCEPT ![p] = "READY"]
    /\ fds' = [fds EXCEPT ![p] = table]
    /\ pipe' = CountedAgain(table)
    /\ UNCHANGED <<blockedReason, nowRunning, fdReplacements, fileIdToGive, call, atEnd,
                   hung>>

StartChild(p) == Asks("startChild") /\ Start(p, fds[nowRunning])

StartParent(p) ==
    /\ Asks("startParent")
    /\ \/ Start(p, DefaultFds)
       \/ \E q \in Process : state[q] # "NONE" /\ Start(p, fds[q])

\* _killProcess for all of K.  The order in which ends are closed does not show: a
\* pipe is freed with its last end, and readers wake with the last write end.
Kill(K) ==
    /\ pipe' = AfterClosing(EndsOf(K))
    /\ Change(ReadersAtEnd(EndsOf(K)), K)
    /\ UNCHANGED <<fds, fdReplacements, fileIdToGive, call, atEnd, hung>>

Exit == InUserCode /\ Asks("exit") /\ Kill({nowRunning}) /\ Dispatch(state')

\* The descriptors of a process that is dead but not waited for are closed again.
KillProcess(p) ==
    /\ InUserCode /\ Asks("kill")
    /\ p # InitPid
    /\ Live(p) \/ (state[p] = "FINISHED" /\ Asks("killZombie"))
    /\ Kill({p}) /\ Dispatch(state')

Escape ==
    /\ InterruptsEnabled /\ Asks("esc")
    /\ LET K == {p \in Foreground : Live(p)}
       IN  K # {} /\ Kill(K)
    /\ UNCHANGED nowRunning

Tick(p) ==
    /\ InterruptsEnabled
    /\ Dispatch(state) /\ nowRunning' = p
    /\ UNCHANGED <<state, blockedReason, fileVars, call, atEnd, hung>>

-----------------------------------------------------------------------------

CONSTANT Shell \* the process that is started first

Init ==
    /\ state = [p \in Process |-> IF p \in {InitPid, Shell} THEN "READY" ELSE "NONE"]
    /\ blockedReason = [p \in Process |-> NoBlock]
    /\ nowRunning = InitPid
    /\ fds = [p \in Process |-> DefaultFds]
    /\ fdReplacements = [p \in Process |-> <<>>]
    /\ pipe = [f \in File |-> NoPipe]
    /\ fileIdToGive = STDERR + 1
    /\ call = [p \in Process |-> NoCall]
    /\ atEnd = [p \in Process |-> FALSE]
    /\ hung = FALSE

Next ==
    \/ \E n \in Name : Mkpipe(n) \/ \E mode \in {"R", "W"} : Open(n, mode)
    \/ \E fromFd \in DupSource, toFd \in DupTarget : Dup2(fromFd, toFd)
    \/ \E fd \in Fd : \/ CloseFd(fd) \/ ReadEmpty(fd)
                      \/ \E s \in Text : Write(fd, s)
                      \/ \E n \in 1 .. MaxRead : Read(fd, n)
    \/ RevertFdReplacements \/ ResumeWrite \/ ResumeRead
    \/ \E p \in Process : StartChild(p) \/ StartParent(p) \/ KillProcess(p) \/ Tick(p)
    \/ Exit \/ Escape

Spec == Init /\ [][Next]_pipeVars

-----------------------------------------------------------------------------
(* Invariants.                                                             *)

fileDescriptor == [fileID : Int, mode : {"R", "W", "N"}]
fdReplacement == [index : 0 .. STDERR, lostMode : {"R", "W", "N"}]
pipeFile == [name : Name \cup {NoName},
             buffer : [0 .. MAX_PIPE_BUFFER_SIZE - 1 -> Char \cup {""}],
             readingIndex : Nat, writingIndex : Nat,
             currentOpenCount : Nat, writeOpenCount : Nat]
suspendedCall == {NoCall, [NoCall EXCEPT !.op = "readEmpty"]} \cup
                 [op : {"read", "write"}, file : File, rest : Seq(Char), left : Nat]

\* Every variable keeps its type.
TypeOK ==
    /\ ProcessTypeOK
    /\ fds \in [Process -> [Fd -> fileDescriptor]]
    /\ fdReplacements \in [Process -> Seq(fdReplacement)]
    /\ pipe \in [File -> pipeFile]
    /\ fileIdToGive \in STDERR + 1 .. MaxFileId + 1
    /\ call \in [Process -> suspendedCall]
    /\ atEnd \in [Process -> BOOLEAN]
    /\ hung \in BOOLEAN

LiveEnds(f) == On(EndsOf({p \in Process : Live(p)}), f)

\* The open counts of a pipe are the descriptors that live processes have on it,
\* however these were opened, inherited, copied, reverted and closed.
CountsExact ==
    \A f \in File : Exists(f) =>
        /\ pipe[f].currentOpenCount = Cardinality(LiveEnds(f))
        /\ pipe[f].writeOpenCount = Cardinality(ForWriting(LiveEnds(f)))

\* "It wakes when somebody wrote something, or when no process is writing any more":
\* who sleeps in read has nothing to read, and somebody who can still write.
ReadersSleepRightly ==
    \A f \in File : \A p \in BlockedFor(ReadReason(f)) :
        Exists(f) /\ Pending(f) = 0 /\ pipe[f].writeOpenCount > 0

\* Who sleeps in write has no room.
WritersSleepRightly ==
    \A f \in File : \A p \in BlockedFor(WriteReason(f)) :
        Exists(f) /\ Pending(f) = MAX_PIPE_BUFFER_SIZE - 1

\* A pipe is not freed under a call that will go on with it.
SuspendedOnPipes ==
    \A p \in Process : Live(p) /\ call[p].op \in {"read", "write"} => Exists(call[p].file)

-----------------------------------------------------------------------------
(* What a pipe promises, PipeQueue.                                        *)

Holding(ends) == {e[1] : e \in ends}

Contents(f) == [i \in 1 .. Pending(f) |->
                   pipe[f].buffer[(pipe[f].readingIndex + i - 1) % MAX_PIPE_BUFFER_SIZE]]

PromisedQueue == INSTANCE PipeQueue WITH
    Pipe <- File, Char <- Char, Text <- Text, Capacity <- MAX_PIPE_BUFFER_SIZE - 1,
    queue <- [f \in File |-> Contents(f)],
    holders <- [f \in File |-> Holding(LiveEnds(f))],
    writers <- [f \in File |-> Holding(ForWriting(LiveEnds(f)))],
    unwritten <- [p \in Process |-> call[p].rest],
    ended <- {p \in Process : atEnd[p]}

\* Ring, counts and descriptors implement the queue: what is read was written, in
\* order and once, and the end is met only when it is empty and without writers.
ImplementsPipeQueue == PromisedQueue!Spec
=============================================================================

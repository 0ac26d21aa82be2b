--------------------------- MODULE BizcochoProofs ---------------------------
(***************************************************************************)
(* The shell leaves its own descriptors as they were, and every program    *)
(* has the end of the pipe that is on its side and no other: for every     *)
(* number of processes and pipes, whatever lines are typed and whatever    *)
(* programs end, are killed or get ESC between two of its calls.           *)
(***************************************************************************)
EXTENDS Bizcocho, PipesProofs

-----------------------------------------------------------------------------
(* The pipes, as far as the shell relies on them.                          *)

\* Who is dead makes no calls, mkpipe finds memory, and the shell has a name for every
\* pipe.  The shell may kill a program that is dead already.
ShellsUse == /\ DeadMakeNoCalls /\ MemoryLasts
             /\ 1 .. MaxFileId - STDERR \subseteq Name

Alive(st, p) == st[p] \in {"READY", "BLOCKED"}

EndsOnPipes(st, table, files) ==
    \A p \in Process, fd \in Fd :
        Alive(st, p) /\ table[p][fd].fileID > STDERR =>
            /\ table[p][fd].fileID \in File
            /\ files[table[p][fd].fileID].name # NoName

\* The shell numbers the pipes as the kernel does.
Numbered(files) == \A f \in File : files[f].name # NoName => files[f].name = f - STDERR

PipesKept == PipeInv /\ EndsOnPipes(state, fds, pipe) /\ Numbered(pipe)

\* No pipe appears.
NamesGo(files) == \A f \in File : files[f].name # NoName => files[f].name = pipe[f].name

LEMMA EndIsCounted ==
    ASSUME PipesKept, NEW p \in Process, NEW fd \in Fd, Alive(state, p),
           fds[p][fd].fileID > STDERR
    PROVE  /\ fds[p][fd].fileID \in File /\ Exists(fds[p][fd].fileID)
           /\ fds[p][fd].mode \in Either
           /\ <<p, fd>> \in EndsIn(state, fds, fds[p][fd].fileID, Either)
           /\ <<p, fd>> \in EndsOf({q \in Process : Live(q)})
<1>1. fds[p][fd] \in fileDescriptor
  BY DEF PipesKept, PipeInv, TypeOK
<1>2. fds[p][fd].fileID \in Int /\ fds[p][fd].mode \in {"R", "W", "N"}
  BY <1>1 DEF fileDescriptor
<1>3. fds[p][fd].mode # "N"
  <2>1. fds[p][fd].mode = "N" => fds[p][fd].fileID <= STDERR
    BY DEF PipesKept, PipeInv, KnownFiles
  <2> QED
    BY <1>2, <2>1 DEF STDERR
<1>4. fds[p][fd].mode \in Either
  BY <1>2, <1>3 DEF Either
<1>5. fds[p][fd].fileID \in File /\ Exists(fds[p][fd].fileID)
  BY DEF PipesKept, EndsOnPipes, Exists
<1> QED
  BY <1>3, <1>4, <1>5 DEF EndsIn, EndsOf, Live, Alive

\* Ends go by AfterClosing, and those that are left are on pipes that are left.
LEMMA ClosingKeeps ==
    ASSUME PipesKept, NEW ends \in SUBSET EndsOf({p \in Process : Live(p)}),
           pipe' = AfterClosing(ends),
           \A p \in Process, fd \in Fd :
               Alive(state', p) /\ fds'[p][fd].fileID > STDERR =>
                   Alive(state, p) /\ fds'[p][fd] = fds[p][fd] /\ <<p, fd>> \notin ends
    PROVE  EndsOnPipes(state', fds', pipe') /\ Numbered(pipe') /\ NamesGo(pipe')
<1>1. NamesGo(pipe')
  BY ClosingEffect DEF PipesKept, NamesGo, CountedLess
<1>2. Numbered(pipe')
  BY <1>1 DEF PipesKept, Numbered, NamesGo
<1>3. ASSUME NEW p \in Process, NEW fd \in Fd, Alive(state', p), fds'[p][fd].fileID > STDERR
      PROVE  fds'[p][fd].fileID \in File /\ pipe'[fds'[p][fd].fileID].name # NoName
  <2>1. Alive(state, p) /\ fds'[p][fd] = fds[p][fd] /\ <<p, fd>> \notin ends
    BY <1>3
  <2>2. PICK f \in File : /\ f = fds[p][fd].fileID /\ Exists(f)
                          /\ <<p, fd>> \in EndsIn(state, fds, f, Either)
    BY <1>3, <2>1, EndIsCounted
  <2>3. AfterClosing(ends)[f].name # NoName
    BY <2>1, <2>2, NamedWhileOpen DEF PipesKept
  <2> QED
    BY <2>1, <2>2, <2>3
<1> QED
  BY <1>1, <1>2, <1>3 DEF EndsOnPipes

\* Nothing is opened, closed or born.
LEMMA QuietKeeps ==
    ASSUME PipesKept, PipeInv', fds' = fds,
           \A p \in Process : Alive(state', p) => Alive(state, p),
           \A f \in File : pipe'[f].name = pipe[f].name
    PROVE  PipesKept' /\ NamesGo(pipe')
BY DEF PipesKept, EndsOnPipes, Numbered, NamesGo

LEMMA KillKeeps ==
    ASSUME PipesKept, NEW K \in SUBSET Process, \A p \in K : Live(p), Kill(K),
           nowRunning' \in Process
    PROVE  /\ PipesKept' /\ NamesGo(pipe')
           /\ \A p \in Process : Alive(state', p) => p \notin K /\ Alive(state, p)
<1> DEFINE ends == EndsOf(K)
           W == ReadersAtEnd(ends)
<1>1. PipeInv'
  BY KillEffect DEF PipesKept
<1>2. ends \in SUBSET EndsOf({p \in Process : Live(p)})
  BY DEF EndsOf
<1>3. pipe' = AfterClosing(ends) /\ fds' = fds /\ Change(W, K)
  BY DEF Kill
<1>4. \A p \in W : state[p] = "BLOCKED"
  BY DEF ReadersAtEnd, BlockedFor, IsBlockedFor
<1>5. \A e \in ends : e[1] \in K
  BY DEF EndsOf
<1> HIDE DEF ends, W
<1>6. \A p \in Process : Alive(state', p) => p \notin K /\ Alive(state, p)
  BY <1>3, <1>4, ChangeEffect DEF PipesKept, PipeInv, TypeOK, Alive
<1>7. \A p \in Process, fd \in Fd : Alive(state', p) =>
          Alive(state, p) /\ fds'[p][fd] = fds[p][fd] /\ <<p, fd>> \notin ends
  BY <1>3, <1>5, <1>6
<1>8. EndsOnPipes(state', fds', pipe') /\ Numbered(pipe') /\ NamesGo(pipe')
  BY <1>2, <1>3, <1>7, ClosingKeeps
<1> QED
  BY <1>1, <1>6, <1>8 DEF PipesKept

LEMMA CloseKeeps ==
    ASSUME PipesKept, DeadMakeNoCalls, NEW fd \in Fd, CloseFd(fd)
    PROVE  /\ PipesKept' /\ NamesGo(pipe')
           /\ \A p \in Process : Alive(state', p) <=> Alive(state, p)
<1> DEFINE ends == {<<nowRunning, fd>>}
           W == ReadersAtEnd(ends)
<1>1. PipeInv'
  BY CloseStep DEF PipesKept
<1>2. nowRunning \in Process /\ Alive(state, nowRunning) /\ nowRunning' \in Process
  <2>1. nowRunning \in Process /\ nowRunning' = nowRunning
    BY DEF PipesKept, PipeInv, TypeOK, ProcessTypeOK, CloseFd, Wake
  <2>2. Alive(state, nowRunning)
    BY <2>1 DEF PipesKept, PipeInv, TypeOK, ProcessTypeOK, Alive, CloseFd, InUserCode, Asks,
                DeadMakeNoCalls
  <2> QED
    BY <2>1, <2>2
<1>3. /\ pipe' = AfterClosing(ends) /\ Wake(W)
      /\ fds' = [fds EXCEPT ![nowRunning][fd] = Closed]
  BY Zenon DEF CloseFd
<1>4. ends \in SUBSET EndsOf({p \in Process : Live(p)})
  <2>1. Live(nowRunning)
    BY <1>2, Zenon DEF Live, Alive
  <2>2. fds[nowRunning][fd].fileID \in File /\ fds[nowRunning][fd].mode # "N"
    BY Zenon DEF CloseFd, Exists
  <2>3. \A x \in File : x > STDERR
    BY PipeAssumption DEF File, STDERR
  <2>4. fds[nowRunning][fd].fileID > STDERR
    BY <2>2, <2>3, Zenon
  <2>5. \A e \in ends : e[1] = nowRunning /\ e[2] = fd
    OBVIOUS
  <2>6. ends \subseteq Process \X Fd
    BY <1>2
  <2> HIDE DEF ends
  <2> QED
    BY <2>1, <2>2, <2>4, <2>5, <2>6 DEF EndsOf
<1>5. \A p \in W : state[p] = "BLOCKED"
  BY DEF ReadersAtEnd, BlockedFor, IsBlockedFor
<1> HIDE DEF W
<1>6. \A p \in Process : Alive(state', p) <=> Alive(state, p)
  BY <1>3, <1>5, WakeEffect DEF PipesKept, PipeInv, TypeOK, Alive
<1>7. Closed.fileID <= STDERR /\ ~(Closed.fileID > STDERR)
  BY DEF Closed, EMPTY, STDERR
<1>8. \A p \in Process, d \in Fd : fds'[p][d].fileID > STDERR =>
          fds'[p][d] = fds[p][d] /\ ~(p = nowRunning /\ d = fd)
  <2>1. fds \in [Process -> [Fd -> fileDescriptor]]
    BY DEF PipesKept, PipeInv, TypeOK
  <2>2. \A p \in Process, d \in Fd :
            fds'[p][d] = IF p = nowRunning /\ d = fd THEN Closed ELSE fds[p][d]
    BY <1>2, <1>3, <2>1
  <2> QED
    BY <1>7, <2>2
<1>9. \A p \in Process, d \in Fd : ~(p = nowRunning /\ d = fd) => <<p, d>> \notin ends
  OBVIOUS
<1> HIDE DEF ends
<1>10. EndsOnPipes(state', fds', pipe') /\ Numbered(pipe') /\ NamesGo(pipe')
  BY <1>3, <1>4, <1>6, <1>8, <1>9, ClosingKeeps
<1> QED
  BY <1>1, <1>6, <1>10 DEF PipesKept

LEMMA MkpipeKeeps ==
    ASSUME PipesKept, MemoryLasts, NEW n \in Name, n = fileIdToGive - STDERR, Mkpipe(n)
    PROVE  PipesKept' /\ fileIdToGive \in File
<1>1. PipeInv'
  BY MkpipeStep DEF PipesKept
<1>2. fileIdToGive \in File
  BY PipeAssumption DEF PipesKept, PipeInv, TypeOK, Mkpipe, File, STDERR
<1> DEFINE new == [NoPipe EXCEPT !.name = n]
<1>3. pipe' = [pipe EXCEPT ![fileIdToGive] = new]
  BY DEF Mkpipe, MemoryLasts, Asks
<1>4. new.name = n /\ n # NoName
  BY PipeAssumption DEF NoPipe
<1> HIDE DEF new
<1>5. pipe \in [File -> pipeFile]
  BY DEF PipesKept, PipeInv, TypeOK
<1>6. \A f \in File : pipe'[f].name = IF f = fileIdToGive THEN n ELSE pipe[f].name
  BY <1>2, <1>3, <1>4, <1>5
<1>7. state' = state /\ fds' = fds
  BY DEF Mkpipe, processVars
<1>8. EndsOnPipes(state', fds', pipe')
  BY <1>4, <1>6, <1>7 DEF PipesKept, EndsOnPipes
<1>9. Numbered(pipe')
  BY <1>6 DEF PipesKept, Numbered
<1> QED
  BY <1>1, <1>2, <1>8, <1>9 DEF PipesKept

\* The pipe of a name.
LEMMA PipeNamed ==
    ASSUME PipesKept, NEW n \in Name, FileNamed(n) # EMPTY
    PROVE  /\ FileNamed(n) \in File /\ Exists(FileNamed(n))
           /\ n = FileNamed(n) - STDERR
<1> DEFINE named == {g \in File : pipe[g].name = n}
<1>1. named \in SUBSET Nat /\ named # {} /\ \A g \in named : g <= MaxFileId
  BY PipeAssumption DEF FileNamed, File, STDERR
<1>2. Max(named) \in named
  BY <1>1, PipeAssumption, MaxProperties
<1>3. FileNamed(n) = Max(named)
  BY <1>1 DEF FileNamed
<1>4. FileNamed(n) \in File /\ pipe[FileNamed(n)].name = n /\ n # NoName
  BY <1>2, <1>3, PipeAssumption
<1> QED
  BY <1>4 DEF PipesKept, Numbered, Exists

\* open gives the fourth descriptor when it is free.
LEMMA OpenKeeps ==
    ASSUME PipesKept, DeadMakeNoCalls, NEW n \in Name, NEW mode \in {"R", "W"}, Open(n, mode),
           fds[nowRunning][4].fileID = EMPTY
    PROVE  /\ PipesKept' /\ Min(FreeFds) = 4
           /\ FileNamed(n) \in File /\ n = FileNamed(n) - STDERR
           /\ fds' = [fds EXCEPT ![nowRunning][4] = [fileID |-> FileNamed(n), mode |-> mode]]
           /\ \A f \in File : pipe'[f].name = pipe[f].name
<1> DEFINE f == FileNamed(n)
           added == [fileID |-> f, mode |-> mode]
<1>1. PipeInv'
  BY OpenStep DEF PipesKept
<1>2. f \in File /\ Exists(f) /\ n = f - STDERR
  BY PipeNamed DEF Open
<1>3. Min(FreeFds) = 4
  <2>1. 4 \in FreeFds /\ FreeFds \in SUBSET Nat /\ \A fd \in FreeFds : 4 <= fd
    BY PipeAssumption DEF FreeFds
  <2>2. Min(FreeFds) \in FreeFds /\ \A fd \in FreeFds : Min(FreeFds) <= fd
    BY <2>1, MinProperties
  <2>3. Min(FreeFds) \in Nat
    BY <2>1, <2>2
  <2> QED
    BY <2>1, <2>2, <2>3
<1>4. /\ fds' = [fds EXCEPT ![nowRunning][4] = added] /\ pipe' = Opened(f, mode)
      /\ state' = state
  BY <1>3 DEF Open, processVars
<1> HIDE DEF f
<1>5. \A g \in File : pipe'[g].name = pipe[g].name
  BY <1>2, <1>4, OpenedEffect DEF PipesKept
<1>6. EndsOnPipes(state', fds', pipe')
  <2>1. fds \in [Process -> [Fd -> fileDescriptor]] /\ added.fileID = f
    BY DEF PipesKept, PipeInv, TypeOK
  <2> HIDE DEF added
  <2>2. ASSUME NEW p \in Process, NEW fd \in Fd, Alive(state', p), fds'[p][fd].fileID > STDERR
        PROVE  fds'[p][fd].fileID \in File /\ pipe'[fds'[p][fd].fileID].name # NoName
    <3>1. CASE fds'[p][fd] = added
      BY <1>2, <1>5, <2>1, <3>1 DEF Exists
    <3>2. CASE fds'[p][fd] = fds[p][fd]
      BY <1>4, <1>5, <2>2, <3>2 DEF PipesKept, EndsOnPipes
    <3> QED
      BY <1>4, <2>1, <3>1, <3>2
  <2> QED
    BY <2>2 DEF EndsOnPipes
<1>7. Numbered(pipe')
  BY <1>5 DEF PipesKept, Numbered
<1> QED
  BY <1>1, <1>2, <1>3, <1>4, <1>5, <1>6, <1>7 DEF PipesKept, f

LEMMA DupKeeps ==
    ASSUME PipesKept, DeadMakeNoCalls, NEW fromFd \in Fd, NEW toFd \in 0 .. STDERR,
           fds[nowRunning][toFd].fileID <= STDERR, Dup2(fromFd, toFd)
    PROVE  /\ PipesKept'
           /\ \A f \in File : pipe'[f].name = pipe[f].name
<1> DEFINE from == fds[nowRunning][fromFd]
<1>1. PipeInv'
  BY Dup2Step DEF PipesKept
<1>2. nowRunning \in Process /\ Alive(state, nowRunning) /\ toFd \in Fd
  BY PipeAssumption DEF PipesKept, PipeInv, TypeOK, ProcessTypeOK, Alive, Dup2, InUserCode, Asks,
         DeadMakeNoCalls, Fd, STDERR
<1>3. /\ fds' = [fds EXCEPT ![nowRunning][toFd] = from]
      /\ pipe' = IF Exists(from.fileID) THEN Opened(from.fileID, from.mode) ELSE pipe
      /\ state' = state
  BY DEF Dup2, processVars
<1>4. \A g \in File : pipe'[g].name = pipe[g].name
  BY <1>3, OpenedEffect DEF PipesKept, Exists
<1>5. EndsOnPipes(state', fds', pipe')
  <2>1. fds \in [Process -> [Fd -> fileDescriptor]]
    BY DEF PipesKept, PipeInv, TypeOK
  <2>2. ASSUME NEW p \in Process, NEW fd \in Fd, Alive(state', p), fds'[p][fd].fileID > STDERR
        PROVE  fds'[p][fd].fileID \in File /\ pipe'[fds'[p][fd].fileID].name # NoName
    <3>1. PICK d \in Fd : fds'[p][fd] = fds[p][d]
      <4>1. fds'[p][fd] = IF p = nowRunning /\ fd = toFd THEN fds[p][fromFd] ELSE fds[p][fd]
        BY <1>2, <1>3, <2>1
      <4> QED
        BY <4>1
    <3> QED
      BY <1>3, <1>4, <2>2, <3>1 DEF PipesKept, EndsOnPipes
  <2> QED
    BY <2>2 DEF EndsOnPipes
<1>6. Numbered(pipe')
  BY <1>4 DEF PipesKept, Numbered
<1> QED
  BY <1>1, <1>4, <1>5, <1>6 DEF PipesKept

LEMMA RevertKeeps ==
    ASSUME PipesKept, DeadMakeNoCalls, RevertFdReplacements, Replaced \subseteq {0, 1}
    PROVE  /\ PipesKept'
           /\ \A f \in File : pipe'[f].name = pipe[f].name
<1> DEFINE ends == EndsOf({nowRunning}) \cap ({nowRunning} \X Replaced)
<1>1. PipeInv'
  BY RevertStep DEF PipesKept
<1>2. nowRunning \in Process /\ Live(nowRunning)
  BY DEF PipesKept, PipeInv, TypeOK, ProcessTypeOK, Live, RevertFdReplacements, InUserCode, Asks,
         DeadMakeNoCalls
<1>3. /\ pipe' = Discounted(ends)
      /\ fds' = [fds EXCEPT ![nowRunning] =
                    [fd \in Fd |-> IF fd \in Replaced
                                   THEN [fileID |-> fd, mode |-> OldestMode(fd)]
                                   ELSE fds[nowRunning][fd]]]
      /\ state' = state
  BY DEF RevertFdReplacements, processVars
<1>4. ends \in SUBSET EndsOf({p \in Process : Live(p)})
  BY <1>2 DEF EndsOf
<1> HIDE DEF ends
<1>5. \A g \in File : pipe'[g].name = pipe[g].name
  BY <1>3, <1>4, DiscountEffect DEF PipesKept
<1>6. EndsOnPipes(state', fds', pipe')
  <2>1. fds \in [Process -> [Fd -> fileDescriptor]]
    BY DEF PipesKept, PipeInv, TypeOK
  <2>2. ASSUME NEW p \in Process, NEW fd \in Fd, fds'[p][fd].fileID > STDERR
        PROVE  fds'[p][fd] = fds[p][fd]
    <3>1. CASE p = nowRunning /\ fd \in Replaced
      <4>1. fds'[p][fd].fileID = fd
        BY <1>2, <1>3, <2>1, <3>1
      <4>2. fd = 0 \/ fd = 1
        BY <3>1
      <4> QED
        BY <2>2, <4>1, <4>2 DEF STDERR
    <3>2. CASE ~(p = nowRunning /\ fd \in Replaced)
      BY <1>2, <1>3, <2>1, <3>2
    <3> QED
      BY <3>1, <3>2
  <2> QED
    BY <1>3, <1>5, <2>2 DEF PipesKept, EndsOnPipes
<1>7. Numbered(pipe')
  BY <1>5 DEF PipesKept, Numbered
<1> QED
  BY <1>1, <1>5, <1>6, <1>7 DEF PipesKept

LEMMA StartKeeps ==
    ASSUME PipesKept, DeadMakeNoCalls, NEW p \in Process, Start(p, fds[nowRunning])
    PROVE  /\ PipesKept' /\ \A f \in File : pipe'[f].name = pipe[f].name
           /\ fds' = [fds EXCEPT ![p] = fds[nowRunning]]
           /\ state' = [state EXCEPT ![p] = "READY"] /\ state[p] = "NONE"
<1>1. nowRunning \in Process /\ Alive(state, nowRunning)
  BY DEF PipesKept, PipeInv, TypeOK, ProcessTypeOK, Alive, Start, InUserCode, Asks,
         DeadMakeNoCalls
<1>2. /\ state[p] = "NONE" /\ state' = [state EXCEPT ![p] = "READY"]
      /\ fds' = [fds EXCEPT ![p] = fds[nowRunning]]
  BY DEF Start
<1>3. /\ fds \in [Process -> [Fd -> fileDescriptor]]
      /\ state \in [Process -> {"NONE", "READY", "BLOCKED", "FINISHED"}]
  BY DEF PipesKept, PipeInv, TypeOK, ProcessTypeOK
<1>4. PipeInv' /\ \A f \in File : pipe'[f].name = pipe[f].name
  <2>1. fds[nowRunning] \in [Fd -> fileDescriptor]
    BY <1>1, <1>3
  <2>2. \A fd \in Fd :
            /\ fds[nowRunning][fd].fileID < fileIdToGive
            /\ fds[nowRunning][fd].mode = "N" => fds[nowRunning][fd].fileID <= STDERR
    BY <1>1 DEF PipesKept, PipeInv, KnownFiles
  <2>3. PipeInv
    BY DEF PipesKept
  <2> DEFINE table == fds[nowRunning]
  <2>4. Start(p, table) /\ table \in [Fd -> fileDescriptor]
    BY <2>1
  <2> HIDE DEF table
  <2>5. \A fd \in Fd : /\ table[fd].fileID < fileIdToGive
                       /\ table[fd].mode = "N" => table[fd].fileID <= STDERR
    BY <2>2 DEF table
  <2> QED
    BY <2>3, <2>4, <2>5, StartEffect
<1>5. EndsOnPipes(state', fds', pipe')
  <2>1. ASSUME NEW q \in Process, NEW fd \in Fd, Alive(state', q), fds'[q][fd].fileID > STDERR
        PROVE  fds'[q][fd].fileID \in File /\ pipe'[fds'[q][fd].fileID].name # NoName
    <3>1. PICK r \in Process : Alive(state, r) /\ fds'[q][fd] = fds[r][fd]
      <4>1. q = p => fds'[q][fd] = fds[nowRunning][fd]
        BY <1>2, <1>3
      <4>2. q # p => fds'[q][fd] = fds[q][fd] /\ state'[q] = state[q]
        BY <1>2, <1>3
      <4> QED
        BY <1>1, <2>1, <4>1, <4>2 DEF Alive
    <3> QED
      BY <1>4, <2>1, <3>1 DEF PipesKept, EndsOnPipes
  <2> QED
    BY <2>1 DEF EndsOnPipes
<1>6. Numbered(pipe')
  BY <1>4 DEF PipesKept, Numbered
<1> QED
  BY <1>2, <1>4, <1>5, <1>6 DEF PipesKept

-----------------------------------------------------------------------------
(* The shell's own descriptors at each of its steps.  The end it has       *)
(* opened is the fourth, until it stands in for a standard file and the    *)
(* fourth is closed again.                                                 *)

Steps == {"prompt", "mkpipe", "openW", "openR", "killLeft", "dupIn", "closeIn", "dupOut",
          "closeOut", "start", "revert", "waitLeft", "waitRight"}

\* The program that is started does not keep the shell's input.
StdinGoes(s, ln) == s = "right" \/ "left" \in ln.back

StepFits(stp, s, ln, next) ==
    /\ stp \in Steps /\ s \in {"left", "right"} /\ ln.piped \in BOOLEAN
    /\ stp \in {"mkpipe", "openW", "openR", "killLeft", "dupOut", "closeOut"} =>
          ln.piped /\ s = "left"
    /\ stp # "prompt" /\ s = "right" => ln.piped
    /\ stp \in {"dupIn", "closeIn"} => StdinGoes(s, ln)
    /\ ln.piped /\ stp \notin {"prompt", "mkpipe"} => next - 1 \in File

PipeEnd(next, m) == [fileID |-> next - 1, mode |-> m]

StdinOf(stp, s, ln, next) ==
    IF stp \in {"closeIn", "dupOut", "closeOut", "start", "revert"} /\ StdinGoes(s, ln)
    THEN IF s = "right" THEN PipeEnd(next, "R") ELSE Closed
    ELSE DefaultFds[0]

StdoutOf(stp, s, ln, next) ==
    IF stp \in {"closeOut", "start", "revert"} /\ ln.piped /\ s = "left"
    THEN PipeEnd(next, "W") ELSE DefaultFds[1]

FourthOf(stp, s, ln, next) ==
    IF stp \in {"dupIn", "closeIn"} /\ s = "right" THEN PipeEnd(next, "R")
    ELSE IF stp \in {"dupIn", "closeIn", "dupOut", "closeOut"} /\ ln.piped /\ s = "left"
    THEN PipeEnd(next, "W") ELSE Closed

TableIs(t, in, out, fourth) ==
    \A fd \in Fd : t[fd] = IF fd = 0 THEN in ELSE IF fd = 1 THEN out
                           ELSE IF fd = 4 THEN fourth ELSE DefaultFds[fd]

StdinLost == [index |-> 0, lostMode |-> "R"]
StdoutLost == [index |-> 1, lostMode |-> "W"]

\* A standard descriptor is among the replaced ones when it is not what it was.
LostFit(t, lost) ==
    /\ \A i \in DOMAIN lost : lost[i] \in {StdinLost, StdoutLost}
    /\ \A fd \in {0, 1} : (\E i \in DOMAIN lost : lost[i].index = fd) <=> t[fd] # DefaultFds[fd]

TableFits(stp, s, ln, next, e, t, lost) ==
    /\ TableIs(t, StdinOf(stp, s, ln, next), StdoutOf(stp, s, ln, next),
               FourthOf(stp, s, ln, next))
    /\ LostFit(t, lost)
    /\ FourthOf(stp, s, ln, next) # Closed => e = 4

LEMMA StandardFiles ==
    /\ {0, 1, 2, 3, 4} \subseteq Fd
    /\ DefaultFds[0] = [fileID |-> 0, mode |-> "R"] /\ DefaultFds[1] = [fileID |-> 1, mode |-> "W"]
    /\ DefaultFds[3] = Closed /\ DefaultFds[4] = Closed
    /\ DefaultFds \in [Fd -> fileDescriptor] /\ Closed \in fileDescriptor
    /\ \A fd \in Fd : DefaultFds[fd].fileID <= STDERR
    /\ Closed.fileID = EMPTY /\ Closed # DefaultFds[0] /\ Closed.mode = "N"
<1>1. {0, 1, 2, 3, 4} \subseteq Fd
  BY PipeAssumption DEF Fd
<1>2. DefaultFds[0] = [fileID |-> 0, mode |-> "R"] /\ DefaultFds[1] = [fileID |-> 1, mode |-> "W"]
  <2>1. \A fd \in Fd : /\ fd = 0 => DefaultFds[fd] = [fileID |-> 0, mode |-> "R"]
                       /\ fd \in {1, 2} => DefaultFds[fd] = [fileID |-> fd, mode |-> "W"]
    BY DEF DefaultFds
  <2> QED
    BY <1>1, <2>1
<1>3. DefaultFds[3] = Closed /\ DefaultFds[4] = Closed
  <2>1. \A fd \in Fd : fd \notin {0, 1, 2} => DefaultFds[fd] = Closed
    BY DEF DefaultFds
  <2> QED
    BY <1>1, <2>1
<1>4. Closed \in fileDescriptor /\ Closed.fileID = EMPTY /\ Closed.mode = "N" /\ EMPTY # 0
  BY DEF Closed, fileDescriptor, EMPTY
<1>5. Closed # DefaultFds[0]
  BY <1>2, <1>4
<1> QED
  BY <1>1, <1>2, <1>3, <1>4, <1>5, DefaultTable

LEMMA PipeEndIs ==
    ASSUME NEW next, next - 1 \in File, NEW m
    PROVE  /\ PipeEnd(next, m).fileID = next - 1 /\ PipeEnd(next, m).mode = m
           /\ PipeEnd(next, m).fileID > STDERR
           /\ PipeEnd(next, m) # DefaultFds[0] /\ PipeEnd(next, m) # DefaultFds[1]
           /\ PipeEnd(next, m) # Closed
<1>1. PipeEnd(next, m).fileID = next - 1 /\ PipeEnd(next, m).mode = m
  BY DEF PipeEnd
<1>2. next - 1 > STDERR /\ next - 1 \in Int
  BY PipeAssumption DEF File, STDERR
<1>3. DefaultFds[0].fileID = 0 /\ DefaultFds[1].fileID = 1 /\ Closed.fileID = EMPTY
  BY StandardFiles
<1>4. next - 1 # 0 /\ next - 1 # 1 /\ next - 1 # EMPTY
  BY <1>2 DEF EMPTY, STDERR
<1> QED
  BY <1>1, <1>2, <1>3, <1>4

\* The steps at which the shell has its own descriptors.
AtRest == {"prompt", "mkpipe", "openW", "openR", "killLeft", "waitLeft", "waitRight"}

LEMMA RestTable ==
    ASSUME NEW stp \in AtRest, NEW s, NEW ln, NEW next
    PROVE  /\ StdinOf(stp, s, ln, next) = DefaultFds[0]
           /\ StdoutOf(stp, s, ln, next) = DefaultFds[1]
           /\ FourthOf(stp, s, ln, next) = Closed
BY DEF AtRest, StdinOf, StdoutOf, FourthOf

\* The shell's descriptors are its own exactly when nothing is replaced or open.
LEMMA OwnTable ==
    ASSUME NEW t \in [Fd -> fileDescriptor], NEW lost \in Seq(fdReplacement), LostFit(t, lost),
           TableIs(t, DefaultFds[0], DefaultFds[1], Closed)
    PROVE  t = DefaultFds /\ lost = <<>>
<1>1. \A fd \in Fd : t[fd] = DefaultFds[fd]
  BY StandardFiles DEF TableIs
<1>2. t = DefaultFds
  BY <1>1, StandardFiles
<1>3. \A i \in DOMAIN lost : lost[i].index \in {0, 1}
  BY DEF LostFit, StdinLost, StdoutLost
<1>4. DOMAIN lost = {}
  BY <1>1, <1>3, StandardFiles DEF LostFit
<1>5. Len(lost) = 0
  BY <1>4
<1> QED
  BY <1>2, <1>5

\* An end is opened, or closed again.
LEMMA FourthTable ==
    ASSUME NEW t \in [Fd -> fileDescriptor], NEW lost, NEW in, NEW out, NEW fourth,
           TableIs(t, in, out, fourth), LostFit(t, lost), NEW d
    PROVE  /\ TableIs([t EXCEPT ![4] = d], in, out, d)
           /\ LostFit([t EXCEPT ![4] = d], lost)
<1> DEFINE t2 == [t EXCEPT ![4] = d]
<1>1. 4 \in Fd /\ 0 \in Fd /\ 1 \in Fd
  BY StandardFiles
<1>2. \A fd \in Fd : t2[fd] = IF fd = 4 THEN d ELSE t[fd]
  OBVIOUS
<1> HIDE DEF t2
<1>3. TableIs(t2, in, out, d)
  BY <1>2 DEF TableIs
<1>4. t2[0] = t[0] /\ t2[1] = t[1]
  BY <1>1, <1>2
<1>5. LostFit(t2, lost)
  <2>1. \A fd \in {0, 1} : t2[fd] = t[fd]
    BY <1>4
  <2> QED
    BY <2>1 DEF LostFit
<1> QED
  BY <1>3, <1>5 DEF t2

\* A standard descriptor is replaced.
LEMMA LostOnceMore ==
    ASSUME NEW t \in [Fd -> fileDescriptor], NEW lost \in Seq(fdReplacement), LostFit(t, lost),
           NEW k \in {0, 1}, NEW d, d # DefaultFds[k],
           NEW one, one.index = k, one \in {StdinLost, StdoutLost}, one \in fdReplacement
    PROVE  LostFit([t EXCEPT ![k] = d], <<one>> \o lost)
<1> DEFINE t2 == [t EXCEPT ![k] = d]
           more == <<one>> \o lost
<1>1. 0 \in Fd /\ 1 \in Fd
  BY StandardFiles
<1>2. t2[k] = d /\ \A fd \in {0, 1} : fd # k => t2[fd] = t[fd]
  BY <1>1
<1>3. /\ Len(lost) \in Nat /\ DOMAIN lost = 1 .. Len(lost)
      /\ DOMAIN more = 1 .. Len(lost) + 1
      /\ more[1] = one /\ \A i \in 1 .. Len(lost) : more[i + 1] = lost[i]
  <2>1. <<one>> \in Seq(fdReplacement) /\ Len(<<one>>) = 1 /\ <<one>>[1] = one
    OBVIOUS
  <2> QED
    BY <2>1
<1> HIDE DEF t2, more
<1>4. \A i \in DOMAIN more : more[i] = one \/ \E j \in DOMAIN lost : more[i] = lost[j]
  <2> TAKE i \in DOMAIN more
  <2>1. CASE i = 1
    BY <1>3, <2>1
  <2>2. CASE i # 1
    <3>1. i - 1 \in 1 .. Len(lost) /\ (i - 1) + 1 = i
      BY <1>3, <2>2
    <3> QED
      BY <1>3, <3>1
  <2> QED
    BY <2>1, <2>2
<1>5. \A j \in DOMAIN lost : \E i \in DOMAIN more : more[i] = lost[j]
  <2> TAKE j \in DOMAIN lost
  <2>1. j + 1 \in DOMAIN more /\ more[j + 1] = lost[j]
    BY <1>3
  <2> QED
    BY <2>1
<1>6. 1 \in DOMAIN more
  BY <1>3
<1>7. \A i \in DOMAIN more : more[i] \in {StdinLost, StdoutLost}
  BY <1>4 DEF LostFit
<1>8. ASSUME NEW fd \in {0, 1}
      PROVE  (\E i \in DOMAIN more : more[i].index = fd) <=> t2[fd] # DefaultFds[fd]
  <2>1. CASE fd = k
    BY <1>2, <1>3, <1>6, <2>1
  <2>2. CASE fd # k
    <3>1. (\E i \in DOMAIN more : more[i].index = fd) <=> \E j \in DOMAIN lost : lost[j].index = fd
      BY <1>4, <1>5, <2>2
    <3> QED
      BY <1>2, <2>2, <3>1 DEF LostFit
  <2> QED
    BY <2>1, <2>2
<1> QED
  BY <1>7, <1>8 DEF LostFit, t2, more

LEMMA StandardTable ==
    ASSUME NEW t \in [Fd -> fileDescriptor], NEW in, NEW out, NEW fourth, NEW d,
           TableIs(t, in, out, fourth)
    PROVE  /\ TableIs([t EXCEPT ![0] = d], d, out, fourth)
           /\ TableIs([t EXCEPT ![1] = d], in, d, fourth)
<1>1. 0 \in Fd /\ 1 \in Fd
  BY StandardFiles
<1> QED
  BY <1>1 DEF TableIs

\* What revertFdReplacements makes of the table.
LostIndices(lost) == {lost[i].index : i \in DOMAIN lost}

OldestLost(lost, fd) == lost[Max({i \in DOMAIN lost : lost[i].index = fd})].lostMode

LEMMA RevertedTable ==
    ASSUME NEW t \in [Fd -> fileDescriptor], NEW lost \in Seq(fdReplacement), LostFit(t, lost),
           NEW in, NEW out, TableIs(t, in, out, Closed)
    PROVE  /\ LostIndices(lost) \subseteq {0, 1}
           /\ \A fd \in Fd : DefaultFds[fd] =
                 IF fd \in LostIndices(lost)
                 THEN [fileID |-> fd, mode |-> OldestLost(lost, fd)] ELSE t[fd]
<1>1. \A i \in DOMAIN lost : lost[i] \in {StdinLost, StdoutLost}
  BY DEF LostFit
<1>2. LostIndices(lost) \subseteq {0, 1}
  BY <1>1 DEF LostIndices, StdinLost, StdoutLost
<1>3. ASSUME NEW fd \in LostIndices(lost)
      PROVE  OldestLost(lost, fd) = IF fd = 0 THEN "R" ELSE "W"
  <2> DEFINE I == {i \in DOMAIN lost : lost[i].index = fd}
  <2>1. I \in SUBSET Nat /\ I # {} /\ Len(lost) \in Nat /\ \A i \in I : i <= Len(lost)
    BY DEF LostIndices
  <2>2. Max(I) \in I
    <3> HIDE DEF I
    <3> QED
      BY <2>1, MaxProperties
  <2>3. lost[Max(I)] \in {StdinLost, StdoutLost} /\ lost[Max(I)].index = fd
    BY <1>1, <2>2
  <2>4. OldestLost(lost, fd) = lost[Max(I)].lostMode
    BY DEF OldestLost
  <2> HIDE DEF I
  <2> QED
    BY <2>3, <2>4 DEF StdinLost, StdoutLost
<1>4. ASSUME NEW fd \in Fd
      PROVE  DefaultFds[fd] = IF fd \in LostIndices(lost)
                              THEN [fileID |-> fd, mode |-> OldestLost(lost, fd)] ELSE t[fd]
  <2>1. CASE fd \in LostIndices(lost)
    <3>1. fd = 0 \/ fd = 1
      BY <1>2, <2>1
    <3> QED
      BY <1>3, <2>1, <3>1, StandardFiles
  <2>2. CASE fd \notin LostIndices(lost) /\ fd \in {0, 1}
    BY <2>2 DEF LostFit, LostIndices
  <2>3. CASE fd \notin LostIndices(lost) /\ fd \notin {0, 1}
    BY <2>3, StandardFiles DEF TableIs
  <2> QED
    BY <2>1, <2>2, <2>3
<1> QED
  BY <1>2, <1>4

-----------------------------------------------------------------------------
(* The inductive invariant.                                                *)

\* The shell is READY between its calls: it never sleeps in one, and nobody kills it.
ShellAwake == state[Shell] = "READY" /\ call[Shell] = NoCall

JobsFit ==
    /\ job \in [{"left", "right"} -> (Process \ {Shell}) \cup {NoProcess}]
    /\ role \in [Process -> {"none", "source", "sink"}] /\ role[Shell] = "none"
    /\ background \subseteq Process \ {Shell}

\* While the shell may still kill the left program, dead or alive, that program's only
\* pipe is the newest.
LeftEnds ==
    step \in {"revert", "openR", "killLeft"} /\ line.piped /\ side = "left"
      /\ job["left"] \in Process =>
        \A fd \in Fd : \/ fds[job["left"]][fd].fileID <= STDERR
                       \/ fds[job["left"]][fd].fileID = fileIdToGive - 1

\* The shell kills it because the pipe is gone.
PipeGone == step = "killLeft" => pipe[fileIdToGive - 1].name = NoName

\* OnlyTheirOwnEnds, said of each descriptor.
OwnEnds(st, table, roles) ==
    \A p \in Process \ {InitPid, Shell}, fd \in Fd :
        Alive(st, p) /\ table[p][fd].fileID > STDERR =>
            \/ roles[p] = "source" /\ fd = 1 /\ table[p][fd].mode = "W"
            \/ roles[p] = "sink" /\ fd = 0 /\ table[p][fd].mode = "R"

ShellInv ==
    /\ PipesKept /\ pipesCreated = fileIdToGive - STDERR
    /\ ShellAwake /\ JobsFit
    /\ StepFits(step, side, line, fileIdToGive)
    /\ TableFits(step, side, line, fileIdToGive, end, fds[Shell], fdReplacements[Shell])
    /\ LeftEnds /\ PipeGone /\ OwnEnds(state, fds, role)

-----------------------------------------------------------------------------
(* What the others do between two of its steps.                            *)

\* The shell and its descriptors stay, programs may end and pipes with them.
LEMMA MeanwhileStep ==
    ASSUME ShellInv, PipesKept', ShellAwake', JobsFit', NamesGo(pipe'),
           UNCHANGED <<fds, fdReplacements, fileIdToGive, step, line, side, end, pipesCreated>>,
           \A p \in Process : Alive(state', p) => Alive(state, p) /\ role'[p] = role[p],
           job'["left"] \in {job["left"], NoProcess}
    PROVE  ShellInv'
<1>1. /\ (pipesCreated = fileIdToGive - STDERR)'
      /\ StepFits(step, side, line, fileIdToGive)'
      /\ TableFits(step, side, line, fileIdToGive, end, fds[Shell], fdReplacements[Shell])'
  BY DEF ShellInv
<1>2. LeftEnds'
  BY BizcochoAssumption DEF ShellInv, LeftEnds
<1>3. PipeGone'
  <2>1. step = "killLeft" => fileIdToGive - 1 \in File
    BY DEF ShellInv, StepFits
  <2> QED
    BY <2>1 DEF ShellInv, PipeGone, NamesGo
<1>4. OwnEnds(state', fds', role')
  BY DEF ShellInv, OwnEnds
<1> QED
  BY <1>1, <1>2, <1>3, <1>4 DEF ShellInv

LEMMA ShellStays ==
    ASSUME ShellInv, NEW W, \A p \in W : state[p] = "BLOCKED", NEW K, Shell \notin K, Change(W, K)
    PROVE  state'[Shell] = "READY"
<1>1. Shell \in Process /\ state[Shell] = "READY"
  BY BizcochoAssumption DEF ShellInv, ShellAwake
<1>2. \A p \in Process : p \notin W \cup K => state'[p] = state[p]
  BY DEF Change
<1> QED
  BY <1>1, <1>2

\* Programs are killed, or end.
LEMMA ProgramsEnd ==
    ASSUME ShellInv, NEW K \in SUBSET Process, \A p \in K : Live(p), Shell \notin K, Kill(K),
           nowRunning' \in Process, UNCHANGED shellVars
    PROVE  ShellInv'
<1>1. /\ PipesKept' /\ NamesGo(pipe')
      /\ \A p \in Process : Alive(state', p) => Alive(state, p)
  BY KillKeeps DEF ShellInv
<1>2. state'[Shell] = "READY"
  <2> DEFINE W == ReadersAtEnd(EndsOf(K))
  <2>1. (\A p \in W : state[p] = "BLOCKED") /\ Change(W, K)
    BY DEF Kill, ReadersAtEnd, BlockedFor, IsBlockedFor
  <2> HIDE DEF W
  <2> QED
    BY <2>1, ShellStays
<1>3. UNCHANGED <<fds, fdReplacements, fileIdToGive, call>>
  BY DEF Kill
<1>4. ShellAwake' /\ JobsFit'
  BY <1>2, <1>3 DEF ShellInv, ShellAwake, JobsFit, shellVars
<1> QED
  BY <1>1, <1>3, <1>4, MeanwhileStep DEF shellVars

\* Characters go into a pipe or out of it.
LEMMA DataMoves ==
    ASSUME ShellInv, nowRunning # Shell, NEW f \in File, UNCHANGED shellVars,
           \/ \E s \in Seq(Char), sure \in Nat : WriteOn(f, s, sure)
           \/ \E n \in Nat : ReadOn(f, n)
    PROVE  ShellInv'
<1>0. PipeInv /\ ProcessTypeOK /\ nowRunning \in Process /\ Shell \in Process
  BY BizcochoAssumption DEF ShellInv, PipesKept, PipeInv, TypeOK, ProcessTypeOK
<1>1. PipeInv' /\ SameEnds(pipe')
  BY <1>0, WriteOnStep, ReadOnStep
<1>2. /\ UNCHANGED <<fds, fdReplacements, fileIdToGive>>
      /\ \E c : call' = [call EXCEPT ![nowRunning] = c]
      /\ \/ \E W : (\A p \in W : state[p] = "BLOCKED") /\ Wake(W)
         \/ \E reason : MayBlock /\ BlockRunning(reason)
         \/ UNCHANGED processVars
  <2>1. ASSUME NEW s \in Seq(Char), NEW sure \in Nat, WriteOn(f, s, sure)
        PROVE  <1>2
    <3>1. /\ UNCHANGED <<fds, fdReplacements, fileIdToGive>>
          /\ \E c : call' = [call EXCEPT ![nowRunning] = c]
      BY <2>1 DEF WriteOn
    <3>2. \/ WakeReaders(f)
          \/ MayBlock /\ BlockRunning(WriteReason(f))
      <4> DEFINE k == IF MayBlock THEN Min({Len(s), sure + Fits(Pending(f) + sure)}) ELSE Len(s)
      <4>1. WakeReaders(f) \/ (k < Len(s) /\ BlockRunning(WriteReason(f)))
        BY <2>1 DEF WriteOn
      <4>2. k < Len(s) => MayBlock
        OBVIOUS
      <4> QED
        BY <4>1, <4>2
    <3> QED
      BY <3>1, <3>2 DEF WakeReaders, BlockedFor, IsBlockedFor
  <2>2. ASSUME NEW n \in Nat, ReadOn(f, n)
        PROVE  <1>2
    <3>1. /\ UNCHANGED <<fds, fdReplacements, fileIdToGive>>
          /\ \E c : call' = [call EXCEPT ![nowRunning] = c]
      BY <2>2 DEF ReadOn
    <3>2. \/ WakeWriters(f)
          \/ MayBlock /\ BlockRunning(ReadReason(f))
          \/ UNCHANGED processVars
      BY <2>2 DEF ReadOn
    <3> QED
      BY <3>1, <3>2 DEF WakeWriters, BlockedFor, IsBlockedFor
  <2> QED
    BY <2>1, <2>2
<1>3. state'[Shell] = "READY" /\ \A p \in Process : Alive(state', p) <=> Alive(state, p)
  <2>1. ASSUME NEW W, \A p \in W : state[p] = "BLOCKED", Wake(W)
        PROVE  <1>3
    <3>1. Change(W, {})
      BY <2>1 DEF Wake
    <3>2. state'[Shell] = "READY"
      BY <2>1, <3>1, ShellStays
    <3> QED
      BY <1>0, <2>1, <3>2, WakeEffect DEF Alive
  <2>2. ASSUME NEW reason, MayBlock, BlockRunning(reason)
        PROVE  <1>3
    <3>1. state'[Shell] = "READY"
      BY <1>0, <2>2 DEF BlockRunning, ProcessTypeOK, ShellInv, ShellAwake
    <3> QED
      BY <1>0, <2>2, <3>1, BlockEffect DEF Alive
  <2>3. CASE UNCHANGED processVars
    BY <2>3 DEF processVars, ShellInv, ShellAwake
  <2> QED
    BY <1>2, <2>1, <2>2, <2>3
<1>4. call'[Shell] = NoCall
  <2>1. PICK c : call' = [call EXCEPT ![nowRunning] = c]
    BY <1>2
  <2>2. DOMAIN call = Process
    BY <1>0 DEF PipeInv, TypeOK
  <2> QED
    BY <1>0, <2>1, <2>2 DEF ShellInv, ShellAwake
<1>5. PipesKept' /\ NamesGo(pipe')
  BY <1>1, <1>2, <1>3, QuietKeeps DEF ShellInv, SameEnds
<1>6. ShellAwake' /\ JobsFit'
  BY <1>3, <1>4 DEF ShellInv, ShellAwake, JobsFit, shellVars
<1> QED
  BY <1>2, <1>3, <1>5, <1>6, MeanwhileStep DEF shellVars

LEMMA GoOnStep ==
    ASSUME ShellInv, GoOn
    PROVE  ShellInv'
<1>1. call[nowRunning].op \in {"read", "write"} /\ UNCHANGED shellVars
  BY DEF GoOn, ResumeRead, ResumeWrite
<1>2. nowRunning # Shell
  BY <1>1 DEF ShellInv, ShellAwake, NoCall
<1>3. /\ call[nowRunning].file \in File /\ call[nowRunning].rest \in Seq(Char)
      /\ call[nowRunning].left \in Nat
  BY <1>1, SuspendedCall DEF ShellInv, PipesKept
<1>4. \/ WriteOn(call[nowRunning].file, call[nowRunning].rest, 1)
      \/ ReadOn(call[nowRunning].file, call[nowRunning].left)
  BY DEF GoOn, ResumeRead, ResumeWrite
<1> QED
  BY <1>1, <1>2, <1>3, <1>4, DataMoves

LEMMA EscapeStep ==
    ASSUME ShellInv, EscapeKey
    PROVE  ShellInv'
<1> DEFINE K == {p \in Process : role[p] # "none" /\ Live(p)} \ background
<1>1. K \in SUBSET Process /\ (\A p \in K : Live(p)) /\ Kill(K) /\ UNCHANGED shellVars
  BY DEF EscapeKey
<1>2. Shell \notin K
  BY DEF ShellInv, JobsFit
<1>3. nowRunning' \in Process
  BY DEF EscapeKey, ShellInv, PipesKept, PipeInv, TypeOK, ProcessTypeOK
<1> HIDE DEF K
<1> QED
  BY <1>1, <1>2, <1>3, ProgramsEnd

\* exit, of a program.
LEMMA ExitStep ==
    ASSUME ShellInv, DeadMakeNoCalls, nowRunning # Shell, Exit, UNCHANGED shellVars
    PROVE  ShellInv'
<1>1. {nowRunning} \in SUBSET Process /\ (\A p \in {nowRunning} : Live(p))
  BY DEF ShellInv, PipesKept, PipeInv, TypeOK, ProcessTypeOK, Exit, InUserCode, Asks,
         DeadMakeNoCalls, Live
<1>2. Kill({nowRunning}) /\ nowRunning' \in Process
  BY DEF Exit, Dispatch
<1> QED
  BY <1>1, <1>2, ProgramsEnd

LEMMA ProgramStep ==
    ASSUME ShellInv, DeadMakeNoCalls, NEW p \in Process, Source(p) \/ Sink(p)
    PROVE  ShellInv'
<1>1. nowRunning # Shell /\ UNCHANGED shellVars
  BY DEF ShellInv, JobsFit, Source, Sink
<1>2. CASE Exit
  BY <1>1, <1>2, ExitStep
<1>3. ASSUME NEW s \in Text, Write(1, s) PROVE ShellInv'
  <2>1. /\ fds[nowRunning][1].fileID \in File /\ s \in Seq(Char)
        /\ WriteOn(fds[nowRunning][1].fileID, s, 0)
    BY <1>3, PipeAssumption DEF Write, Exists
  <2> QED
    BY <1>1, <2>1, DataMoves
<1>4. CASE Read(0, 1)
  <2>1. fds[nowRunning][0].fileID \in File /\ ReadOn(fds[nowRunning][0].fileID, 1)
    BY <1>4 DEF Read, Exists
  <2> QED
    BY <1>1, <2>1, DataMoves
<1> QED
  BY <1>2, <1>3, <1>4 DEF Source, Sink

LEMMA KillCommandStep ==
    ASSUME ShellInv, NEW p \in Process, KillCommand(p)
    PROVE  ShellInv'
<1>1. {p} \in SUBSET Process /\ (\A q \in {p} : Live(q)) /\ Shell \notin {p}
  BY DEF KillCommand, ShellInv, JobsFit
<1>2. Kill({p}) /\ nowRunning' \in Process /\ UNCHANGED shellVars
  BY DEF KillCommand, KillProcess, Dispatch
<1> QED
  BY <1>1, <1>2, ProgramsEnd

\* Who has been waited for is dead before and after.
LEMMA ReapKeeps ==
    ASSUME ShellInv, NEW p \in Process, Reap(p)
    PROVE  /\ PipesKept' /\ NamesGo(pipe') /\ ShellAwake'
           /\ role' = [role EXCEPT ![p] = "none"] /\ background' = background \ {p}
           /\ UNCHANGED <<fds, fdReplacements, fileIdToGive>>
           /\ \A q \in Process : Alive(state', q) => Alive(state, q) /\ role'[q] = role[q]
<1>1. /\ state[p] = "FINISHED" /\ state' = [state EXCEPT ![p] = "NONE"]
      /\ call' = [call EXCEPT ![p] = NoCall] /\ atEnd' = [atEnd EXCEPT ![p] = FALSE]
      /\ role' = [role EXCEPT ![p] = "none"] /\ background' = background \ {p}
      /\ UNCHANGED <<blockedReason, nowRunning, fds, fdReplacements, pipe, fileIdToGive, hung>>
  BY DEF Reap, fileVars
<1>2. TypeOK /\ PipeInv /\ Shell \in Process /\ p # Shell /\ state[Shell] = "READY"
  BY <1>1, BizcochoAssumption DEF ShellInv, ShellAwake, PipesKept, PipeInv
<1>3. TypeOK'
  <2>1. NoCall \in suspendedCall
    BY DEF suspendedCall
  <2>2. call' \in [Process -> suspendedCall]
    BY <1>1, <1>2, <2>1 DEF TypeOK
  <2>3. atEnd' \in [Process -> BOOLEAN]
    BY <1>1, <1>2 DEF TypeOK
  <2>4. ProcessTypeOK'
    BY <1>1, <1>2 DEF TypeOK, ProcessTypeOK
  <2> QED
    BY <1>1, <1>2, <2>2, <2>3, <2>4 DEF TypeOK
<1>4. \A q \in Process : state'[q] = IF q = p THEN "NONE" ELSE state[q]
  BY <1>1, <1>2 DEF TypeOK, ProcessTypeOK
<1>5. PipeInv'
  BY <1>1, <1>2, <1>3, <1>4, QuietStep
<1>6. PipesKept' /\ NamesGo(pipe')
  BY <1>1, <1>4, <1>5, QuietKeeps DEF ShellInv, Alive
<1>7. ShellAwake'
  BY <1>1, <1>2, <1>4 DEF ShellInv, ShellAwake, TypeOK
<1>8. \A q \in Process : Alive(state', q) => Alive(state, q) /\ role'[q] = role[q]
  BY <1>1, <1>4 DEF Alive, ShellInv, JobsFit
<1> QED
  BY <1>1, <1>6, <1>7, <1>8

LEMMA InitReapsStep ==
    ASSUME ShellInv, NEW p \in Process, InitReaps(p)
    PROVE  ShellInv'
<1>1. Reap(p) /\ UNCHANGED <<step, line, side, end, pipesCreated>>
  BY DEF InitReaps
<1>2. job' = [s \in DOMAIN job |-> IF job[s] = p THEN NoProcess ELSE job[s]]
  BY DEF InitReaps
<1>3. job \in [{"left", "right"} -> (Process \ {Shell}) \cup {NoProcess}]
  BY DEF ShellInv, JobsFit
<1>4. /\ job' \in [{"left", "right"} -> (Process \ {Shell}) \cup {NoProcess}]
      /\ job'["left"] \in {job["left"], NoProcess}
  BY <1>2, <1>3
<1>5. JobsFit'
  BY <1>1, <1>4, ReapKeeps, BizcochoAssumption DEF ShellInv, JobsFit
<1> QED
  BY <1>1, <1>4, <1>5, ReapKeeps, MeanwhileStep

LEMMA TimerStep ==
    ASSUME ShellInv, NEW p \in Process, TimerTick(p)
    PROVE  ShellInv'
<1>1. PipeInv'
  BY TickStep DEF TimerTick, ShellInv, PipesKept
<1>2. UNCHANGED <<state, fileVars, call, shellVars>>
  BY DEF TimerTick, Tick
<1>3. PipesKept' /\ NamesGo(pipe')
  BY <1>1, <1>2, QuietKeeps DEF ShellInv, fileVars
<1>4. ShellAwake' /\ JobsFit'
  BY <1>2 DEF ShellInv, ShellAwake, JobsFit, shellVars
<1> QED
  BY <1>2, <1>3, <1>4, MeanwhileStep DEF shellVars, fileVars

-----------------------------------------------------------------------------
(* What the shell does: the main loop.                                     *)

LEMMA ShellIs ==
    ASSUME ShellInv
    PROVE  /\ Shell \in Process /\ fds \in [Process -> [Fd -> fileDescriptor]]
           /\ fdReplacements \in [Process -> Seq(fdReplacement)]
           /\ fds[Shell] \in [Fd -> fileDescriptor]
           /\ fdReplacements[Shell] \in Seq(fdReplacement)
           /\ call \in [Process -> suspendedCall]
           /\ state \in [Process -> {"NONE", "READY", "BLOCKED", "FINISHED"}]
           /\ PipeInv /\ fileIdToGive \in Nat
BY BizcochoAssumption DEF ShellInv, PipesKept, PipeInv, TypeOK, ProcessTypeOK, STDERR

\* Steps that differ in what they expect of the descriptors in nothing.
LEMMA SameTable ==
    ASSUME NEW stp, NEW s, NEW ln, NEW next, NEW e, NEW t, NEW lost,
           TableFits(stp, s, ln, next, e, t, lost),
           NEW stp2, NEW s2, NEW ln2, NEW next2, NEW e2,
           StdinOf(stp2, s2, ln2, next2) = StdinOf(stp, s, ln, next),
           StdoutOf(stp2, s2, ln2, next2) = StdoutOf(stp, s, ln, next),
           FourthOf(stp2, s2, ln2, next2) = FourthOf(stp, s, ln, next),
           FourthOf(stp2, s2, ln2, next2) # Closed => e2 = 4
    PROVE  TableFits(stp2, s2, ln2, next2, e2, t, lost)
BY DEF TableFits

LEMMA RestTableStays ==
    ASSUME NEW stp \in AtRest, NEW s, NEW ln, NEW next, NEW e, NEW t, NEW lost,
           TableFits(stp, s, ln, next, e, t, lost),
           NEW stp2 \in AtRest, NEW s2, NEW ln2, NEW next2, NEW e2
    PROVE  TableFits(stp2, s2, ln2, next2, e2, t, lost)
<1>1. /\ StdinOf(stp2, s2, ln2, next2) = StdinOf(stp, s, ln, next)
      /\ StdoutOf(stp2, s2, ln2, next2) = StdoutOf(stp, s, ln, next)
      /\ FourthOf(stp2, s2, ln2, next2) = FourthOf(stp, s, ln, next)
      /\ FourthOf(stp2, s2, ln2, next2) = Closed
  BY RestTable
<1> QED
  BY <1>1, SameTable

\* A step of the shell that starts nothing leaves the others their descriptors.
LEMMA OthersKeep ==
    ASSUME ShellInv, role' = role,
           \A p \in Process \ {Shell} : fds'[p] = fds[p],
           \A p \in Process : Alive(state', p) => Alive(state, p)
    PROVE  OwnEnds(state', fds', role')
BY DEF ShellInv, OwnEnds

LEMMA NothingMoves ==
    ASSUME ShellInv, UNCHANGED pipeVars
    PROVE  PipesKept' /\ ShellAwake'
<1>1. UNCHANGED <<state, blockedReason, nowRunning, fds, fdReplacements, pipe, fileIdToGive,
                  call, atEnd, hung>>
  BY DEF pipeVars, processVars, fileVars
<1>2. TypeOK'
  BY <1>1 DEF ShellInv, PipesKept, PipeInv, TypeOK, ProcessTypeOK
<1>3. PipeInv'
  BY <1>1, <1>2, ShellIs, QuietStep
<1>4. PipesKept'
  BY <1>1, <1>3, QuietKeeps DEF ShellInv
<1> QED
  BY <1>1, <1>4 DEF ShellInv, ShellAwake

LEMMA TypeLineStep ==
    ASSUME ShellInv, NEW l \in Lines, TypeLine(l)
    PROVE  ShellInv'
<1>1. /\ step = "prompt" /\ line' = l /\ side' = "left"
      /\ step' = IF l.piped THEN "mkpipe" ELSE IF "left" \in l.back THEN "dupIn" ELSE "start"
      /\ UNCHANGED <<pipeVars, end, job, role, background, pipesCreated>>
  BY DEF TypeLine, Calling
<1>2. UNCHANGED <<state, fds, fdReplacements, fileIdToGive>>
  BY <1>1 DEF pipeVars, processVars, fileVars
<1>3. l.piped \in BOOLEAN
  BY BizcochoAssumption
<1>4. PipesKept' /\ ShellAwake'
  BY <1>1, NothingMoves
<1>5. JobsFit'
  BY <1>1 DEF ShellInv, JobsFit
<1>6. StepFits(step', side', line', fileIdToGive')
  BY <1>1, <1>3 DEF StepFits, Steps, StdinGoes
<1>7. TableFits(step', side', line', fileIdToGive', end', fds'[Shell], fdReplacements'[Shell])
  <2>1. TableFits("prompt", side, line, fileIdToGive, end, fds[Shell], fdReplacements[Shell])
    BY <1>1 DEF ShellInv
  <2>2. /\ StdinOf("prompt", side, line, fileIdToGive) = DefaultFds[0]
        /\ StdoutOf("prompt", side, line, fileIdToGive) = DefaultFds[1]
        /\ FourthOf("prompt", side, line, fileIdToGive) = Closed
    BY RestTable DEF AtRest
  <2>3. /\ StdinOf(step', side', line', fileIdToGive') = DefaultFds[0]
        /\ StdoutOf(step', side', line', fileIdToGive') = DefaultFds[1]
        /\ FourthOf(step', side', line', fileIdToGive') = Closed
    BY <1>1, <1>3 DEF StdinOf, StdoutOf, FourthOf, StdinGoes
  <2>4. TableFits(step', side', line', fileIdToGive', end', fds[Shell], fdReplacements[Shell])
    BY <2>1, <2>2, <2>3, SameTable
  <2> QED
    BY <1>2, <2>4
<1>8. LeftEnds' /\ PipeGone'
  BY <1>1 DEF LeftEnds, PipeGone
<1>9. OwnEnds(state', fds', role')
  BY <1>1, <1>2, OthersKeep
<1>10. (pipesCreated = fileIdToGive - STDERR)'
  BY <1>1, <1>2 DEF ShellInv
<1> QED
  BY <1>4, <1>5, <1>6, <1>7, <1>8, <1>9, <1>10 DEF ShellInv

LEMMA MakePipeStep ==
    ASSUME ShellInv, ShellsUse, MakePipe
    PROVE  ShellInv'
<1>1. /\ step = "mkpipe" /\ Mkpipe(pipesCreated) /\ pipesCreated' = pipesCreated + 1
      /\ step' = "openW" /\ UNCHANGED <<line, side, end, job, role, background>>
  BY DEF MakePipe, Calling
<1>2. /\ UNCHANGED <<state, fds, fdReplacements, call>> /\ fileIdToGive' = fileIdToGive + 1
      /\ fileIdToGive <= MaxFileId
  BY <1>1 DEF Mkpipe, processVars
<1>3. fileIdToGive \in STDERR + 1 .. MaxFileId + 1 /\ MaxFileId \in Nat
  BY PipeAssumption DEF ShellInv, PipesKept, PipeInv, TypeOK
<1>4. pipesCreated \in Name /\ pipesCreated = fileIdToGive - STDERR
  <2>1. pipesCreated \in 1 .. MaxFileId - STDERR
    BY <1>2, <1>3 DEF ShellInv, STDERR
  <2> QED
    BY <2>1 DEF ShellInv, ShellsUse
<1>5. PipesKept' /\ fileIdToGive \in File
  BY <1>1, <1>4, MkpipeKeeps DEF ShellInv, ShellsUse
<1>6. ShellAwake' /\ JobsFit'
  BY <1>1, <1>2 DEF ShellInv, ShellAwake, JobsFit
<1>7. StepFits(step', side', line', fileIdToGive')
  <2>1. fileIdToGive' - 1 = fileIdToGive
    BY <1>2, <1>3 DEF STDERR
  <2>2. line.piped /\ side = "left" /\ line.piped \in BOOLEAN
    BY <1>1 DEF ShellInv, StepFits
  <2> QED
    BY <1>1, <1>5, <2>1, <2>2 DEF StepFits, Steps
<1>8. TableFits(step', side', line', fileIdToGive', end', fds'[Shell], fdReplacements'[Shell])
  <2>1. step \in AtRest /\ step' \in AtRest
    BY <1>1 DEF AtRest
  <2>2. TableFits(step, side, line, fileIdToGive, end, fds'[Shell], fdReplacements'[Shell])
    BY <1>2 DEF ShellInv
  <2> QED
    BY <2>1, <2>2, RestTableStays
<1>9. LeftEnds' /\ PipeGone'
  BY <1>1 DEF LeftEnds, PipeGone
<1>10. OwnEnds(state', fds', role')
  BY <1>1, <1>2, OthersKeep
<1>11. (pipesCreated = fileIdToGive - STDERR)'
  BY <1>1, <1>2, <1>3, <1>4 DEF STDERR
<1> QED
  BY <1>5, <1>6, <1>7, <1>8, <1>9, <1>10, <1>11 DEF ShellInv

\* The shell opens the newest pipe with its fourth descriptor.
LEMMA OpenEndStep ==
    ASSUME ShellInv, ShellsUse, NEW mode \in {"R", "W"}, NEW s, OpenEnd(mode, s),
           nowRunning = Shell, step \in {"openW", "openR"}, UNCHANGED pipesCreated
    PROVE  /\ PipesKept' /\ end' = 4 /\ step' = s
           /\ fds' = [fds EXCEPT ![Shell] = [fds[Shell] EXCEPT ![4] = PipeEnd(fileIdToGive, mode)]]
           /\ UNCHANGED <<state, fdReplacements, fileIdToGive, call>>
           /\ (pipesCreated = fileIdToGive - STDERR)'
           /\ TableIs(fds'[Shell], DefaultFds[0], DefaultFds[1], PipeEnd(fileIdToGive, mode))
           /\ LostFit(fds'[Shell], fdReplacements'[Shell])
<1> DEFINE n == pipesCreated - 1
<1>1. Open(n, mode) /\ end' = Min(FreeFds) /\ step' = s
  BY DEF OpenEnd
<1>2. UNCHANGED <<state, fdReplacements, fileIdToGive, call>>
  BY <1>1 DEF Open, processVars
<1>3. fileIdToGive - 1 \in File /\ fileIdToGive \in Nat
  BY ShellIs DEF ShellInv, StepFits
<1>4. n = (fileIdToGive - 1) - STDERR
  BY <1>3 DEF ShellInv, STDERR
<1>5. n \in Name
  <2>1. n \in 1 .. MaxFileId - STDERR
    BY <1>3, <1>4, PipeAssumption DEF File, STDERR
  <2> QED
    BY <2>1 DEF ShellsUse
<1>6. /\ TableIs(fds[Shell], DefaultFds[0], DefaultFds[1], Closed)
      /\ LostFit(fds[Shell], fdReplacements[Shell])
  <2>1. step \in AtRest
    BY DEF AtRest
  <2> QED
    BY <2>1, RestTable DEF ShellInv, TableFits
<1>7. fds[nowRunning][4].fileID = EMPTY
  BY <1>6, StandardFiles DEF TableIs
<1>8. DeadMakeNoCalls /\ PipesKept
  BY DEF ShellsUse, ShellInv
<1> HIDE DEF n
<1>9. /\ PipesKept' /\ Min(FreeFds) = 4 /\ FileNamed(n) \in File /\ n = FileNamed(n) - STDERR
      /\ fds' = [fds EXCEPT ![nowRunning][4] = [fileID |-> FileNamed(n), mode |-> mode]]
  BY <1>1, <1>5, <1>7, <1>8, OpenKeeps
<1>10. FileNamed(n) = fileIdToGive - 1
  BY <1>3, <1>4, <1>9 DEF STDERR, File
<1>11. fds' = [fds EXCEPT ![Shell] = [fds[Shell] EXCEPT ![4] = PipeEnd(fileIdToGive, mode)]]
  <2> DEFINE e == [fileID |-> FileNamed(n), mode |-> mode]
  <2>1. e = PipeEnd(fileIdToGive, mode)
    BY <1>10 DEF PipeEnd
  <2>2. fds' = [fds EXCEPT ![Shell][4] = e]
    BY <1>9
  <2> HIDE DEF e
  <2> QED
    BY <2>1, <2>2
<1>12. fds'[Shell] = [fds[Shell] EXCEPT ![4] = PipeEnd(fileIdToGive, mode)]
  BY <1>11, ShellIs
<1>13. /\ TableIs(fds'[Shell], DefaultFds[0], DefaultFds[1], PipeEnd(fileIdToGive, mode))
       /\ LostFit(fds'[Shell], fdReplacements'[Shell])
  <2>1. \A d : /\ TableIs([fds[Shell] EXCEPT ![4] = d], DefaultFds[0], DefaultFds[1], d)
               /\ LostFit([fds[Shell] EXCEPT ![4] = d], fdReplacements[Shell])
    BY <1>6, ShellIs, FourthTable
  <2> QED
    BY <1>2, <1>12, <2>1
<1> QED
  BY <1>1, <1>2, <1>9, <1>11, <1>13 DEF ShellInv

LEMMA OpenWriteEndStep ==
    ASSUME ShellInv, ShellsUse, OpenWriteEnd
    PROVE  ShellInv'
<1>1. /\ nowRunning = Shell /\ step = "openW"
      /\ OpenEnd("W", IF InBackground("left") THEN "dupIn" ELSE "dupOut")
      /\ UNCHANGED <<line, side, job, role, background, pipesCreated>>
  BY DEF OpenWriteEnd, Calling
<1>2. /\ PipesKept' /\ end' = 4
      /\ step' = IF InBackground("left") THEN "dupIn" ELSE "dupOut"
      /\ fds' = [fds EXCEPT ![Shell] = [fds[Shell] EXCEPT ![4] = PipeEnd(fileIdToGive, "W")]]
      /\ UNCHANGED <<state, fdReplacements, fileIdToGive, call>>
      /\ (pipesCreated = fileIdToGive - STDERR)'
      /\ TableIs(fds'[Shell], DefaultFds[0], DefaultFds[1], PipeEnd(fileIdToGive, "W"))
      /\ LostFit(fds'[Shell], fdReplacements'[Shell])
  BY <1>1, OpenEndStep
<1>3. /\ line.piped /\ side = "left" /\ line.piped \in BOOLEAN /\ fileIdToGive - 1 \in File
  BY <1>1 DEF ShellInv, StepFits
<1>4. StepFits(step', side', line', fileIdToGive')
  BY <1>1, <1>2, <1>3 DEF StepFits, Steps, StdinGoes, InBackground
<1>5. /\ StdinOf(step', side', line', fileIdToGive') = DefaultFds[0]
      /\ StdoutOf(step', side', line', fileIdToGive') = DefaultFds[1]
      /\ FourthOf(step', side', line', fileIdToGive') = PipeEnd(fileIdToGive, "W")
  BY <1>1, <1>2, <1>3 DEF StdinOf, StdoutOf, FourthOf, StdinGoes, InBackground
<1>6. TableFits(step', side', line', fileIdToGive', end', fds'[Shell], fdReplacements'[Shell])
  BY <1>2, <1>5 DEF TableFits
<1>7. ShellAwake' /\ JobsFit'
  BY <1>1, <1>2 DEF ShellInv, ShellAwake, JobsFit
<1>8. LeftEnds' /\ PipeGone'
  BY <1>2 DEF LeftEnds, PipeGone
<1>9. OwnEnds(state', fds', role')
  BY <1>1, <1>2, ShellIs, OthersKeep
<1> QED
  BY <1>2, <1>4, <1>6, <1>7, <1>8, <1>9 DEF ShellInv

\* A pipe without a name to find it by does not exist.
LEMMA NoneNamed ==
    ASSUME NEW n \in Name, FileNamed(n) = EMPTY, NEW f \in File
    PROVE  pipe[f].name # n
<1> DEFINE named == {g \in File : pipe[g].name = n}
<1>1. SUFFICES ASSUME named # {} PROVE FALSE
  OBVIOUS
<1>2. named \in SUBSET Nat /\ \A g \in named : g <= MaxFileId /\ g > STDERR
  BY PipeAssumption DEF File, STDERR
<1>3. FileNamed(n) = Max(named)
  BY <1>1 DEF FileNamed
<1> HIDE DEF named
<1>4. Max(named) \in named
  BY <1>1, <1>2, PipeAssumption, MaxProperties
<1> QED
  BY <1>2, <1>3, <1>4 DEF EMPTY, STDERR

LEMMA OpenReadEndStep ==
    ASSUME ShellInv, ShellsUse, OpenReadEnd
    PROVE  ShellInv'
<1>1. /\ nowRunning = Shell /\ step = "openR"
      /\ UNCHANGED <<line, job, role, background, pipesCreated>>
  BY DEF OpenReadEnd, Calling
<1>2. /\ line.piped /\ side = "left" /\ line.piped \in BOOLEAN /\ fileIdToGive - 1 \in File
  BY <1>1 DEF ShellInv, StepFits
<1>3. CASE OpenEnd("R", "dupIn") /\ side' = "right"
  <2>1. /\ PipesKept' /\ end' = 4 /\ step' = "dupIn"
        /\ fds' = [fds EXCEPT ![Shell] = [fds[Shell] EXCEPT ![4] = PipeEnd(fileIdToGive, "R")]]
        /\ UNCHANGED <<state, fdReplacements, fileIdToGive, call>>
        /\ (pipesCreated = fileIdToGive - STDERR)'
        /\ TableIs(fds'[Shell], DefaultFds[0], DefaultFds[1], PipeEnd(fileIdToGive, "R"))
        /\ LostFit(fds'[Shell], fdReplacements'[Shell])
    BY <1>1, <1>3, OpenEndStep
  <2>2. StepFits(step', side', line', fileIdToGive')
    BY <1>1, <1>2, <1>3, <2>1 DEF StepFits, Steps, StdinGoes
  <2>3. /\ StdinOf(step', side', line', fileIdToGive') = DefaultFds[0]
        /\ StdoutOf(step', side', line', fileIdToGive') = DefaultFds[1]
        /\ FourthOf(step', side', line', fileIdToGive') = PipeEnd(fileIdToGive, "R")
    BY <1>3, <2>1 DEF StdinOf, StdoutOf, FourthOf
  <2>4. TableFits(step', side', line', fileIdToGive', end', fds'[Shell], fdReplacements'[Shell])
    BY <2>1, <2>3 DEF TableFits
  <2>5. ShellAwake' /\ JobsFit'
    BY <1>1, <2>1 DEF ShellInv, ShellAwake, JobsFit
  <2>6. LeftEnds' /\ PipeGone'
    BY <2>1 DEF LeftEnds, PipeGone
  <2>7. OwnEnds(state', fds', role')
    BY <1>1, <2>1, ShellIs, OthersKeep
  <2> QED
    BY <2>1, <2>2, <2>4, <2>5, <2>6, <2>7 DEF ShellInv
<1>4. CASE /\ FileNamed(pipesCreated - 1) = EMPTY
           /\ step' = "killLeft"
           /\ UNCHANGED <<pipeVars, end, side>>
  <2>1. UNCHANGED <<state, fds, fdReplacements, fileIdToGive, pipe>>
    BY <1>4 DEF pipeVars, processVars, fileVars
  <2>2. PipesKept' /\ ShellAwake'
    BY <1>4, NothingMoves
  <2>3. JobsFit' /\ LeftEnds'
    BY <1>1, <1>4, <2>1 DEF ShellInv, JobsFit, LeftEnds
  <2>4. StepFits(step', side', line', fileIdToGive')
    BY <1>1, <1>2, <1>4, <2>1 DEF StepFits, Steps
  <2>5. TableFits(step', side', line', fileIdToGive', end', fds'[Shell], fdReplacements'[Shell])
    <3>1. step \in AtRest /\ step' \in AtRest
      BY <1>1, <1>4 DEF AtRest
    <3>2. TableFits(step, side, line, fileIdToGive, end, fds'[Shell], fdReplacements'[Shell])
      BY <2>1 DEF ShellInv
    <3> QED
      BY <3>1, <3>2, RestTableStays
  <2>6. PipeGone'
    <3> DEFINE n == pipesCreated - 1
               f == fileIdToGive - 1
    <3>1. fileIdToGive \in Nat /\ n = f - STDERR
      BY ShellIs DEF ShellInv, STDERR
    <3>2. n \in Name
      <4>1. n \in 1 .. MaxFileId - STDERR
        BY <1>2, <3>1, PipeAssumption DEF File, STDERR
      <4> QED
        BY <4>1 DEF ShellsUse
    <3>3. FileNamed(n) = EMPTY /\ f \in File
      BY <1>2, <1>4
    <3> HIDE DEF n, f
    <3>4. pipe[f].name # n
      BY <3>2, <3>3, NoneNamed
    <3>5. pipe[f].name = NoName
      BY <3>1, <3>3, <3>4 DEF ShellInv, PipesKept, Numbered
    <3> QED
      BY <2>1, <3>5 DEF PipeGone, f
  <2>7. OwnEnds(state', fds', role')
    BY <1>1, <2>1, OthersKeep
  <2>8. (pipesCreated = fileIdToGive - STDERR)'
    BY <1>1, <2>1 DEF ShellInv
  <2> QED
    BY <2>2, <2>3, <2>4, <2>5, <2>6, <2>7, <2>8 DEF ShellInv
<1> QED
  BY <1>3, <1>4 DEF OpenReadEnd

\* The left program is killed once more: what its descriptors were on is gone.
LEMMA KillDead ==
    ASSUME ShellInv, NEW p \in Process, state[p] = "FINISHED", Kill({p}),
           \A fd \in Fd : \/ fds[p][fd].fileID <= STDERR
                          \/ fds[p][fd].fileID = fileIdToGive - 1,
           pipe[fileIdToGive - 1].name = NoName, nowRunning' \in Process
    PROVE  PipesKept' /\ \A q \in Process : state'[q] = state[q]
<1> DEFINE ends == EndsOf({p})
           W == ReadersAtEnd(ends)
<1>1. /\ pipe' = AfterClosing(ends) /\ Change(W, {p})
      /\ UNCHANGED <<fds, fdReplacements, fileIdToGive, call, atEnd, hung>>
  BY DEF Kill
<1>2. ASSUME NEW f \in File, Exists(f)
      PROVE  On(ends, f) = {} /\ ForWriting(On(ends, f)) = {}
  <2>1. \A e \in ends : ~(fds[e[1]][e[2]].fileID <= STDERR) /\ e[1] = p /\ e[2] \in Fd
    <3>1. \A e \in ends : fds[e[1]][e[2]].fileID > STDERR /\ e[1] = p /\ e[2] \in Fd
      BY DEF EndsOf
    <3>2. \A fd \in Fd : fds[p][fd].fileID \in Int
      BY ShellIs DEF fileDescriptor
    <3> HIDE DEF ends
    <3> TAKE e \in ends
    <3>3. PICK fd \in Fd : fd = e[2] /\ e[1] = p /\ fds[p][fd].fileID > STDERR
      BY <3>1
    <3> QED
      BY <3>2, <3>3 DEF STDERR
  <2>2. \A e \in ends : fds[e[1]][e[2]].fileID # f
    BY <1>2, <2>1 DEF Exists
  <2> HIDE DEF ends
  <2>3. On(ends, f) = {}
    BY <2>2 DEF On
  <2> QED
    BY <2>3 DEF ForWriting
<1> HIDE DEF ends
<1>3. W = {}
  <2>1. \A f \in File : Exists(f) => Cardinality(ForWriting(On(ends, f))) = 0
    BY <1>2, FS_EmptySet
  <2> QED
    BY <2>1, PipeAssumption DEF ReadersAtEnd
<1> HIDE DEF W
<1>4. \A q \in Process : state'[q] = state[q]
  BY <1>1, <1>3 DEF Change
<1>5. pipe' \in [File -> pipeFile]
      /\ \A f \in File : /\ pipe'[f].name = pipe[f].name
                         /\ pipe'[f].currentOpenCount = pipe[f].currentOpenCount
                         /\ pipe'[f].writeOpenCount = pipe[f].writeOpenCount
  <2>1. pipe \in [File -> pipeFile]
    BY ShellIs DEF PipeInv, TypeOK
  <2>2. ASSUME NEW f \in File
        PROVE  /\ pipe'[f] \in pipeFile /\ pipe'[f].name = pipe[f].name
               /\ pipe'[f].currentOpenCount = pipe[f].currentOpenCount
               /\ pipe'[f].writeOpenCount = pipe[f].writeOpenCount
    <3>1. CASE ~Exists(f)
      BY <1>1, <2>1, <3>1 DEF AfterClosing
    <3>2. CASE Exists(f)
      <4>1. Cardinality(On(ends, f)) = 0 /\ Cardinality(ForWriting(On(ends, f))) = 0
        BY <1>2, <3>2, FS_EmptySet
      <4> DEFINE all == Cardinality(On(ends, f))
                 writers == Cardinality(ForWriting(On(ends, f)))
      <4>2. pipe'[f] = Counted(pipe[f], -all, -writers)
        <5>1. pipe[f].currentOpenCount \notin 1 .. all
          BY <4>1
        <5> QED
          BY <1>1, <3>2, <5>1 DEF AfterClosing
      <4>3. all = 0 /\ writers = 0
        BY <4>1
      <4>4. /\ pipe[f] \in pipeFile
            /\ pipe[f].currentOpenCount \in Nat /\ pipe[f].writeOpenCount \in Nat
        BY <2>1 DEF pipeFile
      <4> HIDE DEF all, writers
      <4>5. /\ -all \in Int /\ pipe[f].currentOpenCount + (-all) = pipe[f].currentOpenCount
            /\ -writers \in Int /\ pipe[f].writeOpenCount + (-writers) = pipe[f].writeOpenCount
            /\ pipe[f].currentOpenCount >= 0 /\ pipe[f].writeOpenCount >= 0
        BY <4>3, <4>4
      <4> QED
        BY <4>2, <4>4, <4>5, CountedRecord
    <3> QED
      BY <3>1, <3>2
  <2>3. pipe' = [f \in File |-> pipe'[f]]
    BY <1>1 DEF AfterClosing
  <2> QED
    BY <2>2, <2>3
<1>6. TypeOK'
  <2>1. state' = [q \in Process |-> state'[q]] /\ DOMAIN blockedReason' = Process
    BY <1>1 DEF Change
  <2>2. state' \in [Process -> {"NONE", "READY", "BLOCKED", "FINISHED"}]
    BY <1>4, <2>1, ShellIs
  <2> QED
    BY <1>1, <1>5, <2>1, <2>2, ShellIs DEF PipeInv, TypeOK, ProcessTypeOK
<1>7. PipeInv'
  BY <1>1, <1>4, <1>5, <1>6, ShellIs, QuietStep
<1> QED
  BY <1>1, <1>4, <1>5, <1>7, QuietKeeps DEF ShellInv, Alive

LEMMA KillLeftStep ==
    ASSUME ShellInv, KillLeft
    PROVE  ShellInv'
<1>1. /\ nowRunning = Shell /\ step = "killLeft" /\ step' = "prompt"
      /\ UNCHANGED <<line, side, end, job, role, background, pipesCreated>>
  BY DEF KillLeft, Calling
<1>2. /\ PipesKept' /\ state'[Shell] = "READY"
      /\ UNCHANGED <<fds, fdReplacements, fileIdToGive, call>>
      /\ \A q \in Process : Alive(state', q) => Alive(state, q)
  <2>1. CASE /\ job.left = NoProcess
             /\ Dispatch(state)
             /\ UNCHANGED <<state, blockedReason, fileVars, call, atEnd, hung>>
    <3>1. UNCHANGED <<state, blockedReason, fds, fdReplacements, pipe, fileIdToGive, call, atEnd,
                      hung>>
      BY <2>1 DEF fileVars
    <3>2. nowRunning' \in Process
      BY <2>1 DEF Dispatch
    <3>3. TypeOK'
      BY <3>1, <3>2 DEF ShellInv, PipesKept, PipeInv, TypeOK, ProcessTypeOK
    <3>4. PipeInv'
      BY <3>1, <3>3, ShellIs, QuietStep
    <3>5. PipesKept'
      BY <3>1, <3>4, QuietKeeps DEF ShellInv
    <3> QED
      BY <3>1, <3>5 DEF ShellInv, ShellAwake
  <2>2. CASE job.left # NoProcess /\ KillProcess(job.left)
    <3>1. PICK p \in Process \ {Shell} : p = job["left"]
      BY <2>2 DEF ShellInv, JobsFit
    <3>2. KillProcess(p)
      BY <2>2, <3>1
    <3>3. Kill({p}) /\ nowRunning' \in Process /\ (Live(p) \/ state[p] = "FINISHED")
      BY <3>2 DEF KillProcess, Dispatch
    <3>4. UNCHANGED <<fds, fdReplacements, fileIdToGive, call>>
      BY <3>3 DEF Kill
    <3>5. CASE Live(p)
      <4>1. {p} \in SUBSET Process /\ (\A q \in {p} : Live(q)) /\ Shell \notin {p}
        BY <3>5
      <4>2. /\ PipesKept' /\ \A q \in Process : Alive(state', q) => Alive(state, q)
        BY <3>3, <4>1, KillKeeps DEF ShellInv
      <4> DEFINE W == ReadersAtEnd(EndsOf({p}))
      <4>3. (\A q \in W : state[q] = "BLOCKED") /\ Change(W, {p})
        BY <3>3 DEF Kill, ReadersAtEnd, BlockedFor, IsBlockedFor
      <4> HIDE DEF W
      <4>4. state'[Shell] = "READY"
        BY <4>1, <4>3, ShellStays
      <4> QED
        BY <3>4, <4>2, <4>4
    <3>6. CASE state[p] = "FINISHED"
      <4>1. line.piped /\ side = "left"
        BY <1>1 DEF ShellInv, StepFits
      <4>2. \A fd \in Fd : \/ fds[p][fd].fileID <= STDERR
                           \/ fds[p][fd].fileID = fileIdToGive - 1
        BY <1>1, <3>1, <4>1 DEF ShellInv, LeftEnds
      <4>3. pipe[fileIdToGive - 1].name = NoName
        BY <1>1 DEF ShellInv, PipeGone
      <4>4. PipesKept' /\ \A q \in Process : state'[q] = state[q]
        BY <3>3, <3>6, <4>2, <4>3, KillDead
      <4> QED
        BY <3>4, <4>4, ShellIs DEF ShellInv, ShellAwake, Alive
    <3> QED
      BY <3>3, <3>5, <3>6
  <2> QED
    BY <2>1, <2>2 DEF KillLeft
<1>3. ShellAwake' /\ JobsFit'
  BY <1>1, <1>2 DEF ShellInv, ShellAwake, JobsFit
<1>4. StepFits(step', side', line', fileIdToGive')
  BY <1>1 DEF ShellInv, StepFits, Steps
<1>5. TableFits(step', side', line', fileIdToGive', end', fds'[Shell], fdReplacements'[Shell])
  <2>1. step \in AtRest /\ step' \in AtRest
    BY <1>1 DEF AtRest
  <2>2. TableFits(step, side, line, fileIdToGive, end, fds'[Shell], fdReplacements'[Shell])
    BY <1>2 DEF ShellInv
  <2> QED
    BY <2>1, <2>2, RestTableStays
<1>6. LeftEnds' /\ PipeGone'
  BY <1>1 DEF LeftEnds, PipeGone
<1>7. OwnEnds(state', fds', role')
  BY <1>1, <1>2, OthersKeep
<1>8. (pipesCreated = fileIdToGive - STDERR)'
  BY <1>1, <1>2 DEF ShellInv
<1> QED
  BY <1>2, <1>3, <1>4, <1>5, <1>6, <1>7, <1>8 DEF ShellInv

-----------------------------------------------------------------------------
(* The shell gives a program its standard files.                           *)

\* A step of the shell that changes its own descriptors only.
LEMMA OwnDescriptorsChange ==
    ASSUME ShellInv, PipesKept', state'[Shell] = "READY",
           UNCHANGED <<line, side, end, job, role, background, pipesCreated, fileIdToGive, call>>,
           \A p \in Process \ {Shell} : fds'[p] = fds[p],
           \A p \in Process : Alive(state', p) => Alive(state, p),
           step' \notin {"revert", "openR", "killLeft"},
           StepFits(step', side, line, fileIdToGive),
           TableFits(step', side, line, fileIdToGive, end, fds'[Shell], fdReplacements'[Shell])
    PROVE  ShellInv'
<1>1. ShellAwake' /\ JobsFit' /\ (pipesCreated = fileIdToGive - STDERR)'
  BY DEF ShellInv, ShellAwake, JobsFit
<1>2. LeftEnds' /\ PipeGone'
  BY DEF LeftEnds, PipeGone
<1>3. OwnEnds(state', fds', role')
  BY OthersKeep
<1> QED
  BY <1>1, <1>2, <1>3 DEF ShellInv

\* The end is in the fourth descriptor, and the third is closed.
LEMMA ShellTable ==
    ASSUME ShellInv
    PROVE  /\ \A fd \in Fd : fds[Shell][fd] = IF fd = 0 THEN StdinOf(step, side, line, fileIdToGive)
                             ELSE IF fd = 1 THEN StdoutOf(step, side, line, fileIdToGive)
                             ELSE IF fd = 4 THEN FourthOf(step, side, line, fileIdToGive)
                             ELSE DefaultFds[fd]
           /\ fds[Shell][3] = Closed
           /\ fds[Shell][4] = FourthOf(step, side, line, fileIdToGive)
           /\ fds[Shell][0] = StdinOf(step, side, line, fileIdToGive)
           /\ fds[Shell][1] = StdoutOf(step, side, line, fileIdToGive)
           /\ LostFit(fds[Shell], fdReplacements[Shell])
           /\ TableIs(fds[Shell], StdinOf(step, side, line, fileIdToGive),
                      StdoutOf(step, side, line, fileIdToGive),
                      FourthOf(step, side, line, fileIdToGive))
           /\ FourthOf(step, side, line, fileIdToGive) # Closed => end = 4
BY StandardFiles DEF ShellInv, TableFits, TableIs

\* dup2 on a standard descriptor that is still the shell's own.
LEMMA DupStandard ==
    ASSUME ShellInv, DeadMakeNoCalls, nowRunning = Shell, NEW k \in {0, 1}, NEW fromFd \in Fd,
           Dup2(fromFd, k), fds[Shell][k] = DefaultFds[k], fds[Shell][fromFd] # DefaultFds[k]
    PROVE  /\ PipesKept' /\ UNCHANGED <<state, fileIdToGive, call>>
           /\ fds' = [fds EXCEPT ![Shell] = [fds[Shell] EXCEPT ![k] = fds[Shell][fromFd]]]
           /\ LostFit(fds'[Shell], fdReplacements'[Shell])
<1>1. k \in 0 .. STDERR /\ k \in Fd /\ DefaultFds[k].fileID <= STDERR
  BY StandardFiles DEF STDERR
<1>2. PipesKept'
  BY <1>1, DupKeeps DEF ShellInv
<1> DEFINE from == fds[Shell][fromFd]
           one == [index |-> k, lostMode |-> fds[Shell][k].mode]
<1>3. /\ UNCHANGED <<state, fileIdToGive, call>>
      /\ fds' = [fds EXCEPT ![Shell][k] = from]
      /\ fdReplacements' = [fdReplacements EXCEPT ![Shell] = <<one>> \o @]
  BY DEF Dup2, processVars
<1>4. one.index = k /\ one \in {StdinLost, StdoutLost} /\ one \in fdReplacement
  <2>1. fds[Shell][k].mode = IF k = 0 THEN "R" ELSE "W"
    BY StandardFiles
  <2>2. k = 0 \/ k = 1
    OBVIOUS
  <2> QED
    BY <1>1, <2>1, <2>2 DEF StdinLost, StdoutLost, fdReplacement
<1> HIDE DEF from, one
<1>5. fds' = [fds EXCEPT ![Shell] = [fds[Shell] EXCEPT ![k] = from]]
  BY <1>3
<1>6. fds'[Shell] = [fds[Shell] EXCEPT ![k] = from]
  BY <1>5, ShellIs
<1>7. fdReplacements'[Shell] = <<one>> \o fdReplacements[Shell]
  BY <1>3, ShellIs
<1>8. from # DefaultFds[k]
  BY DEF from
<1>9. LostFit([fds[Shell] EXCEPT ![k] = from], <<one>> \o fdReplacements[Shell])
  <2>1. LostFit(fds[Shell], fdReplacements[Shell])
    BY ShellTable
  <2>2. PICK t \in [Fd -> fileDescriptor], lost \in Seq(fdReplacement) :
            t = fds[Shell] /\ lost = fdReplacements[Shell]
    BY ShellIs
  <2>3. LostFit([t EXCEPT ![k] = from], <<one>> \o lost)
    BY <1>4, <1>8, <2>1, <2>2, LostOnceMore
  <2> QED
    BY <2>2, <2>3
<1> QED
  BY <1>2, <1>3, <1>5, <1>6, <1>7, <1>9 DEF from

LEMMA DupInStep ==
    ASSUME ShellInv, DeadMakeNoCalls, nowRunning = Shell, step = "dupIn", Dup2(stdinChange, 0),
           step' = "closeIn", UNCHANGED <<line, side, end, job, role, background, pipesCreated>>
    PROVE  ShellInv'
<1> DEFINE in == StdinOf("closeIn", side, line, fileIdToGive)
           out == StdoutOf("dupIn", side, line, fileIdToGive)
           fourth == FourthOf("dupIn", side, line, fileIdToGive)
<1>1. /\ StdinGoes(side, line) /\ side \in {"left", "right"} /\ line.piped \in BOOLEAN
      /\ StepFits("dupIn", side, line, fileIdToGive)
      /\ side = "right" => fileIdToGive - 1 \in File
  BY DEF ShellInv, StepFits
<1>2. stdinChange \in Fd /\ fds[Shell][stdinChange] = in
  <2>1. CASE side = "right"
    <3>1. in = PipeEnd(fileIdToGive, "R") /\ fds[Shell][4] = PipeEnd(fileIdToGive, "R")
      BY <1>1, <2>1, ShellTable DEF StdinOf, FourthOf
    <3>2. PipeEnd(fileIdToGive, "R") # Closed
      BY <1>1, <2>1, PipeEndIs, Zenon
    <3>3. end = 4
      BY <3>1, <3>2, ShellTable
    <3>4. stdinChange = end
      BY <2>1, Zenon DEF stdinChange
    <3> QED
      BY <3>1, <3>3, <3>4, StandardFiles
  <2>2. CASE side # "right"
    <3>1. side = "left" /\ "left" \in line.back
      BY <1>1, <2>2 DEF StdinGoes
    <3>2. stdinChange = EMPTY_FD
      BY <2>2, <3>1 DEF stdinChange, InBackground
    <3>3. in = Closed
      BY <1>1, <2>2 DEF StdinOf
    <3> QED
      BY <3>2, <3>3, ShellTable, StandardFiles DEF EMPTY_FD
  <2> QED
    BY <2>1, <2>2
<1>3. fds[Shell][0] = DefaultFds[0]
  BY ShellTable DEF StdinOf
<1>4. in # DefaultFds[0]
  <2>1. in = IF side = "right" THEN PipeEnd(fileIdToGive, "R") ELSE Closed
    BY <1>1 DEF StdinOf
  <2>2. side = "right" => PipeEnd(fileIdToGive, "R") # DefaultFds[0]
    BY <1>1, PipeEndIs, Zenon
  <2> QED
    BY <2>1, <2>2, StandardFiles
<1>5. TableIs(fds[Shell], StdinOf("dupIn", side, line, fileIdToGive), out, fourth)
  BY ShellTable
<1> HIDE DEF in, out, fourth
<1>6. /\ PipesKept' /\ UNCHANGED <<state, fileIdToGive, call>>
      /\ fds' = [fds EXCEPT ![Shell] = [fds[Shell] EXCEPT ![0] = in]]
      /\ LostFit(fds'[Shell], fdReplacements'[Shell])
  <2>1. PICK fd \in Fd : fd = stdinChange
    BY <1>2
  <2>2. Dup2(fd, 0) /\ fds[Shell][fd] = in /\ 0 \in {0, 1}
    BY <1>2, <2>1
  <2> QED
    BY <1>3, <1>4, <2>2, DupStandard
<1>7. TableIs(fds'[Shell], in, out, fourth)
  <2>1. \A d : TableIs([fds[Shell] EXCEPT ![0] = d], d, out, fourth)
    BY <1>5, ShellIs, StandardTable
  <2> QED
    BY <1>6, <2>1, ShellIs
<1>8. TableFits("closeIn", side, line, fileIdToGive, end, fds'[Shell], fdReplacements'[Shell])
  <2>1. /\ StdoutOf("closeIn", side, line, fileIdToGive) = out
        /\ FourthOf("closeIn", side, line, fileIdToGive) = fourth
    BY DEF StdoutOf, FourthOf, out, fourth
  <2>2. fourth # Closed => end = 4
    BY ShellTable DEF fourth
  <2> QED
    BY <1>6, <1>7, <2>1, <2>2 DEF TableFits, in
<1>9. StepFits("closeIn", side, line, fileIdToGive)
  BY <1>1 DEF StepFits, Steps
<1>10. /\ state'[Shell] = "READY" /\ \A p \in Process : Alive(state', p) => Alive(state, p)
       /\ \A p \in Process \ {Shell} : fds'[p] = fds[p]
  BY <1>6, ShellIs DEF ShellInv, ShellAwake
<1> QED
  BY <1>6, <1>8, <1>9, <1>10, OwnDescriptorsChange

LEMMA DupOutStep ==
    ASSUME ShellInv, DeadMakeNoCalls, nowRunning = Shell, step = "dupOut", Dup2(stdoutChange, 1),
           step' = "closeOut", UNCHANGED <<line, side, end, job, role, background, pipesCreated>>
    PROVE  ShellInv'
<1> DEFINE in == StdinOf("dupOut", side, line, fileIdToGive)
           out == StdoutOf("closeOut", side, line, fileIdToGive)
           fourth == FourthOf("dupOut", side, line, fileIdToGive)
<1>1. /\ side = "left" /\ line.piped /\ line.piped \in BOOLEAN
      /\ StepFits("dupOut", side, line, fileIdToGive) /\ fileIdToGive - 1 \in File
  BY DEF ShellInv, StepFits
<1>2. out = PipeEnd(fileIdToGive, "W") /\ fourth = PipeEnd(fileIdToGive, "W")
  BY <1>1 DEF StdoutOf, FourthOf
<1>3. PipeEnd(fileIdToGive, "W") # Closed /\ PipeEnd(fileIdToGive, "W") # DefaultFds[1]
  BY <1>1, PipeEndIs, Zenon
<1>4. stdoutChange = 4
  BY <1>1, <1>2, <1>3, ShellTable DEF stdoutChange
<1>5. 4 \in Fd /\ fds[Shell][4] = out /\ fds[Shell][1] = DefaultFds[1]
  BY <1>2, ShellTable, StandardFiles DEF StdoutOf
<1>6. TableIs(fds[Shell], in, StdoutOf("dupOut", side, line, fileIdToGive), fourth)
  BY ShellTable
<1> HIDE DEF in, out, fourth
<1>7. /\ PipesKept' /\ UNCHANGED <<state, fileIdToGive, call>>
      /\ fds' = [fds EXCEPT ![Shell] = [fds[Shell] EXCEPT ![1] = out]]
      /\ LostFit(fds'[Shell], fdReplacements'[Shell])
  <2>1. PICK fd \in Fd : fd = 4
    BY <1>5
  <2>2. Dup2(fd, 1) /\ fds[Shell][fd] = out /\ 1 \in {0, 1}
    BY <1>4, <1>5, <2>1
  <2> QED
    BY <1>2, <1>3, <1>5, <2>2, DupStandard
<1>8. TableIs(fds'[Shell], in, out, fourth)
  <2>1. \A d : TableIs([fds[Shell] EXCEPT ![1] = d], in, d, fourth)
    BY <1>6, ShellIs, StandardTable
  <2> QED
    BY <1>7, <2>1, ShellIs
<1>9. TableFits("closeOut", side, line, fileIdToGive, end, fds'[Shell], fdReplacements'[Shell])
  <2>1. /\ StdinOf("closeOut", side, line, fileIdToGive) = in
        /\ FourthOf("closeOut", side, line, fileIdToGive) = fourth
    BY <1>1 DEF StdinOf, FourthOf, in, fourth
  <2>2. fourth # Closed => end = 4
    BY ShellTable DEF fourth
  <2> QED
    BY <1>7, <1>8, <2>1, <2>2 DEF TableFits, out
<1>10. StepFits("closeOut", side, line, fileIdToGive)
  BY <1>1 DEF StepFits, Steps
<1>11. /\ state'[Shell] = "READY" /\ \A p \in Process : Alive(state', p) => Alive(state, p)
       /\ \A p \in Process \ {Shell} : fds'[p] = fds[p]
  BY <1>7, ShellIs DEF ShellInv, ShellAwake
<1> QED
  BY <1>7, <1>9, <1>10, <1>11, OwnDescriptorsChange

\* close of the fourth descriptor, after it has been copied.
LEMMA CloseFourth ==
    ASSUME ShellInv, DeadMakeNoCalls, nowRunning = Shell, fds[Shell][4].fileID > STDERR,
           CloseReplaced(4)
    PROVE  /\ PipesKept' /\ state'[Shell] = "READY"
           /\ \A p \in Process : Alive(state', p) => Alive(state, p)
           /\ UNCHANGED <<fdReplacements, fileIdToGive, call>>
           /\ \A p \in Process \ {Shell} : fds'[p] = fds[p]
           /\ TableIs(fds'[Shell], StdinOf(step, side, line, fileIdToGive),
                      StdoutOf(step, side, line, fileIdToGive), Closed)
           /\ LostFit(fds'[Shell], fdReplacements'[Shell])
<1>1. Shell \in Process /\ Alive(state, Shell) /\ 4 \in Fd
  BY ShellIs, StandardFiles DEF Alive, ShellInv, ShellAwake
<1>2. Exists(fds[Shell][4].fileID)
  <2>1. PICK fd \in Fd : fd = 4
    BY <1>1
  <2>2. Exists(fds[Shell][fd].fileID)
    BY <1>1, <2>1, EndIsCounted DEF ShellInv
  <2> QED
    BY <2>1, <2>2
<1>3. CloseFd(4)
  BY <1>2 DEF CloseReplaced
<1>4. PipesKept' /\ \A p \in Process : Alive(state', p) => Alive(state, p)
  BY <1>1, <1>3, CloseKeeps DEF ShellInv
<1>5. UNCHANGED <<fdReplacements, fileIdToGive, call>>
  BY <1>3 DEF CloseFd
<1>6. state'[Shell] = "READY"
  <2> DEFINE W == ReadersAtEnd({<<nowRunning, 4>>})
  <2>1. Change(W, {})
    BY <1>3 DEF CloseFd, Wake
  <2>2. \A p \in W : state[p] = "BLOCKED"
    BY DEF ReadersAtEnd, BlockedFor, IsBlockedFor
  <2> HIDE DEF W
  <2> QED
    BY <2>1, <2>2, ShellStays
<1>7. /\ \A p \in Process \ {Shell} : fds'[p] = fds[p]
      /\ fds'[Shell] = [fds[Shell] EXCEPT ![4] = Closed]
  <2>1. fds' = [fds EXCEPT ![Shell][4] = Closed]
    BY <1>3 DEF CloseFd
  <2> QED
    BY <2>1, ShellIs
<1>8. /\ TableIs(fds'[Shell], StdinOf(step, side, line, fileIdToGive),
                 StdoutOf(step, side, line, fileIdToGive), Closed)
      /\ LostFit(fds'[Shell], fdReplacements'[Shell])
  <2> DEFINE in == StdinOf(step, side, line, fileIdToGive)
             out == StdoutOf(step, side, line, fileIdToGive)
             fourth == FourthOf(step, side, line, fileIdToGive)
  <2>1. TableIs(fds[Shell], in, out, fourth) /\ LostFit(fds[Shell], fdReplacements[Shell])
    BY ShellTable
  <2> HIDE DEF in, out, fourth
  <2>2. \A d : /\ TableIs([fds[Shell] EXCEPT ![4] = d], in, out, d)
               /\ LostFit([fds[Shell] EXCEPT ![4] = d], fdReplacements[Shell])
    BY <2>1, ShellIs, FourthTable
  <2> QED
    BY <1>5, <1>7, <2>2 DEF in, out
<1> QED
  BY <1>4, <1>5, <1>6, <1>7, <1>8

LEMMA CloseInStep ==
    ASSUME ShellInv, DeadMakeNoCalls, nowRunning = Shell, step = "closeIn",
           CloseReplaced(stdinChange),
           step' = IF stdoutChange = NO_CHANGE_FD THEN "start" ELSE "dupOut",
           UNCHANGED <<line, side, end, job, role, background, pipesCreated>>
    PROVE  ShellInv'
<1>1. /\ StdinGoes(side, line) /\ side \in {"left", "right"} /\ line.piped \in BOOLEAN
      /\ StepFits("closeIn", side, line, fileIdToGive)
      /\ side = "right" => line.piped
      /\ line.piped => fileIdToGive - 1 \in File
  BY DEF ShellInv, StepFits
<1>2. CASE side = "right"
  <2>1. fds[Shell][4] = PipeEnd(fileIdToGive, "R")
    BY <1>2, ShellTable DEF FourthOf
  <2>2. PipeEnd(fileIdToGive, "R") # Closed /\ PipeEnd(fileIdToGive, "R").fileID > STDERR
    BY <1>1, <1>2, PipeEndIs, Zenon
  <2>3. stdinChange = 4
    <3>1. end = 4
      BY <2>1, <2>2, ShellTable
    <3>2. stdinChange = end
      BY <1>2, Zenon DEF stdinChange
    <3> QED
      BY <3>1, <3>2
  <2>4. step' = "start"
    BY <1>2 DEF stdoutChange, NO_CHANGE_FD
  <2>5. fds[Shell][4].fileID > STDERR /\ CloseReplaced(4)
    BY <2>1, <2>2, <2>3
  <2>6. /\ PipesKept' /\ state'[Shell] = "READY"
        /\ \A p \in Process : Alive(state', p) => Alive(state, p)
        /\ UNCHANGED <<fdReplacements, fileIdToGive, call>>
        /\ \A p \in Process \ {Shell} : fds'[p] = fds[p]
        /\ TableIs(fds'[Shell], StdinOf("closeIn", side, line, fileIdToGive),
                   StdoutOf("closeIn", side, line, fileIdToGive), Closed)
        /\ LostFit(fds'[Shell], fdReplacements'[Shell])
    BY <2>5, CloseFourth
  <2>7. TableFits("start", side, line, fileIdToGive, end, fds'[Shell], fdReplacements'[Shell])
    <3>1. /\ StdinOf("start", side, line, fileIdToGive) =
               StdinOf("closeIn", side, line, fileIdToGive)
          /\ StdoutOf("start", side, line, fileIdToGive) =
               StdoutOf("closeIn", side, line, fileIdToGive)
          /\ FourthOf("start", side, line, fileIdToGive) = Closed
      BY <1>2 DEF StdinOf, StdoutOf, FourthOf
    <3> QED
      BY <2>6, <3>1 DEF TableFits
  <2>8. StepFits("start", side, line, fileIdToGive)
    BY <1>1 DEF StepFits, Steps
  <2> QED
    BY <2>4, <2>6, <2>7, <2>8, OwnDescriptorsChange
<1>3. CASE side # "right"
  <2>1. side = "left" /\ "left" \in line.back
    BY <1>1, <1>3 DEF StdinGoes
  <2>2. stdinChange = EMPTY_FD
    BY <1>3, <2>1 DEF stdinChange, InBackground
  <2>3. ~Exists(fds[nowRunning][EMPTY_FD].fileID)
    BY ShellTable, StandardFiles, PipeAssumption DEF EMPTY_FD, Exists, File, EMPTY, STDERR
  <2>4. UNCHANGED pipeVars
    BY <2>2, <2>3 DEF CloseReplaced
  <2>5. PipesKept' /\ ShellAwake' /\ UNCHANGED <<state, fds, fdReplacements, fileIdToGive, call>>
    BY <2>4, NothingMoves DEF pipeVars, processVars, fileVars
  <2>6. step' = IF line.piped THEN "dupOut" ELSE "start"
    <3>1. CASE line.piped
      <4>1. FourthOf("closeIn", side, line, fileIdToGive) = PipeEnd(fileIdToGive, "W")
        BY <2>1, <3>1 DEF FourthOf
      <4>2. PipeEnd(fileIdToGive, "W") # Closed
        BY <1>1, <3>1, PipeEndIs, Zenon
      <4>3. end = 4
        BY <4>1, <4>2, ShellTable
      <4> QED
        BY <2>1, <3>1, <4>3 DEF stdoutChange, NO_CHANGE_FD
    <3>2. CASE ~line.piped
      BY <3>2 DEF stdoutChange
    <3> QED
      BY <3>1, <3>2
  <2>7. TableFits(step', side, line, fileIdToGive, end, fds[Shell], fdReplacements[Shell])
    <3>1. /\ StdinOf(step', side, line, fileIdToGive) = StdinOf("closeIn", side, line, fileIdToGive)
          /\ StdoutOf(step', side, line, fileIdToGive) =
               StdoutOf("closeIn", side, line, fileIdToGive)
          /\ FourthOf(step', side, line, fileIdToGive) =
               FourthOf("closeIn", side, line, fileIdToGive)
      BY <1>1, <2>1, <2>6 DEF StdinOf, StdoutOf, FourthOf
    <3>2. TableFits("closeIn", side, line, fileIdToGive, end, fds[Shell], fdReplacements[Shell])
      BY DEF ShellInv
    <3>3. FourthOf("closeIn", side, line, fileIdToGive) # Closed => end = 4
      BY ShellTable
    <3> QED
      BY <3>1, <3>2, <3>3, SameTable
  <2>8. StepFits(step', side, line, fileIdToGive)
    BY <1>1, <2>1, <2>6 DEF StepFits, Steps
  <2>9. state'[Shell] = "READY"
    BY <2>5 DEF ShellAwake
  <2> QED
    BY <2>5, <2>6, <2>7, <2>8, <2>9, OwnDescriptorsChange
<1> QED
  BY <1>2, <1>3

LEMMA CloseOutStep ==
    ASSUME ShellInv, DeadMakeNoCalls, nowRunning = Shell, step = "closeOut",
           CloseReplaced(stdoutChange), step' = "start",
           UNCHANGED <<line, side, end, job, role, background, pipesCreated>>
    PROVE  ShellInv'
<1>1. /\ side = "left" /\ line.piped /\ line.piped \in BOOLEAN
      /\ StepFits("closeOut", side, line, fileIdToGive) /\ fileIdToGive - 1 \in File
  BY DEF ShellInv, StepFits
<1>2. fds[Shell][4] = PipeEnd(fileIdToGive, "W")
  BY <1>1, ShellTable DEF FourthOf
<1>3. PipeEnd(fileIdToGive, "W") # Closed /\ PipeEnd(fileIdToGive, "W").fileID > STDERR
  BY <1>1, PipeEndIs, Zenon
<1>4. stdoutChange = 4
  BY <1>1, <1>2, <1>3, ShellTable DEF stdoutChange
<1>5. fds[Shell][4].fileID > STDERR /\ CloseReplaced(4)
  BY <1>2, <1>3, <1>4
<1>6. /\ PipesKept' /\ state'[Shell] = "READY"
      /\ \A p \in Process : Alive(state', p) => Alive(state, p)
      /\ UNCHANGED <<fdReplacements, fileIdToGive, call>>
      /\ \A p \in Process \ {Shell} : fds'[p] = fds[p]
      /\ TableIs(fds'[Shell], StdinOf("closeOut", side, line, fileIdToGive),
                 StdoutOf("closeOut", side, line, fileIdToGive), Closed)
      /\ LostFit(fds'[Shell], fdReplacements'[Shell])
  BY <1>5, CloseFourth
<1>7. TableFits("start", side, line, fileIdToGive, end, fds'[Shell], fdReplacements'[Shell])
  <2>1. /\ StdinOf("start", side, line, fileIdToGive) =
             StdinOf("closeOut", side, line, fileIdToGive)
        /\ StdoutOf("start", side, line, fileIdToGive) =
             StdoutOf("closeOut", side, line, fileIdToGive)
        /\ FourthOf("start", side, line, fileIdToGive) = Closed
    BY DEF StdinOf, StdoutOf, FourthOf
  <2> QED
    BY <1>6, <2>1 DEF TableFits
<1>8. StepFits("start", side, line, fileIdToGive)
  BY <1>1 DEF StepFits, Steps
<1> QED
  BY <1>6, <1>7, <1>8, OwnDescriptorsChange

LEMMA ReplaceStep ==
    ASSUME ShellInv, DeadMakeNoCalls, ReplaceStandard
    PROVE  ShellInv'
<1>1. UNCHANGED <<line, side, end, job, role, background, pipesCreated>>
  BY DEF ReplaceStandard
<1>2. PICK standard \in {0, 1} : Replace(standard)
  BY DEF ReplaceStandard
<1>3. CASE /\ Calling("dupIn") /\ standard = 0
           /\ Dup2(stdinChange, 0)
           /\ step' = "closeIn"
  BY <1>1, <1>3, DupInStep DEF Calling
<1>4. CASE /\ Calling("closeIn") /\ standard = 0
           /\ CloseReplaced(stdinChange)
           /\ step' = IF stdoutChange = NO_CHANGE_FD THEN "start" ELSE "dupOut"
  BY <1>1, <1>4, CloseInStep DEF Calling
<1>5. CASE /\ Calling("dupOut") /\ standard = 1
           /\ Dup2(stdoutChange, 1)
           /\ step' = "closeOut"
  BY <1>1, <1>5, DupOutStep DEF Calling
<1>6. CASE /\ Calling("closeOut") /\ standard = 1
           /\ CloseReplaced(stdoutChange)
           /\ step' = "start"
  BY <1>1, <1>6, CloseOutStep DEF Calling
<1> QED
  BY <1>2, <1>3, <1>4, <1>5, <1>6 DEF Replace

-----------------------------------------------------------------------------
(* It starts the program, takes its own files back and waits.              *)

\* The table that a program starts with.
LEMMA StartTable ==
    ASSUME ShellInv, step = "start", NEW fd \in Fd, fds[Shell][fd].fileID > STDERR
    PROVE  /\ fds[Shell][fd].fileID = fileIdToGive - 1
           /\ \/ side = "left" /\ fd = 1 /\ fds[Shell][fd].mode = "W"
              \/ side = "right" /\ fd = 0 /\ fds[Shell][fd].mode = "R"
<1>1. /\ side \in {"left", "right"} /\ line.piped \in BOOLEAN
      /\ side = "right" => line.piped
      /\ line.piped => fileIdToGive - 1 \in File
  BY DEF ShellInv, StepFits
<1>2. \A m : line.piped => /\ PipeEnd(fileIdToGive, m).fileID = fileIdToGive - 1
                           /\ PipeEnd(fileIdToGive, m).mode = m
  BY <1>1, PipeEndIs, Zenon
<1>3. \A d \in Fd : ~(DefaultFds[d].fileID > STDERR)
  <2>1. \A d \in Fd : DefaultFds[d].fileID <= STDERR /\ DefaultFds[d].fileID \in Int
    BY StandardFiles DEF fileDescriptor
  <2> QED
    BY <2>1 DEF STDERR
<1>4. ~(Closed.fileID > STDERR) /\ 0 \in Fd /\ 1 \in Fd
  BY StandardFiles DEF EMPTY, STDERR
<1>5. CASE fd = 0
  <2>1. fds[Shell][0] = StdinOf("start", side, line, fileIdToGive)
    BY ShellTable
  <2>2. fds[Shell][0] \in {PipeEnd(fileIdToGive, "R"), Closed, DefaultFds[0]}
        /\ (fds[Shell][0] = PipeEnd(fileIdToGive, "R") => side = "right" \/ fds[Shell][0] = Closed
                                                         \/ fds[Shell][0] = DefaultFds[0])
    BY <2>1 DEF StdinOf
  <2>3. side = "right" /\ fds[Shell][0] = PipeEnd(fileIdToGive, "R")
    BY <1>3, <1>4, <1>5, <2>2
  <2> QED
    BY <1>1, <1>2, <1>5, <2>3
<1>6. CASE fd = 1
  <2>1. fds[Shell][1] = StdoutOf("start", side, line, fileIdToGive)
    BY ShellTable
  <2>2. line.piped /\ side = "left" /\ fds[Shell][1] = PipeEnd(fileIdToGive, "W")
    BY <1>3, <1>4, <1>6, <2>1 DEF StdoutOf
  <2> QED
    BY <1>2, <1>6, <2>2
<1>7. CASE fd # 0 /\ fd # 1
  <2>1. FourthOf("start", side, line, fileIdToGive) = Closed
    BY DEF FourthOf
  <2>2. fds[Shell][fd] \in {Closed, DefaultFds[fd]}
    BY <1>7, <2>1, ShellTable
  <2> QED
    BY <1>3, <1>4, <2>2
<1> QED
  BY <1>5, <1>6, <1>7

LEMMA StartProgramStep ==
    ASSUME ShellInv, DeadMakeNoCalls, NEW p \in Process, StartProgram(p)
    PROVE  ShellInv'
<1>1. /\ nowRunning = Shell /\ step = "start" /\ Start(p, fds[nowRunning])
      /\ role' = [role EXCEPT ![p] = IF side = "left" THEN "source" ELSE "sink"]
      /\ background' = IF InBackground(side) THEN background \cup {p} ELSE background \ {p}
      /\ job' = [job EXCEPT ![side] = p] /\ step' = "revert"
      /\ UNCHANGED <<line, side, end, pipesCreated>>
  BY DEF StartProgram, Calling
<1>2. /\ PipesKept' /\ fds' = [fds EXCEPT ![p] = fds[Shell]]
      /\ state' = [state EXCEPT ![p] = "READY"] /\ state[p] = "NONE"
  BY <1>1, StartKeeps DEF ShellInv
<1>3. UNCHANGED <<fdReplacements, fileIdToGive, call>>
  BY <1>1 DEF Start
<1>4. p # Shell
  BY <1>2 DEF ShellInv, ShellAwake
<1>5. fds'[p] = fds[Shell] /\ \A q \in Process \ {p} : fds'[q] = fds[q] /\ state'[q] = state[q]
  BY <1>2, ShellIs
<1>6. /\ side \in {"left", "right"} /\ StepFits("start", side, line, fileIdToGive)
      /\ line.piped \in BOOLEAN
  BY <1>1 DEF ShellInv, StepFits
<1>7. ShellAwake'
  BY <1>3, <1>4, <1>5, ShellIs DEF ShellInv, ShellAwake
<1>8. JobsFit'
  <2>1. /\ job \in [{"left", "right"} -> (Process \ {Shell}) \cup {NoProcess}]
        /\ role \in [Process -> {"none", "source", "sink"}] /\ role[Shell] = "none"
        /\ background \subseteq Process \ {Shell}
    BY DEF ShellInv, JobsFit
  <2>2. job' \in [{"left", "right"} -> (Process \ {Shell}) \cup {NoProcess}]
    BY <1>1, <1>4, <1>6, <2>1
  <2>3. role' \in [Process -> {"none", "source", "sink"}] /\ role'[Shell] = "none"
    BY <1>1, <1>4, <2>1, ShellIs
  <2>4. background' \subseteq Process \ {Shell}
    BY <1>1, <1>4, <2>1
  <2> QED
    BY <2>2, <2>3, <2>4 DEF JobsFit
<1>9. StepFits(step', side', line', fileIdToGive')
  BY <1>1, <1>3, <1>6 DEF StepFits, Steps
<1>10. TableFits(step', side', line', fileIdToGive', end', fds'[Shell], fdReplacements'[Shell])
  <2>1. /\ StdinOf("revert", side, line, fileIdToGive) = StdinOf("start", side, line, fileIdToGive)
        /\ StdoutOf("revert", side, line, fileIdToGive) =
             StdoutOf("start", side, line, fileIdToGive)
        /\ FourthOf("revert", side, line, fileIdToGive) =
             FourthOf("start", side, line, fileIdToGive)
        /\ FourthOf("revert", side, line, fileIdToGive) = Closed
    BY DEF StdinOf, StdoutOf, FourthOf
  <2>2. TableFits("start", side, line, fileIdToGive, end, fds[Shell], fdReplacements[Shell])
    BY <1>1 DEF ShellInv
  <2>3. TableFits("revert", side, line, fileIdToGive, end, fds[Shell], fdReplacements[Shell])
    BY <2>1, <2>2, SameTable
  <2>4. fds'[Shell] = fds[Shell]
    BY <1>4, <1>5, ShellIs
  <2> QED
    BY <1>1, <1>3, <2>3, <2>4
<1>11. LeftEnds' /\ PipeGone'
  <2>1. side = "left" => job'["left"] = p
    BY <1>1 DEF ShellInv, JobsFit
  <2>2. \A fd \in Fd : fds[Shell][fd].fileID <= STDERR \/ fds[Shell][fd].fileID = fileIdToGive - 1
    <3>1. \A fd \in Fd : fds[Shell][fd].fileID \in Int
      BY ShellIs DEF fileDescriptor
    <3>2. \A fd \in Fd : fds[Shell][fd].fileID > STDERR => fds[Shell][fd].fileID = fileIdToGive - 1
      BY <1>1, StartTable
    <3> QED
      BY <3>1, <3>2 DEF STDERR
  <2>3. side = "left" =>
            \A fd \in Fd : \/ fds'[job'["left"]][fd].fileID <= STDERR
                           \/ fds'[job'["left"]][fd].fileID = fileIdToGive - 1
    BY <1>5, <2>1, <2>2
  <2>4. LeftEnds'
    BY <1>1, <1>3, <2>3 DEF LeftEnds
  <2> QED
    BY <1>1, <2>4 DEF PipeGone
<1>12. OwnEnds(state', fds', role')
  <2>1. ASSUME NEW q \in Process \ {InitPid, Shell}, NEW fd \in Fd, Alive(state', q),
               fds'[q][fd].fileID > STDERR
        PROVE  \/ role'[q] = "source" /\ fd = 1 /\ fds'[q][fd].mode = "W"
               \/ role'[q] = "sink" /\ fd = 0 /\ fds'[q][fd].mode = "R"
    <3>1. CASE q = p
      <4>1. role'[p] = IF side = "left" THEN "source" ELSE "sink"
        BY <1>1 DEF ShellInv, JobsFit
      <4>2. fds'[q][fd] = fds[Shell][fd]
        BY <1>5, <3>1
      <4> QED
        BY <1>1, <2>1, <3>1, <4>1, <4>2, StartTable
    <3>2. CASE q # p
      <4>1. role'[q] = role[q]
        BY <1>1, <3>2 DEF ShellInv, JobsFit
      <4>2. fds'[q] = fds[q] /\ state'[q] = state[q]
        BY <1>5, <3>2
      <4> QED
        BY <2>1, <4>1, <4>2 DEF ShellInv, OwnEnds, Alive
    <3> QED
      BY <3>1, <3>2
  <2> QED
    BY <2>1 DEF OwnEnds
<1>13. (pipesCreated = fileIdToGive - STDERR)'
  BY <1>1, <1>3 DEF ShellInv
<1> QED
  BY <1>2, <1>7, <1>8, <1>9, <1>10, <1>11, <1>12, <1>13 DEF ShellInv

\* The shell's descriptors are its own again.
LEMMA RevertedIs ==
    ASSUME ShellInv, DeadMakeNoCalls, nowRunning = Shell, step = "revert", Revert
    PROVE  /\ PipesKept' /\ UNCHANGED <<state, fileIdToGive, call>>
           /\ fds'[Shell] = DefaultFds /\ fdReplacements'[Shell] = <<>>
           /\ \A p \in Process \ {Shell} : fds'[p] = fds[p]
<1> DEFINE t == fds[Shell]
           lost == fdReplacements[Shell]
           in == StdinOf("revert", side, line, fileIdToGive)
           out == StdoutOf("revert", side, line, fileIdToGive)
<1>1. t \in [Fd -> fileDescriptor] /\ lost \in Seq(fdReplacement)
  BY ShellIs
<1>2. LostFit(t, lost) /\ TableIs(t, in, out, Closed) /\ t[0] = in /\ t[1] = out
  <2>1. FourthOf("revert", side, line, fileIdToGive) = Closed
    BY DEF FourthOf
  <2> QED
    BY <2>1, ShellTable
<1>3. Replaced = LostIndices(lost) /\ \A fd : OldestMode(fd) = OldestLost(lost, fd)
  BY DEF Replaced, LostIndices, OldestMode, OldestLost
<1> HIDE DEF in, out
<1>4. CASE Replaced = {} /\ UNCHANGED pipeVars
  <2>1. PipesKept' /\ UNCHANGED <<state, fds, fdReplacements, fileIdToGive, call>>
    BY <1>4, NothingMoves DEF pipeVars, processVars, fileVars
  <2>2. DOMAIN lost = {}
    BY <1>3, <1>4 DEF LostIndices
  <2>3. t[0] = DefaultFds[0] /\ t[1] = DefaultFds[1]
    BY <1>2, <2>2 DEF LostFit
  <2>4. TableIs(t, DefaultFds[0], DefaultFds[1], Closed)
    BY <1>2, <2>3
  <2>5. t = DefaultFds /\ lost = <<>>
    BY <1>1, <1>2, <2>4, OwnTable
  <2> QED
    BY <2>1, <2>5
<1>5. CASE RevertFdReplacements
  <2>1. /\ UNCHANGED <<state, fileIdToGive, call>>
        /\ fds' = [fds EXCEPT ![Shell] =
                      [fd \in Fd |-> IF fd \in Replaced
                                     THEN [fileID |-> fd, mode |-> OldestMode(fd)] ELSE t[fd]]]
        /\ fdReplacements' = [fdReplacements EXCEPT ![Shell] = <<>>]
    BY <1>5 DEF RevertFdReplacements, processVars
  <2> HIDE DEF t, lost
  <2>2. /\ Replaced \subseteq {0, 1}
        /\ \A fd \in Fd : DefaultFds[fd] =
              IF fd \in Replaced THEN [fileID |-> fd, mode |-> OldestMode(fd)] ELSE t[fd]
    BY <1>1, <1>2, <1>3, RevertedTable
  <2>3. DefaultFds = [fd \in Fd |-> IF fd \in Replaced
                                    THEN [fileID |-> fd, mode |-> OldestMode(fd)] ELSE t[fd]]
    <3>1. DefaultFds = [fd \in Fd |-> DefaultFds[fd]]
      BY StandardFiles
    <3> QED
      BY <2>2, <3>1
  <2>4. PipesKept'
    BY <1>5, <2>2, RevertKeeps DEF ShellInv
  <2>5. fds' = [fds EXCEPT ![Shell] = DefaultFds]
    BY <2>1, <2>3, Zenon
  <2> QED
    BY <2>1, <2>4, <2>5, ShellIs
<1> QED
  BY <1>4, <1>5 DEF Revert

LEMMA OwnFilesFit ==
    ASSUME NEW stp \in AtRest, NEW s, NEW ln, NEW next, NEW e
    PROVE  TableFits(stp, s, ln, next, e, DefaultFds, <<>>)
<1>1. TableIs(DefaultFds, DefaultFds[0], DefaultFds[1], Closed)
  BY StandardFiles DEF TableIs
<1>2. LostFit(DefaultFds, <<>>)
  BY DEF LostFit
<1> QED
  BY <1>1, <1>2, RestTable DEF TableFits

LEMMA RevertStandardStep ==
    ASSUME ShellInv, DeadMakeNoCalls, RevertStandard
    PROVE  ShellInv'
<1>1. /\ nowRunning = Shell /\ step = "revert" /\ Revert
      /\ step' = IF line.piped /\ side = "left" THEN "openR" ELSE FirstWait
      /\ UNCHANGED <<line, side, end, job, role, background, pipesCreated>>
  BY DEF RevertStandard, Calling
<1>2. /\ PipesKept' /\ UNCHANGED <<state, fileIdToGive, call>>
      /\ fds'[Shell] = DefaultFds /\ fdReplacements'[Shell] = <<>>
      /\ \A p \in Process \ {Shell} : fds'[p] = fds[p]
  BY <1>1, RevertedIs
<1>3. /\ StepFits("revert", side, line, fileIdToGive)
      /\ line.piped \in BOOLEAN
  BY <1>1 DEF ShellInv, StepFits
<1>4. FirstWait \in {"waitLeft", "waitRight", "prompt"}
  BY DEF FirstWait
<1>5. StepFits(step', side', line', fileIdToGive')
  BY <1>1, <1>2, <1>3, <1>4 DEF StepFits, Steps
<1>6. TableFits(step', side', line', fileIdToGive', end', fds'[Shell], fdReplacements'[Shell])
  <2>1. step' \in AtRest
    BY <1>1, <1>4 DEF AtRest
  <2> QED
    BY <1>2, <2>1, OwnFilesFit
<1>7. ShellAwake' /\ JobsFit'
  BY <1>1, <1>2 DEF ShellInv, ShellAwake, JobsFit
<1>8. LeftEnds' /\ PipeGone'
  <2>1. LeftEnds'
    BY <1>1, <1>2, BizcochoAssumption DEF ShellInv, JobsFit, LeftEnds
  <2>2. step' # "killLeft"
    BY <1>1, <1>4
  <2> QED
    BY <2>1, <2>2 DEF PipeGone
<1>9. OwnEnds(state', fds', role')
  BY <1>1, <1>2, OthersKeep
<1>10. (pipesCreated = fileIdToGive - STDERR)'
  BY <1>1, <1>2 DEF ShellInv
<1> QED
  BY <1>2, <1>5, <1>6, <1>7, <1>8, <1>9, <1>10 DEF ShellInv

LEMMA WaitStep ==
    ASSUME ShellInv, NEW s \in {"left", "right"}, WaitForProgram(s)
    PROVE  ShellInv'
<1>1. /\ step = IF s = "left" THEN "waitLeft" ELSE "waitRight"
      /\ Reap(job[s]) /\ job' = [job EXCEPT ![s] = NoProcess]
      /\ step' = IF s = "left" /\ "right" \in Awaited THEN "waitRight" ELSE "prompt"
      /\ UNCHANGED <<line, side, end, pipesCreated>>
  BY DEF WaitForProgram, Calling
<1>2. job[s] \in (Process \ {Shell}) \cup {NoProcess}
  BY DEF ShellInv, JobsFit
<1>3. /\ PipesKept' /\ ShellAwake'
      /\ role' \in [Process -> {"none", "source", "sink"}] /\ role'[Shell] = "none"
      /\ background' \subseteq Process \ {Shell}
      /\ UNCHANGED <<fds, fdReplacements, fileIdToGive>>
      /\ \A q \in Process : Alive(state', q) => Alive(state, q) /\ role'[q] = role[q]
  <2>1. CASE job[s] \in Process
    <3>1. PICK p \in Process : p = job[s]
      BY <2>1
    <3>2. Reap(p)
      BY <1>1, <3>1
    <3> QED
      BY <3>2, ReapKeeps, ShellIs DEF ShellInv, JobsFit
  <2>2. CASE job[s] \notin Process
    <3>1. /\ state' = [state EXCEPT ![job[s]] = "NONE"]
          /\ call' = [call EXCEPT ![job[s]] = NoCall]
          /\ atEnd' = [atEnd EXCEPT ![job[s]] = FALSE]
          /\ role' = [role EXCEPT ![job[s]] = "none"]
          /\ background' = background \ {job[s]}
          /\ UNCHANGED <<blockedReason, nowRunning, fds, fdReplacements, pipe, fileIdToGive, hung>>
      BY <1>1 DEF Reap, fileVars
    <3>2. DOMAIN state = Process /\ DOMAIN call = Process /\ DOMAIN atEnd = Process
          /\ DOMAIN role = Process
      BY ShellIs DEF PipeInv, TypeOK, ShellInv, JobsFit
    <3>3. /\ state = [q \in Process |-> state[q]] /\ call = [q \in Process |-> call[q]]
          /\ atEnd = [q \in Process |-> atEnd[q]] /\ role = [q \in Process |-> role[q]]
      BY ShellIs DEF PipeInv, TypeOK, ShellInv, JobsFit
    <3>4. state' = state /\ call' = call
      BY <2>2, <3>1, <3>2, <3>3
    <3>5. atEnd' = atEnd /\ role' = role
      BY <2>2, <3>1, <3>2, <3>3
    <3>6. UNCHANGED pipeVars
      BY <3>1, <3>4, <3>5 DEF pipeVars, processVars, fileVars
    <3>7. PipesKept' /\ ShellAwake'
      BY <3>6, NothingMoves
    <3> QED
      BY <3>1, <3>4, <3>5, <3>7 DEF ShellInv, JobsFit
  <2> QED
    BY <2>1, <2>2
<1>4. JobsFit'
  <2>1. job' \in [{"left", "right"} -> (Process \ {Shell}) \cup {NoProcess}]
    BY <1>1 DEF ShellInv, JobsFit
  <2> QED
    BY <1>3, <2>1 DEF JobsFit
<1>5. /\ StepFits(step, side, line, fileIdToGive) /\ step # "prompt"
      /\ line.piped \in BOOLEAN /\ step \in AtRest /\ step' \in AtRest
      /\ step' \in {"waitRight", "prompt"} /\ step \notin {"prompt", "mkpipe"}
  BY <1>1 DEF ShellInv, StepFits, AtRest
<1>6. StepFits(step', side', line', fileIdToGive')
  BY <1>1, <1>3, <1>5 DEF StepFits, Steps
<1>7. TableFits(step', side', line', fileIdToGive', end', fds'[Shell], fdReplacements'[Shell])
  <2>1. TableFits(step, side, line, fileIdToGive, end, fds'[Shell], fdReplacements'[Shell])
    BY <1>3 DEF ShellInv
  <2> QED
    BY <1>5, <2>1, RestTableStays
<1>8. LeftEnds' /\ PipeGone'
  BY <1>5 DEF LeftEnds, PipeGone
<1>9. OwnEnds(state', fds', role')
  BY <1>3 DEF ShellInv, OwnEnds
<1>10. (pipesCreated = fileIdToGive - STDERR)'
  BY <1>1, <1>3 DEF ShellInv
<1> QED
  BY <1>3, <1>4, <1>6, <1>7, <1>8, <1>9, <1>10 DEF ShellInv

-----------------------------------------------------------------------------
(* The theorems.                                                           *)

LEMMA ShellInvInit ==
    ASSUME ShellInit
    PROVE  ShellInv
<1>1. PipeInv /\ Init
  BY PipeInvInit DEF ShellInit
<1>2. /\ \A p \in Process, fd \in Fd : fds[p][fd] = DefaultFds[fd]
      /\ \A f \in File : pipe[f].name = NoName
  BY <1>1, NoPipeType DEF Init
<1>3. \A p \in Process, fd \in Fd : ~(fds[p][fd].fileID > STDERR)
  <2>1. \A fd \in Fd : DefaultFds[fd].fileID <= STDERR /\ DefaultFds[fd].fileID \in Int
    BY StandardFiles DEF fileDescriptor
  <2> QED
    BY <1>2, <2>1 DEF STDERR
<1>4. PipesKept
  BY <1>1, <1>2, <1>3 DEF PipesKept, EndsOnPipes, Numbered
<1>5. Shell \in Process /\ Shell # InitPid /\ NoProcess \notin Process
  BY BizcochoAssumption
<1>6. ShellAwake /\ JobsFit /\ pipesCreated = fileIdToGive - STDERR
  BY <1>1, <1>5 DEF ShellInit, Init, ShellAwake, JobsFit, STDERR
<1>7. StepFits(step, side, line, fileIdToGive)
  BY DEF ShellInit, StepFits, Steps
<1>8. TableFits(step, side, line, fileIdToGive, end, fds[Shell], fdReplacements[Shell])
  <2>1. fds[Shell] = DefaultFds /\ fdReplacements[Shell] = <<>> /\ step \in AtRest
    BY <1>1, <1>5 DEF ShellInit, Init, AtRest
  <2> QED
    BY <2>1, OwnFilesFit
<1>9. LeftEnds /\ PipeGone /\ OwnEnds(state, fds, role)
  BY <1>3 DEF ShellInit, LeftEnds, PipeGone, OwnEnds
<1> QED
  BY <1>4, <1>6, <1>7, <1>8, <1>9 DEF ShellInv

LEMMA ShellInvStep ==
    ASSUME ShellInv, ShellsUse, [ShellNext]_allVars
    PROVE  ShellInv'
<1>0. DeadMakeNoCalls
  BY DEF ShellsUse
<1>1. CASE UNCHANGED allVars
  <2>1. UNCHANGED pipeVars /\ UNCHANGED shellVars
    BY <1>1 DEF allVars
  <2>2. PipesKept' /\ ShellAwake'
    BY <2>1, NothingMoves
  <2>3. UNCHANGED <<state, fds, fdReplacements, pipe, fileIdToGive>>
    BY <2>1 DEF pipeVars, processVars, fileVars
  <2>4. JobsFit' /\ NamesGo(pipe')
    BY <2>1, <2>3 DEF ShellInv, JobsFit, shellVars, NamesGo
  <2> QED
    BY <2>1, <2>2, <2>3, <2>4, MeanwhileStep DEF shellVars, Alive
<1>2. CASE \E l \in Lines : TypeLine(l)
  BY <1>2, TypeLineStep
<1>3. CASE ShellStep
  <2>1. CASE MakePipe \/ OpenWriteEnd \/ OpenReadEnd \/ KillLeft
    BY <2>1, MakePipeStep, OpenWriteEndStep, OpenReadEndStep, KillLeftStep
  <2>2. CASE ReplaceStandard
    BY <1>0, <2>2, ReplaceStep
  <2>3. CASE \E p \in Process : StartProgram(p)
    BY <1>0, <2>3, StartProgramStep
  <2>4. CASE RevertStandard
    BY <1>0, <2>4, RevertStandardStep
  <2>5. CASE \E s \in {"left", "right"} : WaitForProgram(s)
    BY <2>5, WaitStep
  <2> QED
    BY <1>3, <2>1, <2>2, <2>3, <2>4, <2>5 DEF ShellStep
<1>4. CASE GoOn \/ EscapeKey
  BY <1>4, GoOnStep, EscapeStep
<1>5. CASE \E p \in Process : \/ Source(p) \/ Sink(p) \/ KillCommand(p) \/ InitReaps(p)
                              \/ TimerTick(p)
  BY <1>0, <1>5, ProgramStep, KillCommandStep, InitReapsStep, TimerStep
<1> QED
  BY <1>1, <1>2, <1>3, <1>4, <1>5 DEF ShellNext

\* Whatever happens to the programs meanwhile, the shell reads the next line with its
\* own standard files and no other descriptor.
THEOREM PromptStandard ==
    ASSUME ShellsUse
    PROVE  ShellSpec => []PromptHasStandardFiles
<1>1. ShellInit => ShellInv
  BY ShellInvInit
<1>2. ShellInv /\ [ShellNext]_allVars => ShellInv'
  BY ShellInvStep
<1>3. ShellInv => PromptHasStandardFiles
  <2> SUFFICES ASSUME ShellInv, step = "prompt"
               PROVE  fds[Shell] = DefaultFds /\ fdReplacements[Shell] = <<>>
    BY DEF PromptHasStandardFiles
  <2>1. step \in AtRest
    BY DEF AtRest
  <2>2. /\ TableIs(fds[Shell], DefaultFds[0], DefaultFds[1], Closed)
        /\ LostFit(fds[Shell], fdReplacements[Shell])
    BY <2>1, RestTable DEF ShellInv, TableFits
  <2> QED
    BY <2>2, ShellIs, OwnTable
<1> QED
  BY <1>1, <1>2, <1>3, PTL DEF ShellSpec

\* A program has the end of the pipe that is on its side of the |, in the place of the
\* standard file, and no other.
THEOREM ProgramsEndsTheirOwn ==
    ASSUME ShellsUse
    PROVE  ShellSpec => []OnlyTheirOwnEnds
<1>1. ShellInit => ShellInv
  BY ShellInvInit
<1>2. ShellInv /\ [ShellNext]_allVars => ShellInv'
  BY ShellInvStep
<1>3. ShellInv => OnlyTheirOwnEnds
  <2> SUFFICES ASSUME ShellInv, NEW p \in Process \ {InitPid, Shell},
                      NEW e \in {x \in EndsOf({p}) : Live(p)}
               PROVE  \/ role[p] = "source" /\ e[2] = 1 /\ fds[p][1].mode = "W"
                      \/ role[p] = "sink" /\ e[2] = 0 /\ fds[p][0].mode = "R"
    BY DEF OnlyTheirOwnEnds
  <2>1. e[1] = p /\ e[2] \in Fd /\ fds[p][e[2]].fileID > STDERR /\ Alive(state, p)
    BY DEF EndsOf, Live, Alive
  <2>2. PICK fd \in Fd : fd = e[2]
    BY <2>1
  <2> QED
    BY <2>1, <2>2 DEF ShellInv, OwnEnds
<1> QED
  BY <1>1, <1>2, <1>3, PTL DEF ShellSpec
=============================================================================

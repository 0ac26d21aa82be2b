------------------------------ MODULE Bizcocho ------------------------------
(***************************************************************************)
(* The shell (Userland/SampleCodeModule/c/bizcocho.c) on top of Pipes: how *)
(* it starts one program or two with a pipe between them, and what its     *)
(* programs do to the pipe (cat, wc, filter: commands.c).                  *)
(*                                                                         *)
(* The shell gives a program its standard files by changing its own, and   *)
(* changing them back after the start: each of those calls is a step, and  *)
(* the programs that are already running, the timer and the ESC key come   *)
(* in between.  A program on the left or alone writes and may end when it  *)
(* likes; one on the right reads to the end of the pipe.  waitchild is a   *)
(* step that is taken when the child has ended: its sleep is in Scheduler. *)
(***************************************************************************)
EXTENDS Pipes

CONSTANT Lines \* what the user types

NoProcess == "no process"
NO_CHANGE_FD == -2
EMPTY_FD == 3 \* syslib.h: a descriptor that is never open

\* A line is a program alone or two with a pipe; back has those with a & at the end.
ASSUME BizcochoAssumption ==
    /\ Lines \subseteq [piped : BOOLEAN, back : SUBSET {"left", "right"}]
    /\ NoProcess \notin Process /\ Shell \in Process \ {InitPid}

VARIABLES
    step,         \* the next system call of the shell
    line,         \* the line under way
    side,         \* whose executeNonBuiltIn is under way
    end,          \* writeFd, then readFd
    job,          \* leftPid and rightPid
    role,         \* what each process runs: source, sink
    background,   \* the processes that were started with a &
    pipesCreated  \* pipesCreated

shellVars == <<step, line, side, end, job, role, background, pipesCreated>>
allVars == <<pipeVars, shellVars>>

Calling(s) == nowRunning = Shell /\ InUserCode /\ step = s

InBackground(s) == s \in line.back

-----------------------------------------------------------------------------
(* The main loop: a line is read, a pipe is made and its write end opened. *)

Unused == {p \in Process : state[p] = "NONE"}

TypeLine(l) ==
    /\ Calling("prompt")
    /\ Cardinality(Unused) >= IF l.piped THEN 2 ELSE 1
    /\ l.piped => fileIdToGive <= MaxFileId
    /\ line' = l /\ side' = "left"
    /\ step' = IF l.piped THEN "mkpipe" ELSE IF "left" \in l.back THEN "dupIn" ELSE "start"
    /\ UNCHANGED <<pipeVars, end, job, role, background, pipesCreated>>

MakePipe ==
    /\ Calling("mkpipe")
    /\ Mkpipe(pipesCreated)
    /\ pipesCreated' = pipesCreated + 1
    /\ step' = "openW"
    /\ UNCHANGED <<line, side, end, job, role, background>>

OpenEnd(mode, s) ==
    /\ Open(pipesCreated - 1, mode)
    /\ end' = Min(FreeFds)
    /\ step' = s

OpenWriteEnd ==
    /\ Calling("openW")
    /\ OpenEnd("W", IF InBackground("left") THEN "dupIn" ELSE "dupOut")
    /\ UNCHANGED <<line, side, job, role, background, pipesCreated>>

\* The left program may have ended and taken the pipe with it.
OpenReadEnd ==
    /\ Calling("openR")
    /\ \/ OpenEnd("R", "dupIn") /\ side' = "right"
       \/ /\ FileNamed(pipesCreated - 1) = EMPTY
          /\ step' = "killLeft"
          /\ UNCHANGED <<pipeVars, end, side>>
    /\ UNCHANGED <<line, job, role, background, pipesCreated>>

\* It is killed once more, unless init has reaped it, and nobody waits for it.
KillLeft ==
    /\ Calling("killLeft")
    /\ \/ job.left # NoProcess /\ KillProcess(job.left)
       \/ /\ job.left = NoProcess
          /\ Dispatch(state)
          /\ UNCHANGED <<state, blockedReason, fileVars, call, atEnd, hung>>
    /\ step' = "prompt"
    /\ UNCHANGED <<line, side, end, job, role, background, pipesCreated>>

-----------------------------------------------------------------------------
(* executeNonBuiltIn.                                                      *)

stdinChange == CASE side = "right" -> end
                 [] side = "left" /\ InBackground("left") -> EMPTY_FD
                 [] OTHER -> NO_CHANGE_FD

stdoutChange == IF line.piped /\ side = "left" THEN end ELSE NO_CHANGE_FD

\* close fails on EMPTY_FD.
\* (a bug would be: the end stays open next to its copy)
CloseReplacedNever(fd) == UNCHANGED pipeVars

CloseReplaced(fd) == IF Exists(fds[nowRunning][fd].fileID) THEN CloseFd(fd)
                                                           ELSE UNCHANGED pipeVars

Replace(standard) ==
    \/ /\ Calling("dupIn") /\ standard = 0
       /\ Dup2(stdinChange, 0)
       /\ step' = "closeIn"
    \/ /\ Calling("closeIn") /\ standard = 0
       /\ CloseReplaced(stdinChange)
       /\ step' = IF stdoutChange = NO_CHANGE_FD THEN "start" ELSE "dupOut"
    \/ /\ Calling("dupOut") /\ standard = 1
       /\ Dup2(stdoutChange, 1)
       /\ step' = "closeOut"
    \/ /\ Calling("closeOut") /\ standard = 1
       /\ CloseReplaced(stdoutChange)
       /\ step' = "start"

ReplaceStandard ==
    /\ \E standard \in {0, 1} : Replace(standard)
    /\ UNCHANGED <<line, side, end, job, role, background, pipesCreated>>

\* A program in the background is a child of init that copies the shell's descriptors,
\* and the ESC key does not kill it.
StartProgram(p) ==
    /\ Calling("start")
    /\ Start(p, fds[Shell])
    /\ role' = [role EXCEPT ![p] = IF side = "left" THEN "source" ELSE "sink"]
    /\ background' = IF InBackground(side) THEN background \cup {p} ELSE background \ {p}
    /\ job' = [job EXCEPT ![side] = p]
    /\ step' = "revert"
    /\ UNCHANGED <<line, side, end, pipesCreated>>

\* The programs of line l that the shell waits for.
Awaited == {s \in {"left"} \cup (IF line.piped THEN {"right"} ELSE {}) : ~InBackground(s)}

\* (a bug would be: the descriptors are not changed back)
RevertNever == UNCHANGED pipeVars

Revert == IF Replaced = {} THEN UNCHANGED pipeVars ELSE RevertFdReplacements

FirstWait == IF "left" \in Awaited THEN "waitLeft"
             ELSE IF "right" \in Awaited THEN "waitRight" ELSE "prompt"

RevertStandard ==
    /\ Calling("revert")
    /\ Revert
    /\ step' = IF line.piped /\ side = "left" THEN "openR" ELSE FirstWait
    /\ UNCHANGED <<line, side, end, job, role, background, pipesCreated>>

-----------------------------------------------------------------------------
(* The end of a program.                                                   *)

\* waitchild on p, which has ended.
Reap(p) ==
    /\ InterruptsEnabled /\ state[p] = "FINISHED"
    /\ state' = [state EXCEPT ![p] = "NONE"]
    /\ call' = [call EXCEPT ![p] = NoCall]
    /\ atEnd' = [atEnd EXCEPT ![p] = FALSE]
    /\ role' = [role EXCEPT ![p] = "none"]
    /\ background' = background \ {p}
    /\ UNCHANGED <<blockedReason, nowRunning, fileVars, hung>>

WaitForProgram(s) ==
    /\ Calling(IF s = "left" THEN "waitLeft" ELSE "waitRight")
    /\ Reap(job[s])
    /\ job' = [job EXCEPT ![s] = NoProcess]
    /\ step' = IF s = "left" /\ "right" \in Awaited THEN "waitRight" ELSE "prompt"
    /\ UNCHANGED <<line, side, end, pipesCreated>>

InitReaps(p) ==
    /\ nowRunning = InitPid /\ p \in background
    /\ Reap(p)
    /\ job' = [s \in DOMAIN job |-> IF job[s] = p THEN NoProcess ELSE job[s]]
    /\ UNCHANGED <<step, line, side, end, pipesCreated>>

-----------------------------------------------------------------------------
(* The programs, the commands kill and ESC, and the timer.                 *)

Source(p) ==
    /\ nowRunning = p /\ role[p] = "source"
    /\ \/ \E s \in Text : Write(1, s)
       \/ Exit
    /\ UNCHANGED shellVars

\* cat, wc and filter read character by character and end with the pipe.
Sink(p) ==
    /\ nowRunning = p /\ role[p] = "sink"
    /\ IF atEnd[p] THEN Exit ELSE Read(0, 1)
    /\ UNCHANGED shellVars

GoOn == (ResumeRead \/ ResumeWrite) /\ UNCHANGED shellVars

\* The command kill; a second one before init has reaped is in Pipes (killZombie).
KillCommand(p) ==
    /\ Calling("prompt") /\ p \in background /\ Live(p)
    /\ KillProcess(p)
    /\ UNCHANGED shellVars

EscapeKey ==
    /\ InterruptsEnabled
    /\ LET K == {p \in Process : role[p] # "none" /\ Live(p)} \ background
       IN  K # {} /\ Kill(K)
    /\ UNCHANGED <<nowRunning, shellVars>>

TimerTick(p) == Tick(p) /\ UNCHANGED shellVars

ShellInit ==
    /\ Init
    /\ step = "prompt"
    /\ line = [piped |-> FALSE, back |-> {}] /\ side = "left"
    /\ end = EMPTY_FD
    /\ job = [s \in {"left", "right"} |-> NoProcess]
    /\ role = [p \in Process |-> "none"]
    /\ background = {}
    /\ pipesCreated = 1

\* What the shell does by itself.
ShellStep ==
    \/ MakePipe \/ OpenWriteEnd \/ OpenReadEnd \/ KillLeft \/ ReplaceStandard
    \/ \E p \in Process : StartProgram(p)
    \/ RevertStandard
    \/ \E s \in {"left", "right"} : WaitForProgram(s)

ShellNext ==
    \/ \E l \in Lines : TypeLine(l)
    \/ ShellStep \/ GoOn \/ EscapeKey
    \/ \E p \in Process : \/ Source(p) \/ Sink(p) \/ KillCommand(p) \/ InitReaps(p)
                          \/ TimerTick(p)

ShellSpec == ShellInit /\ [][ShellNext]_allVars

\* What a process does by itself, once it runs; a program on the left may do no more
\* than end.
NextCall(p) ==
    \/ p = Shell /\ ShellStep
    \/ Sink(p)
    \/ nowRunning = p /\ role[p] = "source" /\ Exit /\ UNCHANGED shellVars

\* The timer dispatches every READY process again and again, who runs again and again
\* makes its next call, a call that has woken goes on, and a program on the left ends
\* sooner or later.  Nothing is assumed of the user.
FairShellSpec ==
    /\ ShellSpec
    /\ WF_allVars(GoOn)
    /\ \A p \in Process \ {InitPid} : SF_allVars(TimerTick(p)) /\ SF_allVars(NextCall(p))

-----------------------------------------------------------------------------
(* Properties.                                                             *)

\* Whatever programs have been started, interrupted and killed meanwhile, the shell
\* reads the next line with its own standard files and no other descriptor.
PromptHasStandardFiles ==
    step = "prompt" => fds[Shell] = DefaultFds /\ fdReplacements[Shell] = <<>>

\* A program has the end of the pipe that is on its side of the |, in the place of
\* the standard file, and no other: with one more, a reader would wait for itself or
\* for the shell.
OnlyTheirOwnEnds ==
    \A p \in Process \ {InitPid, Shell} : \A e \in {x \in EndsOf({p}) : Live(p)} :
        \/ role[p] = "source" /\ e[2] = 1 /\ fds[p][1].mode = "W"
        \/ role[p] = "sink" /\ e[2] = 0 /\ fds[p][0].mode = "R"

\* The prompt comes back after every line whose left program ends sooner or later: no
\* order of ends, starts, kills and ESC keys leaves the shell waiting.
PromptReturns == step # "prompt" ~> step = "prompt"

\* No program sleeps in read for ever, in the background neither: the shell has dropped
\* its own write end when it starts the reader, and the writer's end wakes it.
ReadersMoveOn ==
    \A p \in Process \ {InitPid, Shell} :
        (Live(p) /\ call[p].op = "read") ~> ~(Live(p) /\ call[p].op = "read")
=============================================================================

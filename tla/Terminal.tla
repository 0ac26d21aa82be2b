------------------------------ MODULE Terminal ------------------------------
(***************************************************************************)
(* The terminal: keyboard and screen with the one who sits between them,   *)
(* the shell at its prompt (readUntilEnter in bizcocho.c), which reads a   *)
(* character at a time from STDIN and echoes it.  The keyboard interrupts  *)
(* at any point outside of a system call.                                  *)
(***************************************************************************)
EXTENDS Keyboard, Screen

CONSTANTS
    LINE_DIM, \* BUFFER_DIM of the shell
    Colors    \* the pairs that the color command is given

ASSUME LineAssumption == LINE_DIM \in Nat /\ LINE_DIM >= 2

VARIABLES
    screen,
    pc,     \* where the shell stands
    line,   \* buffer of the shell
    index,  \* bufferIndex of readUntilEnter
    cleaned \* history: this line has been cleaned of its backspaces

terminalVars == <<kbVars, screen, pc, line, index, cleaned>>
shellVars == <<pc, line, index, cleaned>>

EmptyLine == [i \in 0 .. LINE_DIM - 1 |-> NUL]

TerminalInit ==
    /\ KeyboardInit
    /\ screen = ClearedScreen
    /\ pc = "prompt" /\ line = EmptyLine /\ index = 0 /\ cleaned = FALSE

promptColor == [bg |-> DEFAULT, ch |-> L_RED]
ErrorFormat == [bg |-> RED, ch |-> WHITE]

\* Mutant of WokenBy: a key that comes up wakes nobody.
WokenByPressed(down) == pc = "asleep" /\ down

\* The handler unblocks whoever sleeps for STDIN, whatever the key.
WokenBy(down) == pc = "asleep"

KeyStruck(key, down) ==
    /\ KeyInterrupt(key, down)
    /\ pc' = IF WokenBy(down) THEN "read" ELSE pc
    /\ UNCHANGED <<screen, line, index, cleaned>>

Prefixed == PrefixInterrupt /\ UNCHANGED <<screen, shellVars>>

Prompts ==
    /\ pc = "prompt"
    /\ screen' = printToScreen(screen, <<">">>, promptColor)
    /\ pc' = "clean"
    /\ line' = EmptyLine /\ index' = 0 /\ cleaned' = FALSE
    /\ UNCHANGED kbVars

Cleans ==
    /\ pc = "clean"
    /\ cleanBuffer
    /\ pc' = "base"
    /\ UNCHANGED <<screen, line, index, cleaned>>

SetsBase ==
    /\ pc = "base"
    /\ screen' = setBackspaceBase(screen)
    /\ pc' = "read"
    /\ UNCHANGED <<kbVars, line, index, cleaned>>

\* read(STDIN) of one character: sleeps for {PIPE_READ, 0} when there is none.
Reads ==
    LET got == readPrintables(1) IN
    /\ pc = "read" /\ index < LINE_DIM - 1
    /\ TakesFromRing(got)
    /\ IF got.chars = <<>> THEN pc' = "asleep" /\ UNCHANGED line
       ELSE pc' = "echo" /\ line' = [line EXCEPT ![index] = got.chars[1]]
    /\ UNCHANGED <<screen, index, cleaned>>

\* The string that begins at place `from' of a buffer.
StringAt(buffer, from) ==
    LET end == CHOOSE e \in from .. LINE_DIM :
                   (e = LINE_DIM \/ buffer[e] = NUL) /\ \A i \in from .. e - 1 : buffer[i] # NUL
    IN  [i \in 1 .. end - from |-> buffer[from + i - 1]]

Rubbed(text, char) ==
    IF char # BS THEN Append(text, char)
    ELSE IF text = <<>> THEN text ELSE Front(text)

\* removeBackspaces: the string without the characters that were rubbed out ...
Remaining(string) == FoldLeft(Rubbed, <<>>, string)

\* ... written over the old one, of which the rest stays behind its new end.
removeBackspaces(buffer) ==
    LET text == Remaining(StringAt(buffer, 0)) IN
    [i \in DOMAIN buffer |-> CASE i < Len(text) -> text[i + 1]
                               [] i = Len(text) -> NUL
                               [] OTHER -> buffer[i]]

\* The buffer is full: without its backspaces it may have room, or the line ends.
MakesRoom ==
    LET length == Len(Remaining(StringAt(line, 0))) IN
    /\ pc = "read" /\ index = LINE_DIM - 1
    /\ line' = removeBackspaces(line)
    /\ index' = length
    /\ cleaned' = TRUE
    /\ IF length = LINE_DIM - 1
       THEN screen' = printToScreen(screen, <<NL>>, Standard) /\ pc' = "run"
       ELSE UNCHANGED <<screen, pc>>
    /\ UNCHANGED kbVars

\* printf("%s", buffer + bufferIndex), and the end of the line.
Echoes ==
    /\ pc = "echo"
    /\ screen' = printToScreen(screen, StringAt(line, index), Standard)
    /\ index' = index + 1
    /\ IF line[index] = NL
       THEN pc' = "run" /\ line' = removeBackspaces([line EXCEPT ![index] = NUL])
       ELSE pc' = "read" /\ UNCHANGED line
    /\ UNCHANGED <<kbVars, cleaned>>

\* A built-in command: it prints nothing here, an error, new colours or no screen.
Runs ==
    /\ pc = "run"
    /\ screen' \in {screen, printToScreen(screen, <<"!", NL>>, ErrorFormat), clearScreen(screen)}
                   \cup {changeColor(screen, c[1], c[2]) : c \in Colors}
    /\ pc' = "prompt"
    /\ UNCHANGED <<kbVars, line, index, cleaned>>

TerminalNext == \/ Prefixed \/ \E key \in keys, down \in BOOLEAN : KeyStruck(key, down)
                \/ Prompts \/ Cleans \/ SetsBase \/ Reads \/ MakesRoom \/ Echoes \/ Runs
-----------------------------------------------------------------------------
\* A reader sleeps only when there is no event left in the ring: the check for
\* one and the sleep are one system call, and every key wakes it.
NoKeyWaits == pc = "asleep" => unread = 0

\* The driver follows shift and control rightly through two readers that work
\* differently, one that toggles and one that sets, over any mixture of the two,
\* while the events of the kind alternate and none is lost.  A shift that is held
\* until it repeats, a second shift, or an overrun of the ring does invert the flag
\* (keyboard.c:97-109): from then on nothing is said of it, until a cleaned buffer
\* holds an event of the kind that sets it right.
ModifiersExact == unread = 0 =>
    /\ Shifts \notin outOfStep => shifted = Down(Shifts)
    /\ Controls \notin outOfStep => ctrld = Down(Controls)

\* What the user sees behind the prompt is what the shell will make of the line:
\* two implementations of backspace, one on a grid that wraps and scrolls, one
\* on the buffer, agree, until a full buffer is cleaned of its backspaces.  Two
\* kinds of line are left out, because the code fails there.  With a space:
\* backspace skips the spaces at the end of the row above and rubs out what is
\* before them, the prompt if need be.  With a control-D: its NUL ends the line for
\* removeBackspaces (userlib.c:306) and the shell's parser, while the screen shows
\* what is typed behind it; d, control-D, d shows dd and runs d.
ScreenShowsLine ==
    /\ pc \in {"read", "asleep"} /\ ~cleaned
    /\ \A i \in 0 .. index - 1 : line[i] \notin {NUL, SPACE}
    => TextAfterBase(screen) = Remaining(StringAt(line, 0))
=============================================================================

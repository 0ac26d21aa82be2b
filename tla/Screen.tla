------------------------------- MODULE Screen -------------------------------
(***************************************************************************)
(* The screen of the kernel (Kernel/c/ipc/printing.c, and printToScreen of *)
(* Kernel/c/ipc/files.c): a grid of characters with their colours, a       *)
(* cursor that wraps only when the next character comes, and the place     *)
(* before which nothing can be erased.  Its operations are functions from  *)
(* a screen to a screen.                                                   *)
(***************************************************************************)
EXTENDS Integers, Sequences, SequencesExt, FiniteSetsExt

CONSTANTS WIDTH, HEIGHT

ASSUME ScreenAssumption == WIDTH \in Nat \ {0} /\ HEIGHT \in Nat /\ HEIGHT >= 2

DEFAULT == -1
BLACK == 0
RED == 4
L_GRAY == 7
L_RED == 12
WHITE == 15
Color == BLACK .. WHITE
Standard == [bg |-> DEFAULT, ch |-> DEFAULT]

Row == 0 .. HEIGHT - 1
Column == 0 .. WIDTH - 1

\* A character, its colours and which of them were asked for when it was printed.
Cell(char, bg, ch, special) == [char |-> char, bg |-> bg, ch |-> ch, special |-> special]
Plain == {}
Blank(s, char) == Cell(char, s.bg, s.ch, Plain)

\* Where a point lies in the video memory.
PointTo(row, column) == row * WIDTH + column
Cursor(s) == PointTo(s.row, s.column)
Base(s) == PointTo(s.baseRow, s.baseColumn)

setBackspaceBase(s) == [s EXCEPT !.baseRow = s.row, !.baseColumn = s.column]

clearScreen(s) ==
    [s EXCEPT !.cell = [r \in Row |-> [c \in Column |-> Blank(s, " ")]],
              !.row = 0, !.column = 0, !.baseRow = 0, !.baseColumn = 0]

\* The rows below the copied ones get the character 0.
scrollUp(s, rows) ==
    [s EXCEPT !.cell = [r \in Row |-> IF r < HEIGHT - rows THEN s.cell[r + rows]
                                      ELSE [c \in Column |-> Blank(s, "0")]],
              !.row = HEIGHT - rows, !.column = 0,
              !.baseRow = IF @ >= rows THEN @ - rows ELSE 0,
              !.baseColumn = IF s.baseRow >= rows THEN @ ELSE 0]

\* Mutant of Behind: the cursor goes back to the end of the row above.
BehindEnd(s) ==
    IF s.column > 0 THEN [s EXCEPT !.column = @ - 1]
    ELSE [s EXCEPT !.row = @ - 1, !.column = WIDTH - 2]

\* One place back; in the row above, to its last character that is not a space.
Behind(s) ==
    IF s.column > 0 THEN [s EXCEPT !.column = @ - 1]
    ELSE [s EXCEPT !.row = @ - 1,
              !.column = Max({c \in Column : s.cell[s.row - 1][c].char # " "} \cup {0})]

backspace(s) ==
    IF Cursor(s) <= Base(s) THEN s
    ELSE LET t == Behind(s) IN [t EXCEPT !.cell[t.row][t.column] = Blank(t, " ")]

newLine(s) ==
    [s EXCEPT !.cell[s.row] = [c \in Column |-> IF c < s.column THEN @[c] ELSE Blank(s, " ")],
              !.column = 0, !.row = @ + 1]

Asked(format) == (IF format.bg # DEFAULT THEN {"bg"} ELSE {})
                 \cup (IF format.ch # DEFAULT THEN {"ch"} ELSE {})

Written(s, char, format) ==
    [s EXCEPT !.cell[s.row][s.column] =
                  Cell(char, IF format.bg = DEFAULT THEN s.bg ELSE format.bg,
                             IF format.ch = DEFAULT THEN s.ch ELSE format.ch, Asked(format)),
              !.column = @ + 1]

Wrapped(s) == IF s.column >= WIDTH THEN [s EXCEPT !.column = 0, !.row = @ + 1] ELSE s

\* printChar, and the scrollUp(1) with which printToScreen answers its error
\* before it prints the character again.
printChar(s, char, format) ==
    LET w == Wrapped(s)
        t == IF w.row >= HEIGHT THEN scrollUp(w, 1) ELSE w
    IN  CASE char = "\\n" -> newLine(t)
          [] char = "\\b" -> backspace(t)
          [] OTHER -> Written(t, char, format)

printToScreen(s, string, format) ==
    FoldLeft(LAMBDA screen, char : printChar(screen, char, format), s, string)

Recolored(cell, bg, ch) ==
    [cell EXCEPT !.bg = IF "bg" \in cell.special THEN @ ELSE bg,
                 !.ch = IF "ch" \in cell.special THEN @ ELSE ch]

changeColor(s, bg, ch) ==
    IF {bg, ch} \subseteq Color
    THEN [s EXCEPT !.bg = bg, !.ch = ch,
                   !.cell = [r \in Row |-> [c \in Column |-> Recolored(s.cell[r][c], bg, ch)]]]
    ELSE s

\* The screen as the shell finds it, after its sys_clear_screen.
ClearedScreen ==
    [bg |-> BLACK, ch |-> L_GRAY, row |-> 0, column |-> 0, baseRow |-> 0, baseColumn |-> 0,
     cell |-> [r \in Row |-> [c \in Column |-> Cell(" ", BLACK, L_GRAY, Plain)]]]

\* What stands between the base and the cursor.
TextAfterBase(s) ==
    [i \in 1 .. Cursor(s) - Base(s) |->
        LET place == Base(s) + i - 1 IN s.cell[place \div WIDTH][place % WIDTH].char]
=============================================================================

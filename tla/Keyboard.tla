------------------------------ MODULE Keyboard ------------------------------
(***************************************************************************)
(* The keyboard driver (Kernel/c/ipc/keyboard.c): the interrupt handler    *)
(* that turns scan codes into events and stores them in a ring, and the    *)
(* two readers of the ring, which also follow shift, control and caps.     *)
(*                                                                         *)
(* readingIndex and writingIndex only grow and are used modulo BUFFER_DIM; *)
(* what counts is the place of the next event to read, `at', and how many  *)
(* have not been read, `unread', which passes BUFFER_DIM when the ring is  *)
(* overrun.                                                                *)
(*                                                                         *)
(* The keys are those of a PS/2 keyboard: the key that was struck last     *)
(* repeats its make code as long as it is down.                            *)
(***************************************************************************)
EXTENDS Integers, Sequences, SequencesExt

CONSTANTS
    BUFFER_DIM, \* places of the ring
    KeySets,    \* sets of keys, as scan codes, the special ones negative
    MaxUnread   \* bound: events waiting to be read

ASSUME RingAssumption == BUFFER_DIM \in Nat \ {0} /\ MaxUnread \in Nat

BS == "\\b"
NL == "\\n"
NUL == "\\0"
SPACE == " "

VK_BACK == 14
VK_RETURN == 28
VK_LCONTROL == 29
VK_RCONTROL == -29
VK_D == 32
VK_LSHIFT == 42
VK_RSHIFT == 54
VK_SPACE == 57
VK_CAPITAL == 58

VARIABLES
    specialKey, \* the last interrupt was the prefix 0xE0
    ring, at, unread,
    shifted, ctrld,
    keys,       \* the set of keys the user strikes in this behaviour
    held,       \* those that are down
    typematic,  \* the one of them that repeats, 0 for none
    outOfStep   \* history: the kinds of modifier whose flag may be wrong

userVars == <<keys, held, typematic>>
kbVars == <<specialKey, ring, at, unread, shifted, ctrld, userVars, outOfStep>>

\* Two keys of a kind mean the same to the driver.
Shifts == {VK_LSHIFT, VK_RSHIFT}
Controls == {VK_LCONTROL, VK_RCONTROL}
Kinds == {Shifts, Controls}
Modifiers == UNION Kinds
Down(kind) == held \cap kind # {}

NONE == "none" \* no printable character
NoEvent == [key |-> 0, pressed |-> FALSE]

KeyboardInit ==
    /\ specialKey = FALSE
    /\ ring = [i \in 0 .. BUFFER_DIM - 1 |-> NoEvent] /\ at = 0 /\ unread = 0
    /\ shifted = FALSE /\ ctrld = FALSE
    /\ keys \in KeySets /\ held = {} /\ typematic = 0
    /\ outOfStep = {}

\* The scan code of a key that goes down or up, without its prefix.
ScanCode(key, down) == (IF key < 0 THEN -key ELSE key) + (IF down THEN 0 ELSE 128)

\* What keyboard_handler makes of a scan code.
Event(scanCode) ==
    LET code == IF specialKey THEN -scanCode ELSE scanCode IN
    CASE code > 128  -> [key |-> code - 128, pressed |-> FALSE]
      [] code < -128 -> [key |-> code + 128, pressed |-> FALSE]
      [] OTHER       -> [key |-> code, pressed |-> TRUE]

\* A key that is down may come up, or repeat if it was the last one to be struck;
\* one key other than a modifier is down at a time.
CanMove(key, down) ==
    \/ ~down /\ key \in held
    \/ down /\ key = typematic
    \/ down /\ key \notin held /\ (key \in Modifiers \/ held \subseteq Modifiers)

\* The first of the two interrupts of a special key.
PrefixInterrupt ==
    /\ ~specialKey
    /\ \E key \in keys, down \in BOOLEAN : key < 0 /\ CanMove(key, down)
    /\ unread < MaxUnread
    /\ specialKey' = TRUE
    /\ UNCHANGED <<ring, at, unread, shifted, ctrld, userVars, outOfStep>>

\* The kinds of which an event says nothing new: its key repeats, or another of
\* the kind is down too.  A reader that toggles is misled.
Misleads(key) == {kind \in Kinds : key \in kind /\ Down(kind)' = Down(kind)}

\* A key goes down, repeats or comes up: the event is stored, over the oldest one
\* when the ring is full.
KeyInterrupt(key, down) ==
    /\ specialKey = (key < 0)
    /\ unread < MaxUnread
    /\ CanMove(key, down)
    /\ held' = IF down THEN held \cup {key} ELSE held \ {key}
    /\ typematic' = IF down THEN key ELSE IF key = typematic THEN 0 ELSE typematic
    /\ specialKey' = FALSE
    /\ ring' = [ring EXCEPT ![(at + unread) % BUFFER_DIM] = Event(ScanCode(key, down))]
    /\ unread' = unread + 1
    /\ outOfStep' = IF unread >= BUFFER_DIM THEN Kinds ELSE outOfStep \cup Misleads(key)
    /\ UNCHANGED <<at, shifted, ctrld, keys>>

\* The events from readingIndex to writingIndex, as the ring gives them back.
Unread == [i \in 1 .. unread |-> ring[(at + i - 1) % BUFFER_DIM]]

\* printableKeys, for the keys of the runs.
Printable(key, shift) ==
    CASE key = VK_BACK -> BS
      [] key = VK_RETURN -> NL
      [] key = VK_SPACE -> SPACE
      [] key = VK_D -> IF shift THEN "D" ELSE "d"
      [] OTHER -> NONE

\* One turn of the loop of readPrintables: chars is the string so far, used the
\* events taken from the ring, over that it returned.
TakeEvent(acc, e) ==
    LET next == [acc EXCEPT !.used = @ + 1]
        char == IF acc.ctrld /\ e.key = VK_D THEN NUL ELSE Printable(e.key, acc.shifted)
    IN  IF acc.over THEN acc ELSE
        CASE e.key \in {VK_LSHIFT, VK_RSHIFT} -> [next EXCEPT !.shifted = ~@]
          [] e.key = VK_CAPITAL /\ e.pressed -> [next EXCEPT !.shifted = ~@]
          [] e.key \in {VK_LCONTROL, VK_RCONTROL} -> [next EXCEPT !.ctrld = ~@]
          [] e.key > 0 /\ e.pressed /\ char # NONE ->
                [next EXCEPT !.chars = Append(@, char),
                             !.over = char \in {NUL, NL} \/ Len(acc.chars) + 1 = acc.count]
          [] OTHER -> next

\* readPrintables(count): what it returns and where it leaves the driver.
readPrintables(count) ==
    FoldLeft(TakeEvent, [chars |-> <<>>, used |-> 0, shifted |-> shifted, ctrld |-> ctrld,
                         over |-> count = 0, count |-> count], Unread)

\* A place that will not be read again is blanked, so that it does not count.
StillToRead(used) == {(at + k - 1) % BUFFER_DIM : k \in used + 1 .. unread}
Blanked(used) == [i \in DOMAIN ring |-> IF i \in StillToRead(used) THEN ring[i] ELSE NoEvent]

TakesFromRing(got) ==
    /\ ring' = Blanked(got.used)
    /\ at' = (at + got.used) % BUFFER_DIM
    /\ unread' = unread - got.used
    /\ shifted' = got.shifted /\ ctrld' = got.ctrld
    /\ UNCHANGED <<specialKey, userVars, outOfStep>>

\* Mutant of CleanEvent: cleaning forgets that shift is not a toggle.
CleanEventToggles(acc, e) ==
    CASE e.key \in {VK_LSHIFT, VK_RSHIFT} -> [acc EXCEPT !.shifted = TRUE]
      [] e.key \in {VK_LCONTROL, VK_RCONTROL} -> [acc EXCEPT !.ctrld = ~@]
      [] OTHER -> acc

\* One turn of the loop of cleanBuffer.
CleanEvent(acc, e) ==
    CASE e.key \in {VK_LSHIFT, VK_RSHIFT} -> [acc EXCEPT !.shifted = e.pressed]
      [] e.key = VK_CAPITAL /\ e.pressed -> [acc EXCEPT !.shifted = ~@]
      [] e.key \in {VK_LCONTROL, VK_RCONTROL} -> [acc EXCEPT !.ctrld = e.pressed]
      [] OTHER -> acc

\* The last event of the kind that waits is how its keys are.
Told(kind) ==
    \E i \in 1 .. unread :
        /\ Unread[i].key \in kind /\ Unread[i].pressed = Down(kind)
        /\ \A j \in i + 1 .. unread : Unread[j].key \notin kind

cleanBuffer ==
    LET left == FoldLeft(CleanEvent, [shifted |-> shifted, ctrld |-> ctrld], Unread) IN
    /\ ring' = Blanked(unread)
    /\ at' = (at + unread) % BUFFER_DIM
    /\ unread' = 0
    /\ shifted' = left.shifted /\ ctrld' = left.ctrld
    /\ outOfStep' = {kind \in outOfStep : ~Told(kind)}
    /\ UNCHANGED <<specialKey, userVars>>
=============================================================================

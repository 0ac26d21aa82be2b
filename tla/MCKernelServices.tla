-------------------------- MODULE MCKernelServices --------------------------
(* Instances of KernelServices for TLC.                                    *)
EXTENDS KernelServices

\* Around the borders of a unit, of MIN_SIZE and of the whole arena.
Sizes == {0, 1, 4, 5, 8, 15, 31, 32}

\* Minutes before or after a border of the calendar, leap years and not.
Moment(y, m, d, h, min, s) ==
    [year |-> y, month |-> m, day |-> d, hours |-> h, mins |-> min, secs |-> s]
Borders == {Moment(2023, 12, 31, 22, 59, 59), Moment(2024, 1, 1, 0, 15, 59),
            Moment(2024, 2, 28, 23, 59, 59), Moment(2024, 3, 1, 1, 0, 0),
            Moment(2000, 2, 28, 20, 0, 59),
            Moment(2100, 3, 1, 0, 0, 0)}

\* loop's own time zone and the ends of what a time zone can be.
Zone(h, m) == [hours |-> h, minutes |-> m]
Zones == {Zone(-3, 0), Zone(5, 30), Zone(-3, -30), Zone(14, 0), Zone(-12, 0)}

\* Two who type and rub out, and three who try the modifiers, two of a kind too,
\* a special key and control-D.
Typists == {{VK_D, VK_BACK}, {VK_SPACE, VK_BACK}, {VK_D, VK_LSHIFT, VK_RSHIFT},
            {VK_RETURN, VK_LSHIFT, VK_RCONTROL}, {VK_D, VK_LCONTROL}}

\* The colours of the boot, and a pair that changeColor refuses.
Pairs == {<<BLACK, L_GRAY>>, <<WHITE, 16>>}
=============================================================================

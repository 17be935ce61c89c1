-------------------------------- MODULE Screen --------------------------------
(***************************************************************************)
(* Where things are on the screen of the terminal interface                *)
(* (src/tui/ui/layout.rs, and the windows of src/tui/ui/render.rs), how    *)
(* lists scroll and a text is edited (src/tui/app/text.rs). Only rows      *)
(* count; the columns are two halves. Selections and offsets are counted   *)
(* from 0.                                                                 *)
(***************************************************************************)
EXTENDS Integers, SequencesExt, FiniteSetsExt

\* saturating_sub.
Less(a, b) == IF a > b THEN a - b ELSE 0

Least(a, b) == IF a < b THEN a ELSE b

-----------------------------------------------------------------------------
(* Heights. Borders take two rows, the settings three, the hint one.       *)

Take(remaining, want) == IF remaining >= want THEN want ELSE 0

\* The list of modules gets the odd row.
SplitStackContent(rows) ==
    IF rows < 2 THEN <<rows, 0>> ELSE <<rows - rows \div 2, rows \div 2>>

AllocateLeftStack(rows) ==
    LET content == SplitStackContent(rows - 4)
        border  == Take(rows, 2)
    IN  IF rows < 5 THEN [modules |-> <<border, rows - border>>, extensions |-> <<0, 0>>]
        ELSE [modules |-> <<2, content[1]>>, extensions |-> <<2, content[2]>>]

\* Half of what is left is for the lists, the rest for the log; one row alone
\* is too small for either and goes to the other.
Regions(rows) ==
    LET lists == (rows + 1) \div 2
        logs  == rows \div 2
        whole == IF logs = 1 THEN <<rows, 0>> ELSE <<lists, logs>>
    IN  IF whole[1] # 1 THEN whole
        ELSE IF whole[2] + 1 < 2 THEN <<0, 0>> ELSE <<0, whole[2] + 1>>

\* Of the rows within the outer border.
FixedHeights(rows) ==
    LET settings == Take(rows, 3)
        hint     == Take(rows - settings, 1)
        regions  == Regions(rows - settings - hint)
        stack    == AllocateLeftStack(regions[1])
    IN  [settings |-> settings, hint |-> hint, logs |-> regions[2],
         modules |-> stack.modules, extensions |-> stack.extensions]

HeightsFromFrame(frame) == FixedHeights(Less(frame, 2))

StackHeight(h) == h.modules[1] + h.modules[2] + h.extensions[1] + h.extensions[2]

\* The rows of lists, which scrolling counts with.
ModulesViewport(frame)    == HeightsFromFrame(frame).modules[2]
ExtensionsViewport(frame) == HeightsFromFrame(frame).extensions[2]
LogsViewport(frame)       == Less(HeightsFromFrame(frame).logs, 2)

ParamsViewport(frame) ==
    LET h == HeightsFromFrame(frame) IN h.modules[2] + h.extensions[1] + h.extensions[2]

Margin(rows) == Least(1, Less(rows, 2) \div 2)

OverlayViewport(frame) ==
    LET rows == StackHeight(HeightsFromFrame(frame))
    IN  Less(Less(rows, 2 * Margin(rows)), 2)

\* An area is its first row, within the outer border, and its height.
Area(y, height) == [y |-> y, height |-> height]

LayoutAreas(rows, h) ==
    LET stack   == h.settings
        modules == h.modules[1] + h.modules[2]
        logs    == stack + StackHeight(h)
        below   == logs + h.logs
    IN  [settings   |-> Area(0, h.settings),
         modules    |-> Area(stack, modules),
         extensions |-> Area(stack + modules, h.extensions[1] + h.extensions[2]),
         params     |-> Area(stack, StackHeight(h)),
         logs       |-> Area(logs, h.logs),
         hint       |-> Area(below + Less(rows, below + h.hint), h.hint)]

OverlayRect(region) ==
    LET margin == Margin(region.height)
    IN  Area(region.y + margin, Less(region.height, 2 * margin))

\* The box for a text, in the middle of an overlay.
ParamTextOverlayRect(region) ==
    LET full   == OverlayRect(region)
        height == Least(3, full.height)
    IN  Area(full.y + Less(full.height, height) \div 2, height)

-----------------------------------------------------------------------------
(* Lists. *)

ClampedScrollOffset(offset, idx, viewport) ==
    LET rows == IF viewport = 0 THEN 1 ELSE viewport
    IN  IF idx < offset THEN idx
        ELSE IF idx >= offset + rows THEN idx + 1 - rows
        ELSE offset

MoveListSelection(list, len, viewport, delta) ==
    LET selected == IF delta < 0 THEN Less(list.selected, 1)
                    ELSE IF len > 0 THEN Least(list.selected + 1, len - 1)
                    ELSE list.selected
    IN  [selected |-> selected, scroll |-> ClampedScrollOffset(list.scroll, selected, viewport)]

\* The entries that are drawn: from, and up to but without the last.
ModuleWindow(total, offset, viewport) ==
    LET from == Least(offset, Less(total, viewport))
    IN  IF total = 0 THEN <<0, 0>> ELSE <<from, Least(from + viewport, total)>>

\* visible_params_lines: what the module requires comes first and stays.
VisibleParams(header, total, offset, viewport) ==
    ModuleWindow(total, offset, viewport - Least(header, viewport))

LogsViewOffset(total, scroll, viewport) ==
    IF total = 0 THEN 0
    ELSE Least(scroll, Less(total, IF viewport = 0 THEN 1 ELSE viewport))

\* visible_log_lines: places among all lines, though only some are loaded.
VisibleLogs(total, from, loaded, scroll, viewport) ==
    LET window == ModuleWindow(loaded, Less(LogsViewOffset(total, scroll, viewport), from), viewport)
    IN  from + window[1] .. from + window[2] - 1

-----------------------------------------------------------------------------
\* apply_text_edit: a key is "left", "right", "backspace" or a character.
ApplyTextEdit(edit, key) ==
    LET text == edit.text
        at   == edit.cursor
    IN  CASE key = "left"      -> [edit EXCEPT !.cursor = Less(at, 1)]
          [] key = "right"     -> [edit EXCEPT !.cursor = Least(at + 1, Len(text))]
          [] key = "backspace" -> IF at = 0 THEN edit
                                  ELSE [text |-> RemoveAt(text, at), cursor |-> at - 1]
          [] OTHER             -> [text |-> InsertAt(text, at + 1, key), cursor |-> at + 1]
=============================================================================

------------------------------- MODULE MCScreen -------------------------------
(* Checks of Screen by TLC, which evaluates them with the run of Tui: every    *)
(* height of the terminal up to 60 rows.                                       *)
EXTENDS Screen

Frames == 0 .. 60

RowsOf(area) == area.y .. area.y + area.height - 1

Drawn(frame) == LayoutAreas(Less(frame, 2), HeightsFromFrame(frame))

\* The areas do not overlap and do not leave the frame, no box is so low that
\* its two borders do not fit, and at most two rows stay unused.
ASSUME AreasFit ==
    \A frame \in Frames :
        LET areas  == Drawn(frame)
            stack  == {"settings", "modules", "extensions", "logs", "hint"}
            used   == UNION {RowsOf(areas[x]) : x \in stack}
        IN  /\ \A x, y \in stack : x # y => RowsOf(areas[x]) \cap RowsOf(areas[y]) = {}
            /\ RowsOf(areas.params) = RowsOf(areas.modules) \cup RowsOf(areas.extensions)
            /\ used \subseteq 0 .. Less(frame, 2) - 1
            /\ Cardinality(used) + 2 >= Less(frame, 2)
            /\ \A x \in {"modules", "extensions", "logs"} : areas[x].height # 1

\* Scrolling counts with the rows that are drawn.
ASSUME ViewportsAreDrawn ==
    \A frame \in Frames :
        LET areas == Drawn(frame)
        IN  /\ ModulesViewport(frame) = Less(areas.modules.height, 2)
            /\ ExtensionsViewport(frame) = Less(areas.extensions.height, 2)
            /\ ParamsViewport(frame) = Less(areas.params.height, 2)
            /\ LogsViewport(frame) = Less(areas.logs.height, 2)
            /\ OverlayViewport(frame) = Less(OverlayRect(areas.params).height, 2)

\* Overlays stay where the lists are, and the box for a text in the overlay.
ASSUME OverlaysAreInside ==
    \A frame \in Frames :
        LET region == Drawn(frame).params
        IN  /\ RowsOf(OverlayRect(region)) \subseteq RowsOf(region)
            /\ RowsOf(ParamTextOverlayRect(region)) \subseteq RowsOf(OverlayRect(region))

\* After a move the selected entry is among the drawn ones, wherever the list
\* was scrolled to and however long it was then.
ASSUME SelectionIsDrawn ==
    \A len \in 1 .. 6, scroll, selected \in 0 .. 7, viewport \in 1 .. 4, delta \in {-1, 1} :
        LET list   == MoveListSelection([selected |-> selected, scroll |-> scroll], len, viewport, delta)
            window == ModuleWindow(len, list.scroll, viewport)
        IN  list.selected < len => list.selected \in window[1] .. window[2] - 1

\* So is the selected parameter, if there are rows below what the module
\* requires; and then the viewport is the one that scrolling counts with.
ASSUME ParamIsDrawn ==
    \A len \in 1 .. 5, scroll \in 0 .. 5, selected \in 0 .. 4, viewport, header \in 0 .. 4 :
        LET offset == ClampedScrollOffset(scroll, selected, Less(viewport, header))
            window == VisibleParams(header, len, offset, viewport)
        IN  selected < len =>
                (selected \in window[1] .. window[2] - 1 <=> viewport > header)

\* The log panel draws its selected line from any part of the lines that is
\* loaded and has it, and those around it.
ASSUME LogLineIsDrawn ==
    \A total \in 1 .. 6, scroll \in 0 .. 6, viewport \in 1 .. 3, selected \in 0 .. 5 :
        LET view == LogsViewOffset(total, scroll, viewport)
            rows == view .. Least(view + viewport, total) - 1
        IN  selected < total /\ selected \in scroll .. scroll + viewport - 1 =>
                \A from \in 0 .. view, to \in 0 .. total :
                    rows \subseteq from .. to - 1 =>
                        /\ VisibleLogs(total, from, to - from, scroll, viewport) = rows
                        /\ selected \in rows

\* The cursor stays within the text; what is typed is taken back by as many
\* backspaces.
ASSUME EditsStayInside ==
    \A text \in {<<>>, <<"a">>, <<"a", "b">>}, cursor \in 0 .. 2 :
        \A keys \in [1 .. 3 -> {"left", "right", "backspace", "x"}] :
            LET run(from, typed) == FoldLeft(ApplyTextEdit, from, typed)
                edit == [text |-> text, cursor |-> cursor]
                ends == run(edit, keys)
            IN  cursor =< Len(text) =>
                    /\ ends.cursor \in 0 .. Len(ends.text)
                    /\ run(ends, <<"x", "y", "backspace", "backspace">>) = ends
=============================================================================

------------------------------- MODULE LogView -------------------------------
(***************************************************************************)
(* The log panel of the TUI (src/tui/app/logs.rs) over LogFile. The panel  *)
(* keeps a window of the visible lines, a selection and a scroll offset,   *)
(* all as numbers of visible lines, counted from 0; before every draw the  *)
(* window is read again and the selection put back on the line it was on.  *)
(***************************************************************************)
EXTENDS LogFile

CONSTANTS
    Chunk,          \* LOGS_CHUNK_LINES
    Viewports       \* heights of the panel

ASSUME ViewAssumption == Chunk \in Nat /\ Viewports \subseteq Nat

VARIABLE view   \* show, follow, selected, scroll, from, window, total, height

logVars == <<fileVars, view>>

NoLine == -1

\* What the filter lets through, of the file as it is now.
VisibleTo(v) == Only(file, {l \in Line : l.level \in v.show})

Lines(v, from, count) ==
    LET all == VisibleTo(v) IN SubSeq(all, from + 1, Min({from + count, Len(all)}))

\* saturating_sub.
Less(a, b) == Max({a - b, 0})

\* A panel without any row counts as one row.
Rows(v) == Max({v.height, 1})

ClampedScroll(offset, idx, viewport) ==
    IF idx < offset THEN idx
    ELSE IF idx >= offset + viewport THEN idx + 1 - viewport
    ELSE offset

ChunkOf(v) == Max({Chunk, 2 * Rows(v)})

\* The line of the window at a place among all visible lines.
Shown(v, k) ==
    IF k - v.from + 1 \in DOMAIN v.window THEN {v.window[k - v.from + 1]} ELSE {}

-----------------------------------------------------------------------------
\* load_log_window.
Load(v, from, count) ==
    LET total == Len(VisibleTo(v))
        start == Min({from, total})
    IN  [v EXCEPT !.total = total, !.from = start, !.window = Lines(v, start, count)]

\* reload_follow_window.
LoadEnd(v) == Load(v, Less(Len(VisibleTo(v)), ChunkOf(v)), ChunkOf(v))

\* ensure_logs_cover: lines are read before or after the window, from the file
\* as it is now.
Cover(v, start, end) ==
    LET s  == Min({start, v.total})
        e  == Min({end, v.total})
        nf == Less(v.from, Max({v.from - s, Chunk}))
        w1 == IF s < v.from
              THEN [v EXCEPT !.window = Lines(v, nf, v.from - nf) \o @, !.from = nf]
              ELSE v
        stop == w1.from + Len(w1.window)
    IN  IF s >= e THEN v
        ELSE IF e > stop
        THEN [w1 EXCEPT !.window = @ \o Lines(v, stop, e - stop)]
        ELSE w1

\* ensure_selected_log_visible.
MakeVisible(v) ==
    IF v.selected = NoLine THEN v
    ELSE LET scroll == ClampedScroll(v.scroll, v.selected, Rows(v))
         IN  Cover([v EXCEPT !.scroll = scroll], scroll, scroll + Rows(v))

\* Mutant of SyncFollow: the scroll offset outlives the last line.
SyncFollowScrolled(v) ==
    IF v.follow THEN MakeVisible([v EXCEPT !.selected = v.total - 1]) ELSE v

\* sync_logs_follow.
SyncFollow(v) ==
    IF ~v.follow THEN v
    ELSE IF v.total = 0 THEN [v EXCEPT !.selected = NoLine, !.scroll = 0]
    ELSE MakeVisible([v EXCEPT !.selected = v.total - 1])

\* restore_selection_to_line.
Restore(v, line, fallback) ==
    LET all == VisibleTo(v)
        k   == SelectInSeq(v.window, LAMBDA l : l = line)
        j   == SelectInSeq(all, LAMBDA l : l = line)
    IN  IF k # 0 THEN [v EXCEPT !.selected = v.from + k - 1]
        ELSE IF j # 0
        THEN Load([v EXCEPT !.selected = j - 1], Less(j - 1, ChunkOf(v) \div 2), ChunkOf(v))
        ELSE [v EXCEPT !.selected = Min({fallback, Less(v.total, 1)})]

\* Mutant of Put: the number of the line is kept, not the line.
PutNumber(v, loaded, anchor) ==
    [loaded EXCEPT !.selected = IF @ >= loaded.total THEN loaded.total - 1 ELSE @]

\* The selection after the window was read again: where the line is now.
Put(v, loaded, anchor) ==
    IF v.selected # NoLine /\ Shown(v, v.selected) # {}
    THEN IF Shown(loaded, v.selected) = Shown(v, v.selected) THEN loaded
         ELSE Restore(loaded, CHOOSE l \in Shown(v, v.selected) : TRUE, anchor)
    ELSE [loaded EXCEPT !.selected = IF @ >= loaded.total THEN loaded.total - 1 ELSE @]

\* refresh_log_history when the end is not followed.
RefreshInPlace(v) ==
    LET total  == Len(VisibleTo(v))
        half   == ChunkOf(v) \div 2
        anchor == Min({IF v.selected = NoLine THEN v.scroll ELSE v.selected, total - 1})
        loaded == Load(v, Min({Less(v.scroll, half), Less(anchor, half), total - 1}), ChunkOf(v))
        put    == Put(v, loaded, anchor)
    IN  IF total = 0
        THEN [v EXCEPT !.window = <<>>, !.from = 0, !.total = 0, !.selected = NoLine,
                       !.scroll = 0]
        ELSE MakeVisible([put EXCEPT !.scroll = Min({@, Less(total, Rows(v))})])

\* refresh_log_history and sync_logs_follow, which always come together.
RefreshHistory(v) == IF v.follow THEN SyncFollow(LoadEnd(v)) ELSE RefreshInPlace(v)

-----------------------------------------------------------------------------
LogInit ==
    /\ FileInit
    /\ view \in [show : {Levels}, follow : {TRUE}, selected : {NoLine}, scroll : {0},
                 from : {0}, window : {<<>>}, total : {0}, height : Viewports]

PanelIs(v) == view' = v /\ UNCHANGED fileVars

\* The main loop, before it draws.
Tick == PanelIs(RefreshHistory(view))

\* The terminal is resized; the height is known after the draw.
Resize == \E h \in Viewports : PanelIs([view EXCEPT !.height = h])

\* e, w and i.
ToggleLevel ==
    \E level \in Levels :
        PanelIs(RefreshHistory([view EXCEPT !.show =
            IF level \in @ THEN @ \ {level} ELSE @ \cup {level}]))

FocusLogs == PanelIs(RefreshHistory([view EXCEPT !.follow = TRUE]))

SelectPrevious ==
    /\ view.total # 0
    /\ LET idx == IF view.follow \/ view.selected = NoLine THEN view.total - 1
                  ELSE view.selected
       IN  PanelIs(IF idx = 0 THEN [view EXCEPT !.selected = 0]
                   ELSE MakeVisible([Cover(view, idx - 1, idx)
                            EXCEPT !.selected = idx - 1, !.follow = FALSE]))

SelectNext ==
    /\ view.total # 0
    /\ LET idx  == IF view.selected = NoLine THEN view.total - 1 ELSE view.selected
           next == idx + 1
       IN  PanelIs(IF next >= view.total
                   THEN MakeVisible([view EXCEPT !.selected = view.total - 1, !.follow = TRUE])
                   ELSE MakeVisible([Cover(view, idx, next + 1)
                            EXCEPT !.selected = next, !.follow = next + 1 = view.total]))

ViewNext == Tick \/ Resize \/ ToggleLevel \/ FocusLogs \/ SelectPrevious \/ SelectNext

LogNext == (FileNext /\ UNCHANGED view) \/ ViewNext

LogSpec == LogInit /\ [][LogNext]_logVars

-----------------------------------------------------------------------------
(* Properties. *)

\* Types; the selection and the scroll offset are places among the lines that
\* were counted, though the file may have shrunk since.
LogTypeOK ==
    /\ FileTypeOK
    /\ view.show \subseteq Levels /\ view.follow \in BOOLEAN
    /\ view.window \in Seq(Line)
    /\ view.selected \in NoLine .. Less(view.total, 1)
    /\ view.total = 0 => view.selected = NoLine
    /\ view.from \in 0 .. view.total /\ view.scroll \in 0 .. Less(view.total, 1)

\* What is drawn is what is in the file, the selected line is on the screen,
\* and as long as it is in the file and passes the filter it stays the
\* selected one, though lines before it are pruned or filtered away.
DrawsTheFile ==
    [][(Tick \/ ToggleLevel) =>
        /\ view'.window = Lines(view', view'.from, Len(view'.window))
        /\ view'.selected # NoLine =>
            /\ Shown(view', view'.selected) # {}
            /\ view'.selected \in view'.scroll .. view'.scroll + Rows(view') - 1
        /\ ~view.follow /\ view.selected # NoLine =>
            \A line \in Shown(view, view.selected) :
                line \in Range(VisibleTo(view')) => Shown(view', view'.selected) = {line}]_logVars
=============================================================================

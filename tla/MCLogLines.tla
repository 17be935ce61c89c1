------------------------------ MODULE MCLogLines ------------------------------
(* Checks of LogLines by TLC, which evaluates them with the run of LogView:    *)
(* files of up to eight characters and blocks of three, so that blocks end     *)
(* within lines, between them and on their ends.                               *)
EXTENDS LogLines

FilesUpTo(n) == UNION {[1 .. k -> {"a", "b", NewLine}] : k \in 0 .. n}

\* What is read from behind is the end of what is read from the front, whatever
\* the blocks cut through: no line is lost, torn or taken twice.
ASSUME TailIsEnd ==
    \A text \in FilesUpTo(8), n \in 0 .. 3 :
        TailLines(text, n) = LastOf(NonEmptyLines(text), n)

\* A range of a file that does not change is that range of its lines.
ASSUME RangeIsRange ==
    \A text \in FilesUpTo(6), start \in 0 .. 4, count \in 0 .. 3 :
        LET lines == NonEmptyLines(text)
        IN  LinesInRange(text, text, start, count)
                = SubSeq(lines, start + 1, Min({start + count, Len(lines)}))

\* If lines are appended between the count and the read, what is read are still
\* lines that follow each other, and as many; but a range that went up to the
\* end is moved by what was appended.
ASSUME RangeMovesWithTheEnd ==
    \A old, new \in FilesUpTo(4), start \in 0 .. 2, count \in 0 .. 2 :
        old # <<>> /\ Last(old) = NewLine =>
            LET lines == NonEmptyLines(old \o new)
                total == Len(NonEmptyLines(old))
                got   == LinesInRange(old, old \o new, start, count)
                moved == IF start + count >= total THEN Len(lines) - total ELSE 0
            IN  start < total =>
                    got = SubSeq(lines, start + moved + 1,
                                 Min({start + count, total}) + moved)
=============================================================================

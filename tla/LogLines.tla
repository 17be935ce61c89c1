------------------------------- MODULE LogLines -------------------------------
(***************************************************************************)
(* How lines are read from the log file (src/logging.rs): its end by       *)
(* blocks from behind, any other range by counting from the front. LogView *)
(* has a line as one value and a range as one step; here a file is a       *)
(* sequence of characters, and a range is counted in one file and read     *)
(* from another, since others append or prune in between.                  *)
(***************************************************************************)
EXTENDS Naturals, SequencesExt, FiniteSetsExt

CONSTANTS
    NewLine,        \* the character that ends a line
    Block           \* CHUNK, in characters

LastOf(s, n) == IF Len(s) =< n THEN s ELSE SubSeq(s, Len(s) - n + 1, Len(s))

\* The lines that are not empty. The last one may lack its end.
NonEmptyLines(text) ==
    LET breaks == {0, Len(text) + 1} \cup {k \in DOMAIN text : text[k] = NewLine}
        starts == {k \in breaks : k < Len(text) /\ k + 1 \notin breaks}
        line(k) == SubSeq(text, k + 1, Min({j \in breaks : j > k}) - 1)
        order  == SetToSortSeq(starts, <)
    IN  [k \in DOMAIN order |-> line(order[k])]

\* What tail_lines has read after some blocks, and the lines it takes from it:
\* the first may be cut off, unless the block begins with the end of a line.
ReadBack(text, blocks) == LastOf(text, blocks * Block)

CompleteLines(text, blocks) ==
    LET read == ReadBack(text, blocks)
        all  == NonEmptyLines(read)
    IN  IF read # text /\ Head(read) # NewLine /\ all # <<>> THEN Tail(all) ELSE all

\* Blocks are read until there are enough lines.
TailLines(text, n) ==
    LET enough == {k \in 1 .. Len(text) :
                    Len(CompleteLines(text, k)) >= n \/ ReadBack(text, k) = text}
    IN  IF n = 0 \/ text = <<>> THEN <<>>
        ELSE LastOf(CompleteLines(text, Min(enough)), n)

LinesInRange(counted, text, start, count) ==
    LET total == Len(NonEmptyLines(counted))
        want  == Min({count, total - start})
    IN  IF count = 0 \/ start >= total THEN <<>>
        ELSE IF start + want = total THEN TailLines(text, want)
        ELSE LET lines == NonEmptyLines(text)
             IN  SubSeq(lines, start + 1, Min({start + want, Len(lines)}))
=============================================================================

------------------------------ MODULE MCFormats ------------------------------
(* Checks of Formats by TLC, which evaluates them with the run of              *)
(* ProcessWatch.                                                               *)
EXTENDS Formats

Pieces == {<<>>, <<"x">>, <<"{", "n", "}">>, <<"{", "n", ":", "3", "}">>,
           <<"{", "n", ":", "0", "3", "}">>, <<"{", "}">>, <<"{", "k", "}">>,
           <<"{", "n", ":", "}">>, <<"{", "n", ":", "9", "9", "}">>, <<"}">>}

Values == [name \in {<<"n">>, <<>>} |-> IF name = <<>> THEN <<"{", "n", "}">> ELSE <<"4", "2">>]

\* A template is filled in piece by piece: a placeholder does not depend on
\* what is around it, and a value that looks like one is shown as it is.
ASSUME PieceByPiece ==
    \A p, q, r \in Pieces :
        FormatTemplate(p \o q \o r, Values)
            = FormatTemplate(p, Values) \o FormatTemplate(q, Values) \o FormatTemplate(r, Values)

\* A placeholder that names nothing or has no proper width stays in the text;
\* so does a brace that is never closed, with all that follows.
ASSUME OthersStay ==
    /\ \A p \in Pieces : FormatTemplate(p, [name \in {} |-> <<>>]) = p
    /\ \A p, q \in Pieces :
        LET rest == <<"{">> \o SelectSeq(q, LAMBDA c : c # "}")
        IN  FormatTemplate(p \o rest, Values) = FormatTemplate(p, Values) \o rest

\* A value is never cut, and a padded one has its width.
ASSUME PadsFill ==
    \A n \in 0 .. 3, width \in 0 .. 5, zero \in BOOLEAN :
        LET value == [k \in 1 .. n |-> "7"]
            shown == ApplyPad(value, [name |-> <<>>, width |-> width, zero |-> zero])
        IN  Len(shown) = Max({n, width}) /\ IsSuffix(value, shown)

Times == [busy : 0 .. 4, idle : 0 .. 4]

\* The load is a percentage as long as no time goes backwards; idle times, which
\* on Linux may, take it to no more than a hundred, but it is below zero when
\* busy times went backwards while idle ones grew.
ASSUME LoadIsPercentage ==
    \A prev, curr \in Times :
        LET usage == UsagePercent(prev, curr)
        IN  /\ usage =< 100
            /\ curr.busy >= prev.busy => usage >= 0
            /\ usage < 0 => curr.busy < prev.busy /\ curr.idle > prev.idle

\* A read that fails costs no load: the next shows the load since the last read
\* that did not.
ASSUME LoadCoversAll ==
    \A first, last \in Times :
        LET start  == CpuUpdate(Wrong, first)
            failed == CpuUpdate(start.prev, Wrong)
        IN  CpuUpdate(failed.prev, last).shows = UsagePercent(first, last)

\* The group of the keyboard is the layout that was set for it, though setxkbmap
\* numbers the layouts from the second on.
ASSUME GroupIsLayout ==
    \A n \in 1 .. 4, group \in 0 .. 4 :
        LET layout(k) == <<"us", "de", "ru", "fr">>[k]
            symbols == <<"pc">> \o FlattenSeq([k \in 1 .. n |->
                IF k = 1 THEN <<layout(1)>> ELSE <<layout(k), Digits[k + 1]>>]) \o <<"inet(evdev)">>
        IN  ExtractLayout(symbols, group) = IF group < n THEN layout(group + 1) ELSE Wrong

\* What is shown of a duration is not more than there is, and less by less than
\* its smallest unit.
ASSUME DurationIsClose ==
    \A now \in {0, 5}, left \in {0, 59, 60, 3599, 3600, 3661, 86399, 86400, 90061, 700000} :
        LET shown == FormatDuration(SecondsUntil(now + left, now))
            in(unit) == IF unit \in DOMAIN shown THEN shown[unit] ELSE 0
            total == in("d") * 86400 + in("h") * 3600 + in("m") * 60
        IN  /\ total =< left /\ left - total < IF "m" \in DOMAIN shown THEN 60 ELSE 3600
            /\ in("m") < 60 /\ in("h") < 24
            /\ SecondsUntil(now, now + left) = 0
=============================================================================

------------------------------- MODULE Formats -------------------------------
(***************************************************************************)
(* What the modules make of what they read: the templates they share       *)
(* (packages/fmt-common), the load of the processor (modules/cpu), the     *)
(* keyboard layout (modules/keyboard) and the time until a limit is reset  *)
(* (modules/claude). Texts are sequences of characters.                    *)
(***************************************************************************)
EXTENDS Integers, SequencesExt, FiniteSetsExt

CONSTANTS
    MaxPad,         \* MAX_PAD_WIDTH
    NotLayouts,     \* tokens that begin like evdev, inet, pc or base
    Wrong           \* what is not well-formed

-----------------------------------------------------------------------------
(* Templates: "{name}", or "{name:width}" with zeros before the number if   *)
(* the width begins with one.                                              *)

Digits == <<"0", "1", "2", "3", "4", "5", "6", "7", "8", "9">>

NumberOf(digits) ==
    FoldLeft(LAMBDA n, c : 10 * n + (CHOOSE d \in 0 .. 9 : Digits[d + 1] = c), 0, digits)

\* What is before the first c, and the place of it (0 if there is none).
PlaceOf(text, c) == SelectInSeq(text, LAMBDA x : x = c)
Before(text, c)  == SubSeq(text, 1, PlaceOf(text, c) - 1)
After(text, c)   == SubSeq(text, PlaceOf(text, c) + 1, Len(text))

ParsePlaceholder(body) ==
    LET spec == After(body, ":")
    IN  IF PlaceOf(body, ":") = 0 THEN [name |-> body, width |-> 0, zero |-> FALSE]
        ELSE IF spec = <<>> \/ ~(Range(spec) \subseteq Range(Digits)) THEN Wrong
        ELSE IF NumberOf(spec) > MaxPad THEN Wrong
        ELSE [name |-> Before(body, ":"), width |-> NumberOf(spec),
              zero |-> Head(spec) = "0" /\ Len(spec) > 1]

ApplyPad(value, placeholder) ==
    LET missing == placeholder.width - Len(value)
    IN  [k \in 1 .. missing |-> IF placeholder.zero THEN "0" ELSE " "] \o value

\* values maps names to texts. What is no placeholder stays, and what was put
\* in is not looked at again.
RECURSIVE FormatTemplate(_, _)
FormatTemplate(template, values) ==
    LET inner  == After(template, "{")
        body   == Before(inner, "}")
        place  == ParsePlaceholder(body)
        filled == IF place = Wrong \/ place.name \notin DOMAIN values
                  THEN <<"{">> \o body \o <<"}">>
                  ELSE ApplyPad(values[place.name], place)
    IN  IF PlaceOf(template, "{") = 0 \/ PlaceOf(inner, "}") = 0 THEN template
        ELSE Before(template, "{") \o filled \o FormatTemplate(After(inner, "}"), values)

-----------------------------------------------------------------------------
(* cpu: busy and idle times since the start of the system.                 *)

Total(times) == times.busy + times.idle

Delta(from, to) == IF to > from THEN to - from ELSE 0

\* usage_percent, rounded down here. The counters need not grow.
UsagePercent(prev, curr) ==
    LET total == Delta(Total(prev), Total(curr))
        idle  == Delta(prev.idle, curr.idle)
    IN  IF total = 0 THEN 0 ELSE 100 - (100 * idle + total - 1) \div total

\* update: the usage since the last update that could read the times.
CpuUpdate(prev, read) ==
    IF read = Wrong THEN [prev |-> prev, shows |-> Wrong]
    ELSE [prev |-> read, shows |-> IF prev = Wrong THEN 0 ELSE UsagePercent(prev, read)]

-----------------------------------------------------------------------------
\* keyboard, extract_layout: symbols are tokens between "+" and ":".
ExtractLayout(symbols, group) ==
    LET layouts == SelectSeq(symbols, LAMBDA t : t \notin NotLayouts \cup Range(Digits))
    IN  IF group + 1 \in DOMAIN layouts THEN layouts[group + 1] ELSE Wrong

-----------------------------------------------------------------------------
\* claude, seconds_until: of a time in the past there is nothing left.
SecondsUntil(resets, now) == IF resets = Wrong THEN 0 ELSE Delta(now, resets)

FormatDuration(seconds) ==
    LET days    == seconds \div 86400
        hours   == (seconds % 86400) \div 3600
        minutes == (seconds % 3600) \div 60
    IN  IF days >= 1 THEN [d |-> days, h |-> hours]
        ELSE IF hours >= 1 THEN [h |-> hours, m |-> minutes]
        ELSE [m |-> minutes]
=============================================================================

------------------------------ MODULE Versions ------------------------------
(***************************************************************************)
(* Versions (src/version.rs): of the APIs the host provides, of packages   *)
(* and of releases, and the tool that decides whether a release may be     *)
(* made (tools/release-check). A version is a triple. A text is the        *)
(* sequence of what is between its dots, each a sequence of characters;    *)
(* spaces around it do not count.                                          *)
(***************************************************************************)
EXTENDS Naturals, Sequences, SequencesExt

CONSTANTS
    MaxNumber,      \* the largest u32
    NotVersion      \* a text that is no version

Digits == <<"0", "1", "2", "3", "4", "5", "6", "7", "8", "9">>
DigitOf(c) == CHOOSE n \in 0 .. 9 : Digits[n + 1] = c

\* u32::from_str: digits, after a plus sign perhaps.
Number(part) ==
    LET digits == IF part # <<>> /\ Head(part) = "+" THEN Tail(part) ELSE part
        value  == FoldLeft(LAMBDA n, c : 10 * n + DigitOf(c), 0, digits)
    IN  IF digits = <<>> \/ ~(Range(digits) \subseteq Range(Digits)) THEN NotVersion
        ELSE IF value > MaxNumber THEN NotVersion ELSE value

Numbers(text) == [k \in DOMAIN text |-> Number(text[k])]

LeadingZero(part) == Len(part) > 1 /\ Head(part) = "0"

\* Any month has 31 days.
ParseCalver(text) ==
    LET date == Numbers(text)
    IN  IF \/ Len(text) # 3
           \/ \E k \in DOMAIN text : LeadingZero(text[k]) \/ date[k] = NotVersion
        THEN NotVersion
        ELSE IF date[2] \in 1 .. 12 /\ date[3] \in 1 .. 31 THEN date ELSE NotVersion

\* A tag has a base, and the suffix -alpha or not; a v before it is optional.
ParseAlphaReleaseTag(tag) ==
    IF tag.alpha /\ ParseCalver(tag.base) # NotVersion THEN tag.base ELSE NotVersion

CalverLess(a, b) ==
    \E k \in 1 .. 3 : a[k] < b[k] /\ \A j \in 1 .. k - 1 : a[j] = b[j]

\* A missing patch is zero; leading zeros do not matter.
ParsePackageVersion(text) ==
    IF Len(text) \notin 2 .. 3 THEN NotVersion
    ELSE IF \E k \in DOMAIN text : Number(text[k]) = NotVersion THEN NotVersion
    ELSE IF Len(text) = 2 THEN Append(Numbers(text), 0) ELSE Numbers(text)

\* One part goes up by one, and those behind it start from zero.
IsLegalApiStep(from, to) ==
    to \in {from,
            <<from[1], from[2], from[3] + 1>>,
            <<from[1], from[2] + 1, 0>>,
            <<from[1] + 1, 0, 0>>}

IsCompatible(have, required) ==
    have[1] = required[1] /\ have[2] >= required[2]

\* package_version_meets_floor, and the checks of what a package needs of the
\* host: a floor is a major and a minor.
MeetsFloor(installed, floor) == IsCompatible(installed, <<floor[1], floor[2], 0>>)

\* validate. A release is [tag, cargo (the version in Cargo.toml), bootstrap,
\* calver, modules, extensions (texts of the release before, or <<>> if not
\* given)]; host has the APIs now.
ValidRelease(release, host) ==
    LET calver     == ParseCalver(release.tag.base)
        previous   == ParseCalver(release.calver)
        modules    == ParsePackageVersion(release.modules)
        extensions == ParsePackageVersion(release.extensions)
    IN  /\ ParseAlphaReleaseTag(release.tag) = release.cargo
        /\ ~release.bootstrap =>
            /\ NotVersion \notin {previous, modules, extensions}
            /\ ~CalverLess(calver, previous)
            /\ IsLegalApiStep(modules, host.modules)
            /\ IsLegalApiStep(extensions, host.extensions)

\* set_version: the version in Cargo.toml afterwards.
SetVersion(cargo, calver) ==
    IF ParseCalver(calver) = NotVersion THEN cargo ELSE calver
=============================================================================

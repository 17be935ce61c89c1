----------------------------- MODULE MCVersions -----------------------------
(* Checks of Versions by TLC, which evaluates them with the run of            *)
(* ModuleRuntime. Numbers go up to 40.                                        *)
EXTENDS Versions

Triples == (0 .. 3) \X (0 .. 3) \X (0 .. 2)
Dates   == {25, 26} \X {1, 9, 10, 12} \X {1, 9, 10, 31}

\* format_calver and format_api_version.
Written(n) == IF n < 10 THEN <<Digits[n + 1]>> ELSE <<Digits[n \div 10 + 1], Digits[(n % 10) + 1]>>
Format(v)  == [k \in DOMAIN v |-> Written(v[k])]

Parts == {<<>>, <<"0">>, <<"7">>, <<"0", "7">>, <<"1", "2">>, <<"1", "3">>, <<"9", "9">>,
          <<"+", "7">>, <<"+">>, <<"x">>, <<"7", "-">>}
Texts == UNION {[1 .. n -> Parts] : n \in 0 .. 3}

\* What is written is read back, and what is read has one form only: the tag of
\* a release names its version.
ASSUME ReadsWhatItWrites ==
    /\ \A d \in Dates : ParseCalver(Format(d)) = d
    /\ \A t \in Texts : ParseCalver(t) # NotVersion =>
            t = Format(ParseCalver(t)) \/ \E k \in DOMAIN t : Head(t[k]) = "+"
    /\ \A v \in Triples : ParsePackageVersion(Format(v)) = v
                            /\ ParsePackageVersion(<<Written(v[1]), Written(v[2])>>)
                                = <<v[1], v[2], 0>>

\* Releases are ordered by their dates.
ASSUME OrderedByDate ==
    LET days(d) == (d[1] * 13 + d[2]) * 32 + d[3]
    IN  \A a, b \in Dates : CalverLess(a, b) <=> days(a) < days(b)

\* What runs with a host runs with every later one of the same major version,
\* over any number of legal steps; and never with another major version.
ASSUME UpgradesKeepPackages ==
    /\ \A from, to, required \in Triples :
        IsLegalApiStep(from, to) /\ to[1] = from[1] /\ IsCompatible(from, required)
            => IsCompatible(to, required)
    /\ \A a, b, c \in Triples : IsCompatible(a, b) /\ IsCompatible(b, c) => IsCompatible(a, c)
    /\ \A have, required \in Triples :
        MeetsFloor(have, required) <=> have[1] = required[1] /\ ~(have[2] < required[2])

\* A release that is let through is not older than the one before, bears the
\* version of the sources, and cannot leave out a minor or a major version.
ASSUME ReleasesAreSteps ==
    \A date, previous \in {<<25, 9, 31>>, <<26, 1, 1>>}, alpha, bootstrap \in BOOLEAN,
       old \in {<<0, 1, 0>>, <<0, 2, 1>>}, new \in Triples :
        LET text    == Format(date)
            release == [tag |-> [base |-> text, alpha |-> alpha], cargo |-> text,
                        bootstrap |-> bootstrap, calver |-> Format(previous),
                        modules |-> Format(old), extensions |-> Format(<<0, 1, 0>>)]
            host    == [modules |-> new, extensions |-> <<0, 1, 0>>]
        IN  ValidRelease(release, host) <=>
                /\ alpha
                /\ bootstrap \/ /\ date = previous \/ CalverLess(previous, date)
                                /\ new[1] + new[2] + new[3] =< old[1] + old[2] + old[3] + 1
                                /\ IsLegalApiStep(old, new)
=============================================================================

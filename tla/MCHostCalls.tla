----------------------------- MODULE MCHostCalls -----------------------------
(* Checks of HostCalls by TLC, which evaluates them with the run of           *)
(* ExtensionRegistry.                                                         *)
EXTENDS HostCalls

Text(text)   == [is |-> "string", text |-> text]
Texts(texts) == [is |-> "array", items |-> [k \in DOMAIN texts |-> Text(texts[k])]]

Entry(extension, method, key, value) ==
    [extension |-> extension, method |-> method, constraints |-> [k \in {key} |-> value]]

SequencesOf(S, n) == UNION {[1 .. k -> S] : k \in 0 .. n}

Holds(check) == check = "ok"

-----------------------------------------------------------------------------
(* Paths: a home directory with a file, and two links that leave it.         *)

Home  == <<"/", "home", "me">>
Links == [p \in {<<"/", "home">>, Home, Home \o <<"a">>, Home \o <<"out">>, <<"/", "etc">>,
                 Home \o <<"..">>, Home \o <<"a", "..">>, <<"/", "etc", "a">>,
                 Home \o <<"out", "a">>}
            |-> CASE p = Home \o <<"out">>      -> <<"/", "etc">>
                  [] p = Home \o <<"out", "a">> -> <<"/", "etc", "a">>
                  [] OTHER -> LexicalNormalize(p)]

Paths == {prefix \o rest : prefix \in {<<>>, <<"~/">>, Home, <<"/", "etc">>},
                           rest \in SequencesOf({"a", "..", "out", "."}, 2)}

Allowed == {<<"~/">>, <<"~/", "a">>, Home \o <<"out">>, <<"/", "etc", "..">>, <<"a">>}

FsRequest(path, lists) ==
    [permissions |-> [k \in DOMAIN lists |-> Entry("fs", "read", "path_prefixes", lists[k])],
     method |-> "read", payload |-> path]

\* What read_to_string opens.
Opened(path) == LET p == ExpandPath(path, Home) IN IF p \in DOMAIN Links THEN {Links[p]} ELSE {}

\* A file that is read is below a prefix, however the path leads to it; and
\* neither the way a path is written nor a second prefix takes that away.
ASSUME FsReadsBelow ==
    \A path \in Paths, prefix, other \in Allowed :
        LET allowed == Holds(FsCheck(FsRequest(path, <<Texts(<<prefix>>)>>), Home, Links))
            real    == ResolveForCheck(ExpandPath(prefix, Home), Links)
        IN  /\ allowed => \A file \in Opened(path) : IsPrefix(real, file)
            /\ ~allowed => \A file \in Opened(path) : ~IsPrefix(real, file)
            /\ allowed => Holds(FsCheck(FsRequest(path, <<Texts(<<other, prefix>>)>>), Home, Links))
            /\ allowed => Holds(FsCheck(FsRequest(path, <<Texts(<<other>>), Texts(<<prefix>>)>>),
                                        Home, Links))

\* A normal form: no dots are left, and normalizing again changes nothing.
ASSUME NormalForm ==
    \A path \in Paths : LET n == LexicalNormalize(path) IN
        Range(n) \cap {".", ".."} = {} /\ LexicalNormalize(n) = n

\* The entries are looked at in order: a malformed one refuses what only a
\* later one allows, and does not undo what an earlier one has allowed.
ASSUME OrderMatters ==
    \A bad \in {Text(Home), [is |-> "array", items |-> <<[is |-> "integer"]>>]} :
        LET good == Texts(<<<<"~/">>>>)
            ask(lists) == Holds(FsCheck(FsRequest(<<"~/", "a">>, lists), Home, Links))
        IN  ask(<<good>>) /\ ask(<<good, bad>>) /\ ~ask(<<bad, good>>) /\ ~ask(<<bad>>) /\ ~ask(<<>>)

\* A battery is reached through its link in /sys/class; a path out of there is
\* not, whatever it names.
ASSUME PowerReadsSupplies ==
    LET class  == <<"/", "sys", "class", "power_supply">>
        device == <<"/", "sys", "devices", "power_supply", "BAT0", "capacity">>
        links  == [p \in {class, class \o <<"BAT0", "capacity">>, class \o <<"x">>,
                          class \o <<"..", "x">>}
                    |-> CASE p = class -> class
                          [] p = class \o <<"BAT0", "capacity">> -> device
                          [] OTHER -> <<"/", "sys", "class", "x">>]
        ask(path) == Holds(PowerCheck(
            [permissions |-> <<Entry("power", "capacity", "path_prefixes", Texts(<<class>>))>>,
             method |-> "capacity", payload |-> path], links))
    IN  /\ ask(class \o <<"BAT0", "capacity">>) /\ ask(class \o <<"BAT1", "capacity">>)
        /\ ~ask(class \o <<"x">>) /\ ~ask(class \o <<"..", "x">>)
        /\ ~ask(<<"sys">>) /\ ~ask(<<>>)

-----------------------------------------------------------------------------
(* Addresses. *)

PathTexts == {<<"/">> \o rest : rest \in SequencesOf({"a", "/", "?"}, 3)}

Urls == {Refused}
    \cup [scheme : {"http", "https"}, host : {"x", Nothing}, port : {Nothing, 80, 443},
          path : {<<"/">>, <<"/", "a">>, <<"/", "a", "/">>, <<"/", "ab">>, <<"/", "a", "?", "q">>}]

\* The path of an address below a prefix is the prefix, or goes on from there
\* with a component or a query of its own; and below is transitive.
ASSUME BelowPath ==
    \A p, prefix \in PathTexts :
        /\ PathUnder(p, prefix) => IsPrefix(prefix, p) /\ PathUnder(p, <<"/">>)
        /\ PathUnder(p, prefix) <=>
            \/ p = prefix
            \/ \E rest \in PathTexts : p = prefix \o rest
            \/ \E k \in 1 .. Len(p) : SubSeq(p, 1, k) = prefix
                                        /\ (Last(prefix) = "/" \/ p[k + 1] = "?")

ASSUME BelowAddress ==
    \A url, prefix \in Urls :
        UrlUnderPrefix(url, prefix) = "yes" =>
            /\ url.scheme = prefix.scheme /\ url.host = prefix.host /\ url.host # Nothing
            /\ url.port = prefix.port \/ {EffectivePort(url)} = {EffectivePort(prefix)}

-----------------------------------------------------------------------------
(* Calls and records. *)

Methods == {"read", "other", "check"}

\* An extension is asked before it is called, and only for what the manifest
\* names; what it refused it does not get, and a denied call it never sees.
ASSUME AskedFirst ==
    \A m \in Methods, p \in {<<>>, <<Entry("fs", "read", "k", Text(<<>>))>>,
                             <<Entry("mem", "read", "k", Text(<<>>))>>,
                             <<Entry("fs", "check", "k", Text(<<>>))>>},
       checks \in {"unsent", "ok", "error"}, answers \in {"ok", "error"} :
        LET call == CallExtension(p, "fs", m, "x", checks, answers)
            own  == {k \in DOMAIN call.sent : call.sent[k].method # "check"}
        IN  /\ own # {} => /\ own = {2} /\ call.sent[1].payload.permissions = p
                           /\ AllowlistCheck(call.sent[1].payload, "fs") = "ok"
                           /\ call.sent[2] = [method |-> m, payload |-> call.sent[1].payload.payload]
            /\ call.outcome = "ok" => own # {} /\ {checks, answers} = {"ok"}
            /\ call.outcome = "denied" <=> ~MaySubscribe("m", p, "fs", m)
            /\ call.sent = <<>> <=> call.outcome = "denied" \/ checks = "unsent"

\* The record holds the latest calls, in their order.
ASSUME LatestCalls ==
    \A n, limit \in 0 .. MaxRecords + 2 :
        LET records == FoldLeft(Push, <<>>, [k \in 1 .. n |-> k])
            shown   == Recent(records, Min({limit, MaxRecords}))
        IN  /\ Len(records) =< MaxRecords
            /\ shown = LastOf([k \in 1 .. n |-> k], Min({limit, MaxRecords}))

Words == SequencesOf({"~", "/", "home", "https:", "http:", "secret"}, 4)

\* What was hidden once stays hidden when the message is redacted again, as
\* the status command does twice; but for the mark it stays the same.
Unmarked(text) == SelectSeq(text, LAMBDA c : c # Hidden)

ASSUME RedactsOnce ==
    \A text \in Words : LET once == RedactMessage(text) IN
        Unmarked(RedactMessage(once)) = Unmarked(once) /\ IsPrefix(Unmarked(once), text)

\* No more than the host of an address is shown, and no more than the first
\* directory of a path.
ASSUME LittleIsShown ==
    \A text \in Words : LET shown == Unmarked(RedactText(text, "read")) IN
        /\ LooksLikeUrl(text) => "/" \notin Range(SubSeq(shown, 4, Len(shown)))
        /\ LooksLikePath(text) /\ ~LooksLikeUrl(text) =>
            \A k \in DOMAIN shown : \A j \in k + 1 .. Len(shown) : \A i \in j + 1 .. Len(shown) :
                shown[k] \notin {"~", "/"} /\ shown[j] = "/" => shown[i] = "/"

\* A sensitive value does not show, however deep it is; values that cannot be
\* converted are refused, and nothing else is.
Trees ==
    LET leaves == {Text(<<"secret">>), [is |-> "integer"], [is |-> "float"]}
        of(S)  == {[is |-> "array", items |-> <<x>>] : x \in S}
                    \cup {[is |-> "object", fields |-> [k \in {"token", "name"} |-> x]] : x \in S}
    IN  leaves \cup of(leaves) \cup of(of(leaves))

RECURSIVE Leaves(_)
Leaves(value) ==
    CASE value.is = "array"  -> UNION {Leaves(value.items[k]) : k \in DOMAIN value.items}
      [] value.is = "object" -> UNION {Leaves(value.fields[k]) : k \in DOMAIN value.fields}
      [] OTHER -> {value}

RECURSIVE Guarded(_)
Guarded(value) ==
    CASE value.is = "array"  -> \A k \in DOMAIN value.items : Guarded(value.items[k])
      [] value.is = "object" -> \A k \in DOMAIN value.fields :
            IF k \in Sensitive THEN Leaves(value.fields[k]) = {Text(<<Hidden>>)}
            ELSE Guarded(value.fields[k])
      [] OTHER -> TRUE

ASSUME SecretsDoNotShow == \A tree \in Trees : Guarded(RedactPayload("get", tree))

\* The status shows each extension once, whether it is installed, required or
\* both, and one that lacks its manifest as installed if it is required; a
\* stopped daemon has no live ones.
ASSUME StatusIsComplete ==
    \A fs, mem \in SUBSET {"manifest.toml", "extension"}, running \in BOOLEAN :
        LET manifests == [k \in {"cpu", "ram"} |-> IF k = "cpu" THEN {"time"} ELSE {"mem", "time"}]
            packages == [x \in {"fs", "mem"} |-> IF x = "fs" THEN fs ELSE mem]
            status == StatusShown(running, manifests, <<"ram", "gone", "ram">>, packages,
                                  [x \in {"fs", "mem", "time"} |-> "live"], <<1>>, 1)
        IN  /\ {row.name : row \in status.rows}
                = {"mem", "time"} \cup IF Cardinality(fs) = 2 THEN {"fs"} ELSE {}
            /\ \A row \in status.rows :
                /\ row.installed <=> row.name \in DOMAIN packages /\ "extension" \in packages[row.name]
                /\ row.required = IF row.name = "fs" THEN {} ELSE {"ram"}
                /\ ~running => row.live = "idle"
            /\ status.calls # <<>> <=> running
=============================================================================

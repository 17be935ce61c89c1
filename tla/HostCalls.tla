------------------------------ MODULE HostCalls ------------------------------
(***************************************************************************)
(* A call from a module to an extension: the permissions of the module's   *)
(* manifest (src/manifest.rs), the host that asks the extension to check a *)
(* call before it makes it (src/host.rs, packages/extension-protocol), the *)
(* checks of the extensions, the record that is kept of it                 *)
(* (src/extension/audit.rs) and what `smstatus extension status` shows     *)
(* (src/extension/status.rs). How the frames travel is in                  *)
(* ExtensionRegistry.                                                      *)
(*                                                                         *)
(* Texts are sequences of tokens: "/", "~", "?", "https:" and words. A     *)
(* path is the sequence of its components, "/" first if it is absolute and *)
(* "~/" first if it begins with that. A value is a record with `is`, and   *)
(* `items` of an array, `fields` of an object, `text` of a string.         *)
(***************************************************************************)
EXTENDS Naturals, SequencesExt, FiniteSetsExt

CONSTANTS
    Nothing,        \* no port, no home directory, no instance
    Refused,        \* an error
    Hidden,         \* the mark <redacted>
    Sensitive,      \* keys whose values are not shown
    MaxRecords      \* ExtensionCallAudit::MAX_RECORDS

Reserved(method) == method = "check"

-----------------------------------------------------------------------------
(* Permissions. An entry is [extension, method, constraints].              *)

\* toml_value_to_json: floats, dates and tables have no counterpart.
RECURSIVE Convertible(_)
Convertible(value) ==
    \/ value.is \in {"string", "integer", "boolean"}
    \/ value.is = "array" /\ \A k \in DOMAIN value.items : Convertible(value.items[k])

ToProtocolEntry(entry) ==
    IF \A key \in DOMAIN entry.constraints : Convertible(entry.constraints[key])
    THEN entry ELSE Refused

\* One bad entry refuses the manifest.
FrozenPermissions(permissions) ==
    IF \E k \in DOMAIN permissions : ToProtocolEntry(permissions[k]) = Refused
    THEN Refused ELSE permissions

\* A check is [permissions, method, payload].
MatchingEntries(check, extension) ==
    SelectSeq(check.permissions,
              LAMBDA e : e.extension = extension /\ e.method = check.method)

ConstraintStringList(entry, key) ==
    IF key \notin DOMAIN entry.constraints THEN Refused
    ELSE LET value == entry.constraints[key]
         IN  IF value.is # "array" THEN Refused
             ELSE IF \E k \in DOMAIN value.items : value.items[k].is # "string" THEN Refused
             ELSE [k \in DOMAIN value.items |-> value.items[k].text]

-----------------------------------------------------------------------------
(* The checks of the extensions: "ok" or "error".                          *)

\* allowlist_check_response, of mem, time, disk, xkb and process.
AllowlistCheck(check, extension) ==
    IF MatchingEntries(check, extension) = <<>> THEN "error" ELSE "ok"

\* The loop over the prefixes of the matching entries, in their order: the
\* first that is not "no" decides, also when it is an error.
PrefixCheck(entries, key, Under(_)) ==
    LET list(e)  == ConstraintStringList(e, key)
        found(e) == IF list(e) = Refused THEN <<"error">>
                    ELSE [k \in DOMAIN list(e) |-> Under(list(e)[k])]
        all      == FlattenSeq([k \in DOMAIN entries |-> found(entries[k])])
        decisive == SelectSeq(all, LAMBDA answer : answer # "no")
    IN  IF decisive # <<>> /\ Head(decisive) = "yes" THEN "ok" ELSE "error"

\* What a check with prefixes has in common: other methods need an entry only.
CheckMethod(check, extension, method, Decide(_)) ==
    LET entries == MatchingEntries(check, extension)
    IN  IF entries = <<>> THEN "error"
        ELSE IF check.method # method THEN "ok" ELSE Decide(entries)

YesNo(b) == IF b THEN "yes" ELSE "no"

(* Paths. links maps the paths that exist to their canonical paths. *)

\* The parent of the root is the root.
LexicalNormalize(path) ==
    LET step(out, c) == CASE c = "."  -> out
                          [] c = ".." -> IF out \in {<<>>, <<"/">>} THEN out ELSE Front(out)
                          [] OTHER    -> Append(out, c)
    IN  FoldLeft(step, <<>>, path)

ExpandPath(path, home) ==
    IF path = <<>> \/ Head(path) # "~/" THEN path
    ELSE IF home = Nothing THEN Refused ELSE home \o Tail(path)

ResolveForCheck(path, links) ==
    IF path \in DOMAIN links THEN links[path] ELSE LexicalNormalize(path)

FsUnderPrefix(path, prefix, links) ==
    IsPrefix(ResolveForCheck(prefix, links), ResolveForCheck(path, links))

\* handle_check of fs.
FsCheck(check, home, links) ==
    LET path == ExpandPath(check.payload, home)
        under(p) == LET prefix == ExpandPath(p, home)
                    IN  IF prefix = Refused THEN "error"
                        ELSE YesNo(FsUnderPrefix(path, prefix, links))
    IN  CheckMethod(check, "fs", "read", LAMBDA entries :
            IF path = Refused THEN "error" ELSE PrefixCheck(entries, "path_prefixes", under))

\* A supply is a link into /sys/devices, which the prefix does not cover.
PowerUnderPrefix(path, prefix, links) ==
    /\ IsPrefix(LexicalNormalize(prefix), LexicalNormalize(path))
    /\ path \in DOMAIN links =>
        \/ prefix \in DOMAIN links /\ IsPrefix(links[prefix], links[path])
        \/ Contains(links[path], "power_supply")

\* handle_check of power.
PowerCheck(check, links) ==
    CheckMethod(check, "power", "capacity", LAMBDA entries :
        IF check.payload = <<>> \/ Head(check.payload) # "/" THEN "error"
        ELSE PrefixCheck(entries, "path_prefixes",
                LAMBDA p : YesNo(PowerUnderPrefix(check.payload, p, links))))

(* Addresses: [scheme, host, port, path], or Refused if they do not parse;   *)
(* the path is a text that begins with "/" and may have a query.             *)

EffectivePort(url) ==
    CASE url.port # Nothing    -> url.port
      [] url.scheme = "https"  -> 443
      [] url.scheme = "http"   -> 80
      [] OTHER                 -> Nothing

PathUnder(path, prefix) ==
    IF prefix \in {<<>>, <<"/">>} THEN path # <<>> /\ Head(path) = "/"
    ELSE /\ IsPrefix(prefix, path)
         /\ \/ Len(path) = Len(prefix)
            \/ Last(prefix) = "/"
            \/ path[Len(prefix) + 1] \in {"/", "?"}

UrlUnderPrefix(url, prefix) ==
    IF Refused \in {url, prefix} THEN "error"
    ELSE IF url.scheme # prefix.scheme THEN "no"
    ELSE IF Nothing \in {url.host, prefix.host} THEN "error"
    ELSE YesNo(/\ url.host = prefix.host
               /\ EffectivePort(url) = EffectivePort(prefix)
               /\ PathUnder(url.path, prefix.path))

\* handle_check of http. The payload is the address, or Refused.
HttpCheck(check) ==
    CheckMethod(check, "http", "get", LAMBDA entries :
        IF check.payload = Refused THEN "error"
        ELSE PrefixCheck(entries, "url_prefixes", LAMBDA p : UrlUnderPrefix(check.payload, p)))

-----------------------------------------------------------------------------
(* The host. *)

Permitted(permissions, extension, method) ==
    \E k \in DOMAIN permissions :
        permissions[k].extension = extension /\ permissions[k].method = method

\* call_extension: the requests the extension gets, and the outcome. verdict is
\* what it says to the check, which carries all permissions of the module, or
\* "unsent" when the check could not be encoded.
CallExtension(permissions, extension, method, payload, verdict, answer) ==
    LET check == [method |-> "check",
                  payload |-> [permissions |-> permissions, method |-> method,
                               payload |-> payload]]
        call  == [method |-> method, payload |-> payload]
    IN  IF Reserved(method) \/ ~Permitted(permissions, extension, method)
        THEN [sent |-> <<>>, outcome |-> "denied"]
        ELSE IF verdict = "unsent"
        THEN [sent |-> <<>>, outcome |-> "error"]
        ELSE IF verdict # "ok"
        THEN [sent |-> <<check>>, outcome |-> "error"]
        ELSE [sent |-> <<check, call>>, outcome |-> answer]

\* subscribe_extension_event: events are permitted like methods, and the
\* extension is not asked.
MaySubscribe(instance, permissions, extension, event) ==
    instance # Nothing /\ ~Reserved(event) /\ Permitted(permissions, extension, event)

-----------------------------------------------------------------------------
(* The record of calls. *)

LastOf(s, n) == IF Len(s) =< n THEN s ELSE SubSeq(s, Len(s) - n + 1, Len(s))

Push(records, record) == LastOf(Append(records, record), MaxRecords)

Recent(records, limit) == LastOf(records, limit)

(* What a record shows of a payload or an error; the cut after 80 bytes is *)
(* left out.                                                               *)

IsScheme(text, k) ==
    /\ k + 2 =< Len(text)
    /\ text[k] \in {"http:", "https:"} /\ text[k + 1] = "/" /\ text[k + 2] = "/"

LooksLikeUrl(text) == IsScheme(text, 1)

HasHome(text) == \E k \in DOMAIN text : IsPrefix(<<"/", "home", "/">>, SubSeq(text, k, Len(text)))

LooksLikePath(text) == text # <<>> /\ (text[1] \in {"/", "~"} \/ HasHome(text))

\* The first k >= from at which Test holds, or the length.
Until(text, from, Test(_)) ==
    Min({Len(text)} \cup {k \in DOMAIN text : k >= from /\ Test(text[k])})

RedactUrl(text) ==
    LET slash == {k \in 4 .. Len(text) : text[k] = "/"}
    IN  SubSeq(text, 1, IF slash = {} THEN Len(text) ELSE Min(slash) - 1) \o <<Hidden>>

\* The first component stays.
RedactPath(text) ==
    LET start == Until(text, 1, LAMBDA c : c # "~")
        first == Until(text, start, LAMBDA c : c # "/")
        cut   == Until(text, first, LAMBDA c : c = "/")
    IN  IF cut = Len(text) THEN text ELSE SubSeq(text, 1, cut) \o <<Hidden>>

PathLike(method) == method \in {"read", "write", "list", "stat", "exists", "fs"}

RedactText(text, method) ==
    IF LooksLikeUrl(text) THEN RedactUrl(text)
    ELSE IF PathLike(method) \/ LooksLikePath(text) THEN RedactPath(text)
    ELSE text

\* redact_json_value.
RECURSIVE RedactValue(_, _)
RedactValue(value, method) ==
    CASE value.is = "object" ->
            [value EXCEPT !.fields = [key \in DOMAIN @ |->
                IF key \in Sensitive THEN [is |-> "string", text |-> <<Hidden>>]
                ELSE RedactValue(@[key], method)]]
      [] value.is = "array" ->
            [value EXCEPT !.items = [k \in DOMAIN @ |-> RedactValue(@[k], method)]]
      [] value.is = "string" -> [value EXCEPT !.text = RedactText(@, method)]
      [] OTHER -> value

\* redact_payload, and redact_error_message of a message that is no JSON: an
\* address within it is looked for, one in clear text first.
RedactPayload(method, payload) ==
    IF payload.is = "text" THEN [payload EXCEPT !.text = RedactText(@, method)]
    ELSE RedactValue(payload, method)

RedactMessage(text) ==
    LET plain  == {k \in DOMAIN text : IsScheme(text, k) /\ text[k] = "http:"}
        secure == {k \in DOMAIN text : IsScheme(text, k) /\ text[k] = "https:"}
        at     == IF plain # {} THEN Min(plain) ELSE Min(secure)
    IN  IF LooksLikeUrl(text) \/ LooksLikePath(text) THEN RedactText(text, "")
        ELSE IF plain \cup secure = {} THEN text
        ELSE SubSeq(text, 1, at - 1) \o RedactUrl(SubSeq(text, at, Len(text)))

-----------------------------------------------------------------------------
(* extension status. *)

\* collect_required_extensions: manifests maps the kinds whose manifest can be
\* read to the extensions it requires; entries are kinds of the module list.
RequiredBy(manifests, entries, extension) ==
    {kind \in Range(entries) \cap DOMAIN manifests : extension \in manifests[kind]}

\* list_extensions_in and is_installed: packages maps names to the files there
\* are; the list has those with both files, and the rows look at the binary.
Listed(packages) == {x \in DOMAIN packages : {"manifest.toml", "extension"} \subseteq packages[x]}

Installed(packages, x) == x \in DOMAIN packages /\ "extension" \in packages[x]

\* build_snapshot: a row for every extension that is installed or required;
\* live maps the names to what live_state says of them.
Snapshot(manifests, entries, packages, live, records, limit) ==
    LET required == {x \in UNION {manifests[k] : k \in DOMAIN manifests} :
                        RequiredBy(manifests, entries, x) # {}}
    IN  [rows  |-> {[name |-> x, installed |-> Installed(packages, x), live |-> live[x],
                     required |-> RequiredBy(manifests, entries, x)]
                        : x \in Listed(packages) \cup required},
         calls |-> Recent(records, Min({limit, MaxRecords}))]

\* cmd_extension_status: a daemon that runs is asked; without one the command
\* makes a snapshot of its own, of extensions that are not running.
StatusShown(running, manifests, entries, packages, live, records, limit) ==
    IF running THEN Snapshot(manifests, entries, packages, live, records, limit)
    ELSE Snapshot(manifests, entries, packages, [x \in DOMAIN live |-> "idle"], <<>>, limit)
=============================================================================

------------------------------ MODULE Packages ------------------------------
(***************************************************************************)
(* What happens to a package before it touches the package directory: the  *)
(* source is resolved and its hash compared (src/install.rs), the archive  *)
(* is read, the manifest checked (src/manifest.rs), and the decision to    *)
(* install taken. Pin files (src/pin.rs) and catalogs (src/catalog.rs)     *)
(* produce the same requests as the command line.                          *)
(*                                                                         *)
(* A request q is a record: scheme ("local", "http", "https") and hops     *)
(* (schemes of the redirects), reachable, targz, size; option and sidecar  *)
(* (a hash, NoHash or Malformed) and bytes (the hash of the archive);      *)
(* archive, a sequence of entries; allow, force, wantName, wantVersion     *)
(* (Anything when not given). An entry has a type, a path (a sequence of   *)
(* components), a size and a body. The body of a manifest.toml is a record *)
(* or Malformed; that of any other file is the version it was built for.   *)
(***************************************************************************)
EXTENDS Naturals, Sequences, FiniteSetsExt

CONSTANTS
    MaxDownload,    \* largest download
    MaxManifest,    \* largest manifest in an archive
    MaxUnpacked,    \* largest unpacked archive
    NoHash,         \* no hash was given
    Malformed,      \* a hash, or a manifest, that does not parse
    Directory,      \* what a path holds that is not a file
    Anything,       \* an expectation that was not stated
    Refused         \* the request is an error

-----------------------------------------------------------------------------
(* The source and its hash. *)

IsRemote(q) == q.scheme # "local"

\* No hop of a download is in clear text, unless that was asked for.
UrlsAccepted(q) == q.allow \/ "http" \notin {q.scheme} \cup q.hops

ResolveSource(q) ==
    /\ q.targz
    /\ q.reachable
    /\ IsRemote(q) => UrlsAccepted(q) /\ q.size =< MaxDownload

\* The hash given with the request comes first; the file beside a local
\* archive is the second choice.
ExpectedHash(q) ==
    IF q.option # NoHash THEN q.option
    ELSE IF IsRemote(q) THEN NoHash ELSE q.sidecar

VerifySource(q) ==
    IF ExpectedHash(q) = NoHash THEN ~IsRemote(q)
    ELSE ExpectedHash(q) = q.bytes

-----------------------------------------------------------------------------
(* The archive. *)

FileName(e) == e.path[Len(e.path)]
Escapes(e)  == \E k \in DOMAIN e.path : e.path[k] \in {"..", "/"}

\* Reading stops with an error once this much came out of the decompressor.
TooLarge(a, k) == MapThenSumSet(LAMBDA j : a[j].size, 1 .. k) > MaxUnpacked

\* The entries at which the scan for the first manifest.toml ends.
Decides(e) ==
    \/ e.type \notin {"file", "dir"}
    \/ e.type = "file" /\ (Escapes(e) \/ FileName(e) = "manifest.toml")

\* read_manifest_toml_from_archive: the first manifest.toml at any depth.
FirstManifest(a) ==
    LET stops == {k \in DOMAIN a : Decides(a[k])}
    IN  IF stops = {} THEN Refused
        ELSE LET k == Min(stops)
             IN  IF \/ a[k].type # "file" \/ Escapes(a[k])
                    \/ a[k].size > MaxManifest \/ TooLarge(a, k)
                 THEN Refused ELSE a[k].body

\* unpack_archive. The tree maps a path to a body or to Directory; a later
\* entry overwrites an earlier one.
Unpackable(a) ==
    /\ \A k \in DOMAIN a : a[k].type \in {"file", "dir"} /\ ~Escapes(a[k])
    /\ ~TooLarge(a, Len(a))

Unpack(a) ==
    LET at(p)   == {k \in DOMAIN a : a[k].path = p}
        files   == {a[k].path : k \in DOMAIN a}
        parents == UNION {{SubSeq(p, 1, n) : n \in 1 .. Len(p) - 1} : p \in files}
        body(k) == IF a[k].type = "dir" THEN Directory ELSE a[k].body
    IN  [p \in files \cup parents |->
            IF at(p) = {} THEN Directory ELSE body(Max(at(p)))]

IsFile(tree, p) == p \in DOMAIN tree /\ tree[p] # Directory

\* The manifest is at the root, or in the only entry of the root.
PackageRoot(tree) ==
    LET tops == {p \in DOMAIN tree : Len(p) = 1}
    IN  IF IsFile(tree, <<"manifest.toml">>) THEN <<>>
        ELSE IF \E top \in tops : /\ tops = {top}
                                  /\ IsFile(tree, top \o <<"manifest.toml">>)
        THEN CHOOSE top \in tops : TRUE
        ELSE Refused

Payload(kind) == IF kind = "module" THEN "module.wasm" ELSE "extension"

\* The two files that are placed, or Refused.
RequireFiles(a, kind) ==
    IF ~Unpackable(a) THEN Refused
    ELSE LET tree == Unpack(a)
             root == PackageRoot(tree)
         IN  IF root = Refused \/ ~IsFile(tree, root \o <<Payload(kind)>>)
             THEN Refused
             ELSE [manifest |-> tree[root \o <<"manifest.toml">>],
                   payload  |-> tree[root \o <<Payload(kind)>>]]

-----------------------------------------------------------------------------
(* The manifest. *)

\* parse_module_manifest_str: names can be used as paths, permissions are for
\* required extensions and not for the reserved method.
ModuleManifestParses(m) ==
    /\ m # Malformed
    /\ m.safe
    /\ \A p \in m.permissions : /\ p.method \notin {"", "check"}
                                /\ p.extension \in m.requires
                                /\ p.convertible

ExtensionManifestParses(m) == m # Malformed /\ m.safe

ManifestParses(m, kind) ==
    m # Refused /\ IF kind = "module" THEN ModuleManifestParses(m)
                                      ELSE ExtensionManifestParses(m)

ExpectedManifest(m, q) ==
    q.wantName \in {Anything, m.name} /\ q.wantVersion \in {Anything, m.version}

\* The manifest an installation is decided by: for a module that of the
\* unpacked package, for an extension the first in the archive.
JudgedManifest(q, kind) ==
    IF kind = "extension" THEN FirstManifest(q.archive)
    ELSE LET files == RequireFiles(q.archive, kind)
         IN  IF files = Refused THEN Refused ELSE files.manifest

\* Everything that can refuse a request before the package directory is
\* looked at.
Acceptable(q, kind) ==
    /\ ResolveSource(q)
    /\ VerifySource(q)
    /\ LET m == JudgedManifest(q, kind)
       IN  ManifestParses(m, kind) /\ ExpectedManifest(m, q)

\* decide_module_install and decide_extension_install.
Decide(kind, installed, candidate, force) ==
    IF installed = candidate /\ ~(kind = "extension" /\ force)
    THEN "skip" ELSE "replace"

-----------------------------------------------------------------------------
(* Catalogs. An index is a sequence of entries, modules first. *)

\* Only the built-in address may show entries as official.
CatalogSource(cliFile, envFile, envUrl) ==
    IF cliFile # Anything THEN [from |-> cliFile, eligible |-> FALSE]
    ELSE IF envFile # Anything THEN [from |-> envFile, eligible |-> FALSE]
    ELSE IF envUrl # Anything THEN [from |-> envUrl, eligible |-> FALSE]
    ELSE [from |-> "official", eligible |-> TRUE]

Official(entry, eligible) == eligible /\ entry.official

\* parse_catalog_json: one malformed entry refuses the index.
CatalogParses(index) ==
    \A k \in DOMAIN index : "" \notin {index[k].name, index[k].version}
                            /\ index[k].sha \notin {NoHash, Malformed}

\* find_entry: exactly one entry, whatever its arch.
FindEntry(index, name, kind, version) ==
    LET found == {k \in DOMAIN index : /\ index[k].name = name
                                       /\ kind \in {Anything, index[k].kind}
                                       /\ version \in {Anything, index[k].version}}
    IN  IF CatalogParses(index) /\ Cardinality(found) = 1
        THEN index[CHOOSE k \in found : TRUE] ELSE Refused

\* cmd_install_into: download is the request for the entry's url; the entry
\* fills in what has to be met.
CatalogRequest(entry, download, force, allow) ==
    [download EXCEPT !.option = entry.sha, !.force = force, !.allow = allow,
                     !.wantName = entry.name, !.wantVersion = entry.version]

\* install_options_for_entry of a pin file; force is for extensions only.
PinRequest(download, kind, pin, allow) ==
    [download EXCEPT !.option = pin.sha, !.allow = allow,
                     !.force = kind = "extension" /\ pin.force,
                     !.wantName = pin.name, !.wantVersion = pin.version]
=============================================================================

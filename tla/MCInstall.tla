----------------------------- MODULE MCInstall -----------------------------
(* Bounds for model checking Install: two installers, four calls that fail   *)
(* while one of them has not begun and one afterwards; two versions of one   *)
(* package from local files, downloads, pin files and a catalog.             *)
EXTENDS Install, TLC

CONSTANTS i1, i2

Manifest(v) == [name |-> "demo", version |-> v, safe |-> TRUE,
                requires |-> {"fs"},
                permissions |-> {[extension |-> "fs", method |-> "read",
                                  convertible |-> TRUE]}]
Entry(type, path, size, body) ==
    [type |-> type, path |-> path, size |-> size, body |-> body]
File(path, body) == Entry("file", path, 1, body)

\* Module and extension in one, so that a request suits both kinds; some
\* archives have their files in a directory.
Archive(v) == <<File(<<"manifest.toml">>, Manifest(v)),
                File(<<"module.wasm">>, v), File(<<"extension">>, v)>>
Nested(v)  == <<Entry("dir", <<"demo">>, 0, Directory),
                File(<<"demo", "manifest.toml">>, Manifest(v)),
                File(<<"demo", "module.wasm">>, v),
                File(<<"demo", "extension">>, v)>>

Local(v) == [scheme |-> "local", hops |-> {}, reachable |-> TRUE,
             targz |-> TRUE, size |-> 1, option |-> NoHash,
             sidecar |-> NoHash, bytes |-> v, archive |-> Archive(v),
             allow |-> FALSE, force |-> FALSE, wantName |-> Anything,
             wantVersion |-> Anything]
Download(v) == [Local(v) EXCEPT !.scheme = "https", !.archive = Nested(v)]

Index == <<[kind |-> "module", name |-> "demo", version |-> "v1", sha |-> "v1",
            arch |-> Anything, official |-> TRUE],
           [kind |-> "module", name |-> "demo", version |-> "v2", sha |-> "v2",
            arch |-> Anything, official |-> FALSE],
           [kind |-> "extension", name |-> "demo", version |-> "v2",
            sha |-> "v2", arch |-> Anything, official |-> FALSE]>>

FromCatalog ==
    CatalogRequest(FindEntry(Index, "demo", "module", "v2"), Download("v2"),
                   FALSE, FALSE)
Pinned == PinRequest(Local("v1"), "extension",
                     [sha |-> "v1", force |-> TRUE, name |-> "demo",
                      version |-> "v1"], FALSE)

\* A readme directory has the first manifest.toml; the one that is placed
\* is refused when it is read.
TwoManifests == <<File(<<"doc", "manifest.toml">>, Manifest("v2")),
                  File(<<"manifest.toml">>,
                       [Manifest("v2") EXCEPT !.safe = FALSE]),
                  File(<<"module.wasm">>, "v2"), File(<<"extension">>, "v2")>>

MCRequests ==
    [local   |-> Local("v1"),
     catalog |-> FromCatalog,
     pinned  |-> Pinned,
     twice   |-> [Local("v2") EXCEPT !.archive = TwoManifests],
     partial |-> [Local("v2") EXCEPT !.archive = Tail(Archive("v2"))]]

MCManifests == {Manifest("v1"), Manifest("v2"),
                [Manifest("v2") EXCEPT !.safe = FALSE]}
MCPayloads  == {"v1", "v2"}

MCApplications ==
    {<<"local">>, <<"catalog">>, <<"pinned", "twice">>, <<"local", "partial">>}

Symmetry == Permutations(Installers)
=============================================================================

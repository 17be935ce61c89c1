--------------------------- MODULE MCModuleRuntime ---------------------------
(* A small instance of ModuleRuntime for TLC: two kinds, packages that are    *)
(* good, and one for each reason to refuse one; and the checks of Versions.   *)
EXTENDS ModuleRuntime, MCVersions

Good == [parses |-> TRUE, api |-> <<0, 1>>, requires |-> {}, schema |-> TRUE]
MCVersion ==
    [v1     |-> Good,
     v2     |-> [Good EXCEPT !.requires = {[name |-> "mem", floor |-> <<0, 2>>]}],
     schema |-> [Good EXCEPT !.schema = FALSE]]

MCHost == <<0, 1, 0>>
MCExtensions == {[n \in {} |-> <<0, 0>>], [n \in {"mem"} |-> <<0, 1>>], [n \in {"mem"} |-> <<0, 2>>]}

MCKindOf == [n \in {"cpu", "cpu#2", "ram"} |-> IF n = "ram" THEN "ram" ELSE "cpu"]

Entry(name, conf) == [name |-> name, conf |-> conf]
MCLists ==
    {<<>>,
     <<Entry("cpu", 1), Entry("cpu#2", 1)>>,
     <<Entry("ram", 1), Entry("cpu", 2)>>,
     <<Entry("cpu", 1), Entry("cpu", 1)>>}
=============================================================================

-------------------------- MODULE MCReloadRequests --------------------------
(* Checks of ReloadRequests by TLC, which evaluates them with the run of      *)
(* ControlPlane.                                                              *)
EXTENDS ReloadRequests, FiniteSets

Names    == {"cpu", "ram"}
Lists    == UNION {[1 .. n -> Names] : n \in 0 .. 2}
Requests == [config : BOOLEAN, modules : Lists, extensions : Lists]

LinesThere ==
    {Line("blank", ""), Line("status", ""), Line("config", ""), Line("module", ""),
     Line("module", "../ram"), Line("extension", "cpu"), Line("extension", "../ram"),
     Line("other", "")}

NoRepeats(names) == Cardinality(Range(names)) = Len(names)

AsSets(r) == [config |-> r.config, modules |-> Range(r.modules), extensions |-> Range(r.extensions)]

\* A request arrives as it was made, up to repetitions: what the client writes
\* the control thread accepts, and the batch asks for the same.
ASSUME RequestsArrive ==
    \A r \in Requests :
        LET served == ServeClient(CommandLines(r))
        IN  IF r = NoRequest THEN served.answer = "err"
            ELSE /\ served.answer = "ok"
                 /\ AsSets(served.batch) = AsSets(r)
                 /\ NoRepeats(served.batch.modules) /\ NoRepeats(served.batch.extensions)

\* The command line never makes a request that asks for nothing.
ASSUME CliAsks == \A c \in BOOLEAN, m, x \in Lists : FromCli(c, m, x) # NoRequest

\* Merging loses nothing and asks for nothing else, in whatever order clients
\* come: what ControlPlane takes as the union of sets of parts.
ASSUME MergeIsUnion ==
    \A r, s \in Requests :
        LET both == AsSets(Merge(Merge(NoRequest, r), s))
        IN  /\ both = AsSets(Merge(Merge(NoRequest, s), r))
            /\ both = [config     |-> r.config \/ s.config,
                       modules    |-> Range(r.modules) \cup Range(s.modules),
                       extensions |-> Range(r.extensions) \cup Range(s.extensions)]

\* A batch is made of good lines only, and of all of them or of none.
ASSUME AllOrNothing ==
    \A n \in 0 .. 3 : \A lines \in [1 .. n -> LinesThere] :
        LET served == ServeClient(lines)
            said   == {l \in Range(lines) : l.is # "blank"}
        IN  /\ served.answer # "ok" => served.batch = NoRequest
            /\ served.answer = "ok" =>
                /\ Range(served.batch.extensions) = {l.name : l \in {x \in said : x.is = "extension"}}
                /\ Range(served.batch.modules) = {l.name : l \in {x \in said : x.is = "module"}}
                /\ served.batch.config = (\E l \in said : l.is = "config")
                /\ \A l \in said : l.is \notin {"status", "other"} /\ (l.name = "" => l.is = "config")
            /\ Cardinality(said) > 1 /\ Line("status", "") \in said => served.answer = "err"
=============================================================================

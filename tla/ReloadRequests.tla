--------------------------- MODULE ReloadRequests ---------------------------
(***************************************************************************)
(* What travels over the control socket and how requests become one batch  *)
(* (src/reload.rs, serve_client and notify_running of src/control.rs).     *)
(* ControlPlane has requests as sets of parts; here they are the lists of  *)
(* names they are made of. A line is [is, name].                           *)
(***************************************************************************)
EXTENDS Naturals, SequencesExt

CONSTANTS
    Bad,            \* a line or a request that is an error
    SafeNames       \* names is_safe_extension_name accepts

NoRequest == [config |-> FALSE, modules |-> <<>>, extensions |-> <<>>]

Line(is, name) == [is |-> is, name |-> name]

-----------------------------------------------------------------------------
(* Batches. *)

PushUnique(names, name) == IF Contains(names, name) THEN names ELSE Append(names, name)

\* merge_request and merge_batch.
Merge(batch, request) ==
    [config     |-> batch.config \/ request.config,
     modules    |-> FoldLeft(PushUnique, batch.modules, request.modules),
     extensions |-> FoldLeft(PushUnique, batch.extensions, request.extensions)]

-----------------------------------------------------------------------------
(* The client. *)

\* reload_request_from_cli: without a flag the configuration is meant.
FromCli(config, modules, extensions) ==
    [config     |-> config \/ (modules = <<>> /\ extensions = <<>>),
     modules    |-> modules,
     extensions |-> extensions]

CommandLines(request) ==
    (IF request.config THEN <<Line("config", "")>> ELSE <<>>)
        \o [k \in DOMAIN request.modules |-> Line("module", request.modules[k])]
        \o [k \in DOMAIN request.extensions |-> Line("extension", request.extensions[k])]

-----------------------------------------------------------------------------
(* The control thread. *)

\* parse_control_line, of a line that is not blank. The kind of a module may be
\* anything.
ParseLine(line) ==
    CASE line.is = "status"    -> "status"
      [] line.is = "config"    -> [NoRequest EXCEPT !.config = TRUE]
      [] line.is = "module"    -> IF line.name = "" THEN Bad
                                  ELSE [NoRequest EXCEPT !.modules = <<line.name>>]
      [] line.is = "extension" -> IF line.name \notin SafeNames THEN Bad
                                  ELSE [NoRequest EXCEPT !.extensions = <<line.name>>]
      [] OTHER                 -> Bad

\* read_control_lines: blank lines are skipped, and one bad line spoils all.
ReadLines(lines) ==
    LET said == SelectSeq(lines, LAMBDA l : l.is # "blank")
    IN  IF \E k \in DOMAIN said : ParseLine(said[k]) = Bad
        THEN Bad ELSE said

\* serve_client: the answer and the batch.
ServeClient(lines) ==
    LET said   == ReadLines(lines)
        status == \E k \in DOMAIN said : said[k].is = "status"
        reload == \E k \in DOMAIN said : said[k].is # "status"
    IN  IF said = Bad THEN [answer |-> "err", batch |-> NoRequest]
        ELSE IF status /\ ~reload THEN [answer |-> "status", batch |-> NoRequest]
        ELSE IF status \/ ~reload THEN [answer |-> "err", batch |-> NoRequest]
        ELSE [answer |-> "ok",
              batch  |-> FoldLeft(LAMBDA b, l : Merge(b, ParseLine(l)), NoRequest, said)]
=============================================================================

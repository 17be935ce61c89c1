------------------------------- MODULE Presets -------------------------------
(***************************************************************************)
(* The documents kept as presets/<name>.toml and the changes the program   *)
(* makes to them (src/config/write.rs, src/config/params.rs): a separator, *)
(* a list of modules, and a table of parameters per module. Each change is *)
(* an operator from a document to a document, or to Refused.               *)
(*                                                                         *)
(* An entry of the list is a pair of a kind and an instance ("" for a      *)
(* plain kind); its parameters are in the section named like the entry. A  *)
(* section is a sequence of <<key, value>> in the order of the file.       *)
(***************************************************************************)
EXTENDS SequencesExt, FiniteSetsExt

CONSTANTS
    Refused,        \* the change is an error
    NotArray,       \* `modules` is missing, or not an array of strings
    NotTable,       \* a section that is a top-level value
    NonString,      \* a value that is not a string
    KeyAbsent       \* the expectation that a key is not there

\* split_module_entry: what follows the # belongs to the section's name only.
KindOf(entry)    == entry[1]
SectionOf(entry) == entry

Skeleton == [separator |-> " | ", modules |-> <<>>, sections |-> <<>>]

-----------------------------------------------------------------------------
(* The separator and the list of modules. *)

WriteSeparator(doc, value) == [doc EXCEPT !.separator = value]

Occurrences(s, e) == Cardinality({k \in DOMAIN s : s[k] = e})

SameEntries(s, t) ==
    /\ Len(s) = Len(t)
    /\ \A e \in Range(s) : Occurrences(s, e) = Occurrences(t, e)

WriteModuleOrder(doc, order) ==
    IF doc.modules = NotArray THEN Refused
    ELSE IF SameEntries(doc.modules, order) THEN [doc EXCEPT !.modules = order]
    ELSE Refused

WriteModuleAdd(doc, expected, entry) ==
    IF doc.modules = NotArray THEN Refused
    ELSE IF doc.modules = expected /\ ~Contains(expected, entry)
    THEN [doc EXCEPT !.modules = Append(@, entry)]
    ELSE Refused

\* Mutant of WriteModuleRemove: the list of the file is not compared.
RemoveAnyway(doc, expected, k) ==
    IF doc.modules = NotArray THEN Refused
    ELSE IF k \in DOMAIN doc.modules
    THEN [doc EXCEPT !.modules = RemoveAt(@, k)]
    ELSE Refused

WriteModuleRemove(doc, expected, k) ==
    IF doc.modules = NotArray THEN Refused
    ELSE IF doc.modules = expected /\ k \in DOMAIN expected
    THEN [doc EXCEPT !.modules = RemoveAt(@, k)]
    ELSE Refused

-----------------------------------------------------------------------------
(* Parameters. *)

HasTable(doc, section) ==
    section \in DOMAIN doc.sections /\ doc.sections[section] # NotTable

Keys(table) == {table[k][1] : k \in DOMAIN table}
Place(table, key) == CHOOSE k \in DOMAIN table : table[k][1] = key
Lookup(table, key) == table[Place(table, key)][2]

SetSection(doc, section, table) ==
    [doc EXCEPT !.sections =
        [s \in DOMAIN @ \cup {section} |-> IF s = section THEN table ELSE @[s]]]

\* Does the file still hold what was shown?
AsExpected(table, key, expected) ==
    IF expected = KeyAbsent THEN key \notin Keys(table)
    ELSE key \in Keys(table) /\ Lookup(table, key) = expected

WriteParamSet(doc, section, key, value, expected) ==
    LET present == section \in DOMAIN doc.sections
        table   == IF present THEN doc.sections[section] ELSE <<>>
    IN  IF \/ table = NotTable
           \/ ~present /\ expected # KeyAbsent
        THEN Refused
        ELSE IF ~AsExpected(table, key, expected) THEN Refused
        ELSE SetSection(doc, section,
                IF key \in Keys(table)
                THEN [table EXCEPT ![Place(table, key)][2] = value]
                ELSE Append(table, <<key, value>>))

WriteParamRemove(doc, section, key) ==
    IF ~HasTable(doc, section) THEN Refused
    ELSE LET table == doc.sections[section]
         IN  IF key \notin Keys(table) THEN Refused
             ELSE SetSection(doc, section, RemoveAt(table, Place(table, key)))

\* The renamed key keeps its place.
WriteParamRename(doc, section, old, new) ==
    IF ~HasTable(doc, section) THEN Refused
    ELSE LET table == doc.sections[section]
         IN  IF old \notin Keys(table) \/ new \in Keys(table) THEN Refused
             ELSE SetSection(doc, section, [table EXCEPT ![Place(table, old)][1] = new])
=============================================================================

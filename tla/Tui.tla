--------------------------------- MODULE Tui ---------------------------------
(***************************************************************************)
(* The terminal interface as an editor of the active preset (src/tui/app). *)
(* It keeps a copy of the preset it has loaded and looks at config.toml    *)
(* (ensure_preset_pointer_current) before most keys and every write, but   *)
(* loads a preset again only when config.toml names another one. Meanwhile *)
(* the command line, editors and other sessions change the files: Others.  *)
(*                                                                         *)
(* One key is one step; what happens between the system calls of a write   *)
(* is in ConfigFiles. Typing is not modelled: a text is chosen when Enter  *)
(* is pressed. A selection of 0 is none. Scrolling is in Screen, the log   *)
(* panel in LogView.                                                       *)
(***************************************************************************)
EXTENDS Presets, Filter

CONSTANTS
    Names,          \* names of presets,
    NameOrder,      \* and their order in lists
    Absent, Broken, \* a preset that is not there, or does not parse
    None,           \* nothing is loaded, or no preset is named
    Kinds,          \* kinds of modules that are installed, in order
    Instances,      \* texts for the name of an instance
    Texts,          \* texts for separators and values
    ParamKeys,      \* texts for keys
    SchemaKeys,     \* keys in the schema of every kind
    DefaultText,    \* and their default
    Initial,        \* presets there may be at first
    Documents,      \* what others may make of a preset
    MaxChanges,     \* bound on changes by others
    MaxWrites,      \* bound on writes by the TUI
    MaxExtensions   \* bound on the extensions that are installed

Entry == Range(Kinds) \X Instances
Value == Texts \cup {NonString}

\* What a preset file holds when it is neither missing nor damaged: a document,
\* with the sections it has.
DocumentWith(S) ==
    [separator : Texts, modules : Seq(Entry) \cup {NotArray},
     sections : [S -> Seq(ParamKeys \X Value) \cup {NotTable}]]

IsDocument(d) == \E S \in SUBSET Entry : d \in DocumentWith(S)

ASSUME TuiAssumption ==
    /\ NameOrder \in Seq(Names) /\ Range(NameOrder) = Names
    /\ {Absent, Broken, None} \cap Names = {}
    /\ Kinds \in Seq(Range(Kinds))
    /\ SchemaKeys \in Seq(ParamKeys) /\ DefaultText \in Texts
    /\ \A d \in Initial \cup Documents : IsDocument(d)
    /\ MaxExtensions \in Nat

\* The values that stand for nothing are nothing else.
ASSUME NothingAssumption ==
    /\ \A x \in {Absent, Broken, Refused, None} : ~IsDocument(x)
    /\ None \notin Entry /\ None \notin Seq(Entry) /\ NotArray \notin Seq(Entry)
    /\ NotTable \notin Seq(ParamKeys \X Value)
    /\ KeyAbsent \notin Value
    /\ None \notin [key : ParamKeys, value : Value, set : BOOLEAN]
    /\ None \notin [entries : Seq([key : ParamKeys, value : Value, set : BOOLEAN]),
                   selected : Nat]

VARIABLES
    pointer,    \* the preset config.toml names, or None
    presets,    \* the presets
    extensions, \* how many extensions are installed
    app,        \* the App
    changes, writes

disk == <<pointer, presets, extensions>>
tuiVars == <<disk, app, changes, writes>>

Existing == {n \in Names : presets[n] # Absent}

-----------------------------------------------------------------------------
(* The App: active, modules, separator, cache (config_cache), selected,    *)
(* params, schema, focus, detail, listed and extSelected (extensions) and  *)
(* the mode.                                                               *)

Normal == [is |-> "Normal"]

SelectedEntry(a) ==
    IF a.modules = None THEN None
    ELSE IF a.selected \in DOMAIN a.modules THEN a.modules[a.selected] ELSE None

ConfiguredKinds(a) ==
    IF a.modules = None THEN {} ELSE {KindOf(e) : e \in Range(a.modules)}

\* The rows of the parameters that are set, and of those that are not.
ExplicitRows(table) ==
    [k \in DOMAIN table |-> [key |-> table[k][1], value |-> table[k][2], set |-> TRUE]]

DefaultRows(keys) ==
    [k \in DOMAIN keys |-> [key |-> keys[k], value |-> DefaultText, set |-> FALSE]]

RowsOfTable(table, known) ==
    IF known
    THEN ExplicitRows(table)
            \o DefaultRows(Only(SchemaKeys, Range(SchemaKeys) \ Keys(table)))
    ELSE ExplicitRows(table)

\* module_section_string_entries, and the defaults of the keys not set.
ParamEntries(doc, entry, known) ==
    RowsOfTable(IF HasTable(doc, SectionOf(entry)) THEN doc.sections[SectionOf(entry)]
                ELSE <<>>, known)

RebuildFrom(a, doc, reset) ==
    LET entry    == SelectedEntry(a)
        entries  == ParamEntries(doc, entry, a.schema[KindOf(entry)] = "known")
        previous == IF a.params = None THEN 1 ELSE Max({a.params.selected, 1})
    IN  IF entry = None THEN [a EXCEPT !.params = None]
        ELSE [a EXCEPT !.params =
                [entries  |-> entries,
                 selected |-> IF entries = <<>> THEN 0
                              ELSE IF reset THEN 1 ELSE Min({previous, Len(entries)})]]

Rebuild(a, reset) ==
    IF a.cache = None THEN [a EXCEPT !.params = None]
    ELSE RebuildFrom(a, a.cache, reset)

SelectedParam(a) ==
    IF a.params = None THEN None
    ELSE IF a.params.selected \in DOMAIN a.params.entries
    THEN a.params.entries[a.params.selected] ELSE None

ShowsKey(a, key) ==
    a.params # None /\ \E k \in DOMAIN a.params.entries : a.params.entries[k].key = key

-----------------------------------------------------------------------------
(* reload.rs. The operators below read the files as they are now; those    *)
(* with a d read them after a change of theirs: [pointer, presets,         *)
(* extensions].                                                            *)

Disk == [pointer |-> pointer, presets |-> presets, extensions |-> extensions]

ExistingIn(d)   == {n \in Names : d.presets[n] # Absent}
ListedNames(d)  == Only(NameOrder, ExistingIn(d))
ActiveIn(d)     == IF d.pointer \in ExistingIn(d) THEN d.pointer ELSE None

RefreshExtensions(a, d) ==
    [a EXCEPT !.listed = d.extensions,
              !.extSelected = IF d.extensions = 0 THEN 0
                              ELSE Min({Max({@, 1}), d.extensions})]

\* drop_stale_confirming_remove_mode, drop_stale_param_modes and
\* drop_stale_preset_modes.
DropStale(a, d) ==
    LET m == a.mode
        here == m.section = SelectedEntry(a)
        armed ==
          CASE m.is = "ConfirmingRemove" ->
                    a.modules # None /\ m.index \in DOMAIN a.modules
                        /\ a.modules[m.index] = m.name
            [] m.is = "AddingParamKey" -> here
            [] m.is = "EditingParamValue" ->
                    here /\ (m.expect = KeyAbsent) # ShowsKey(a, m.key)
            [] m.is \in {"ConfirmingRemoveParam", "RenamingParamKey"} ->
                    here /\ ShowsKey(a, m.key)
            [] m.is = "ConfirmingRemovePreset" -> m.name \in ExistingIn(d)
            [] m.is = "NamingPreset" -> ActiveIn(d) # None
            [] m.is = "ChoosingPreset" -> d.pointer # None /\ ExistingIn(d) # {}
            [] OTHER -> TRUE
    IN  IF ~armed THEN [a EXCEPT !.mode = Normal]
        ELSE IF /\ m.is = "ChoosingPreset"
                /\ m.names # ListedNames(d) \/ a.active # d.pointer
        THEN [a EXCEPT !.mode = [is |-> "ChoosingPreset", names |-> ListedNames(d),
                                 selected |-> 1]]
        ELSE a

Cleared(a) ==
    [a EXCEPT !.separator = None, !.modules = None, !.cache = None, !.selected = 0,
              !.params = None, !.focus = "Modules",
              !.schema = [k \in Range(Kinds) |-> "unknown"]]

\* Mutant of Loaded: the selection is not fitted to the new list.
LoadedUnfitted(a, doc) ==
    [RebuildFrom([a EXCEPT !.modules = doc.modules,
                           !.selected = IF doc.modules = <<>> THEN 0 ELSE Max({@, 1})],
                 doc, TRUE)
        EXCEPT !.separator = doc.separator, !.cache = doc]

\* refresh_config with the names of the modules at hand.
Loaded(a, doc) ==
    LET kept == [a EXCEPT !.modules = doc.modules,
                          !.selected = IF doc.modules = <<>> THEN 0
                                       ELSE Min({Max({@, 1}), Len(doc.modules)})]
        kinds  == ConfiguredKinds(kept)
        pruned == [kept EXCEPT !.schema =
                    [k \in DOMAIN @ |-> IF k \in kinds THEN @[k] ELSE "unknown"]]
        built  == RebuildFrom(pruned, doc, SelectedEntry(a) # SelectedEntry(pruned))
    IN  [built EXCEPT !.separator = doc.separator, !.cache = doc,
                      !.focus = IF built.selected = 0 THEN "Modules" ELSE @]

Refresh(a, d) ==
    LET found == [a EXCEPT !.active = ActiveIn(d)]
        doc   == d.presets[found.active]
        read  == IF found.active = None THEN Cleared(found)
                 ELSE IF doc = Broken THEN Cleared(found)
                 ELSE IF doc.modules = NotArray
                 THEN [Cleared(found) EXCEPT !.separator = doc.separator, !.cache = doc]
                 ELSE Loaded(found, doc)
    IN  DropStale(RefreshExtensions(read, d), d)

Ensure(a) == IF a.active = ActiveIn(Disk) THEN a ELSE Refresh(a, Disk)

-----------------------------------------------------------------------------
TuiInit ==
    LET blank == [active |-> None, modules |-> None, separator |-> None,
                  cache |-> None, selected |-> 0, params |-> None,
                  schema |-> [k \in Range(Kinds) |-> "unknown"],
                  focus |-> "Modules", detail |-> "Module",
                  listed |-> 0, extSelected |-> 0, mode |-> Normal]
    IN  /\ pointer \in Names \cup {None}
        /\ presets \in [Names -> Initial \cup {Absent}]
        /\ pointer # None => presets[pointer] # Absent
        /\ extensions = MaxExtensions
        /\ app = Refresh(blank, Disk)
        /\ changes = 0 /\ writes = 0

\* Everybody else: files are changed, presets made, removed and chosen.
Others ==
    /\ changes < MaxChanges
    /\ changes' = changes + 1
    /\ \/ /\ \E n \in Names : \E c \in Documents \cup {Absent, Broken} :
                c # presets[n] /\ presets' = [presets EXCEPT ![n] = c]
          /\ UNCHANGED <<pointer, extensions>>
       \/ /\ pointer' \in Existing \ {pointer}
          /\ UNCHANGED <<presets, extensions>>
       \/ /\ extensions' \in {extensions - 1, extensions + 1} \cap (0 .. MaxExtensions)
          /\ UNCHANGED <<pointer, presets>>
    /\ UNCHANGED <<app, writes>>

-----------------------------------------------------------------------------
(* Keys that write nothing. *)

Becomes(a) == app' = a /\ UNCHANGED <<disk, changes, writes>>
Enters(a, mode) == Becomes([a EXCEPT !.mode = mode])
InMode(is) == app.mode.is = is

\* handle_key_normal, with the panel that has the focus.
Fresh == Ensure(app)
Focused(panel) == InMode("Normal") /\ Fresh.focus = panel

Settle == InMode("Normal") /\ app # Fresh /\ Becomes(Fresh)

Help ==
    \/ InMode("Normal") /\ Enters(Fresh, [is |-> "Help"])
    \/ InMode("Help") /\ Enters(app, Normal)

\* Mutant of SelectModule: the parameters of the other module stay.
SelectModuleOnly ==
    /\ Focused("Modules") /\ Fresh.selected # 0
    /\ \E k \in DOMAIN Fresh.modules :
        /\ k \in {Fresh.selected - 1, Fresh.selected + 1}
        /\ Becomes([Fresh EXCEPT !.selected = k])

SelectModule ==
    /\ Focused("Modules") /\ Fresh.selected # 0
    /\ \E k \in DOMAIN Fresh.modules :
        /\ k \in {Fresh.selected - 1, Fresh.selected + 1}
        /\ Becomes(Rebuild([Fresh EXCEPT !.selected = k], TRUE))

SelectParam ==
    /\ Focused("Params") /\ Fresh.detail = "Module"
    /\ SelectedParam(Fresh) # None
    /\ \E k \in DOMAIN Fresh.params.entries :
        /\ k \in {Fresh.params.selected - 1, Fresh.params.selected + 1}
        /\ Becomes([Fresh EXCEPT !.params.selected = k])

SelectExtension ==
    /\ Focused("Extensions") /\ Fresh.extSelected # 0
    /\ \E k \in 1 .. Fresh.listed :
        /\ k \in {Fresh.extSelected - 1, Fresh.extSelected + 1}
        /\ Becomes([Fresh EXCEPT !.extSelected = k])

FocusOn(panel) == [Fresh EXCEPT !.focus = panel]

FocusParams(detail) == [FocusOn("Params") EXCEPT !.detail = detail]

\* focus_extensions, focus_params, focus_logs, Esc and Tab.
ChangeFocus ==
    \/ Focused("Modules") /\ Becomes(RefreshExtensions(FocusOn("Extensions"), Disk))
    \/ Focused("Modules") /\ Fresh.selected # 0 /\ Becomes(FocusParams("Module"))
    \/ Focused("Extensions") /\ Fresh.extSelected # 0 /\ Becomes(FocusParams("Extension"))
    \/ Focused("Extensions") /\ Becomes(FocusOn("Modules"))
    \/ /\ Focused("Extensions")
       /\ Becomes(IF Fresh.selected # 0 THEN FocusParams("Module") ELSE FocusOn("Logs"))
    \/ /\ Focused("Params")
       /\ Becomes(FocusOn(IF Fresh.detail = "Module" THEN "Modules" ELSE "Extensions"))
    \/ Focused("Params") /\ Becomes(FocusOn("Logs"))
    \/ Focused("Logs") /\ \E panel \in {"Params", "Modules"} : Becomes(FocusOn(panel))

\* The keys that open an overlay on the list of modules.
BeginOnModules ==
    /\ Focused("Modules")
    /\ \/ Fresh.active # None /\ Enters(Fresh, [is |-> "EditingSeparator"])
       \/ Enters(Fresh, [is |-> "AddingModule", selected |-> 1])
       \/ /\ SelectedEntry(Fresh) # None
          /\ Enters(Fresh, [is |-> "ConfirmingRemove", index |-> Fresh.selected,
                            name |-> SelectedEntry(Fresh)])

\* And on the parameters. A default can be edited, not removed or renamed.
BeginOnParams ==
    /\ Focused("Params") /\ Fresh.detail = "Module"
    /\ Fresh.active # None /\ SelectedEntry(Fresh) # None
    /\ LET section == SelectedEntry(Fresh)
           param   == SelectedParam(Fresh)
       IN  \/ Enters(Fresh, [is |-> "AddingParamKey", section |-> section])
           \/ /\ param # None
              /\ Enters(Fresh, [is |-> "EditingParamValue", section |-> section,
                                key |-> param.key,
                                expect |-> IF param.set THEN param.value ELSE KeyAbsent])
           \/ /\ param # None /\ param.set
              /\ \E is \in {"ConfirmingRemoveParam", "RenamingParamKey"} :
                    Enters(Fresh, [is |-> is, section |-> section, key |-> param.key])

\* handle_key_adding_module.
ChooseKind ==
    /\ InMode("AddingModule")
    /\ \/ \E k \in DOMAIN Kinds : Enters(app, [app.mode EXCEPT !.selected = k])
       \/ /\ app.mode.selected \in DOMAIN Kinds
          /\ Enters(app, [is |-> "NamingModuleInstance", kind |-> Kinds[app.mode.selected]])

\* commit_adding_param_key.
NameParam ==
    /\ InMode("AddingParamKey")
    /\ \E key \in ParamKeys :
        /\ ~ShowsKey(app, key)
        /\ Enters(app, [is |-> "EditingParamValue", section |-> app.mode.section,
                        key |-> key, expect |-> KeyAbsent])

\* Esc, and any key but d where a removal has to be confirmed. Editing a value
\* that is not set leads back to its key.
Cancel ==
    \/ /\ app.mode.is \in {"EditingSeparator", "AddingModule", "NamingModuleInstance",
                           "ConfirmingRemove", "AddingParamKey", "ConfirmingRemoveParam",
                           "RenamingParamKey", "ChoosingInstallKind", "EnteringInstall"}
       /\ Enters(app, Normal)
    \/ /\ InMode("EditingParamValue")
       /\ Enters(app, IF app.mode.expect # KeyAbsent THEN Normal
                      ELSE [is |-> "AddingParamKey", section |-> app.mode.section])

\* poll_schema, in the main loop.
PollSchema ==
    \E kind \in ConfiguredKinds(app) \cap Range(Kinds), result \in {"known", "failed"} :
        /\ app.schema[kind] = "unknown"
        /\ LET a == [app EXCEPT !.schema[kind] = result]
           IN  Becomes(IF result = "known" /\ SelectedEntry(a) # None
                       THEN IF KindOf(SelectedEntry(a)) = kind
                            THEN Rebuild(a, FALSE) ELSE a
                       ELSE a)

-----------------------------------------------------------------------------
(* Keys that write the active preset. An error leaves what Ensure found.   *)

\* Confirmed, or entered: the overlay is closed first.
Confirmed == Ensure([app EXCEPT !.mode = Normal])

\* Change makes the new document of the one in the file, Show the App.
Write(a, Change(_), Show(_)) ==
    LET doc == IF a.active = None THEN Broken ELSE presets[a.active]
        new == IF doc \in {Absent, Broken} THEN Refused ELSE Change(doc)
    IN  \/ Becomes(a)
        \/ /\ new # Refused /\ writes < MaxWrites
           /\ presets' = [presets EXCEPT ![a.active] = new]
           /\ app' = Show(new)
           /\ writes' = writes + 1
           /\ UNCHANGED <<pointer, extensions, changes>>

MoveModule ==
    /\ Focused("Modules") /\ SelectedEntry(Fresh) # None
    /\ \E k \in DOMAIN Fresh.modules :
        LET i     == Fresh.selected
            order == [Fresh.modules EXCEPT ![i] = Fresh.modules[k], ![k] = Fresh.modules[i]]
        IN  /\ k \in {i - 1, i + 1}
            /\ Write(Fresh, LAMBDA doc : WriteModuleOrder(doc, order),
                    LAMBDA doc : Rebuild([Fresh EXCEPT !.modules = order, !.selected = k], TRUE))

CommitAddModule ==
    /\ InMode("NamingModuleInstance")
    /\ \E instance \in Instances :
        LET a     == Confirmed
            entry == <<app.mode.kind, instance>>
        IN  Write(a, LAMBDA doc : WriteModuleAdd(doc, a.modules, entry),
                LAMBDA doc : Rebuild([a EXCEPT !.modules = Append(@, entry),
                                               !.selected = Len(a.modules) + 1], TRUE))

\* The list that was shown is compared with the preset that is active now.
CommitRemoveModule ==
    /\ InMode("ConfirmingRemove")
    /\ LET a    == Confirmed
           k    == app.mode.index
           rest == RemoveAt(app.modules, k)
       IN  Write(a, LAMBDA doc : WriteModuleRemove(doc, app.modules, k),
               LAMBDA doc : Rebuild([a EXCEPT !.modules = rest,
                                              !.selected = Min({k, Len(rest)}),
                                              !.focus = IF rest = <<>> THEN "Modules" ELSE @],
                                    TRUE))

CommitSeparator ==
    /\ InMode("EditingSeparator")
    /\ \E text \in Texts :
        Write(Confirmed, LAMBDA doc : WriteSeparator(doc, text),
              LAMBDA doc : [Confirmed EXCEPT !.separator = text])

\* reload_params_after_write and select_param_by_key.
Reloaded(a, doc) == [RebuildFrom(a, doc, FALSE) EXCEPT !.cache = doc]

SelectKey(a, key) ==
    IF ShowsKey(a, key)
    THEN [a EXCEPT !.params.selected =
            CHOOSE k \in DOMAIN a.params.entries : a.params.entries[k].key = key]
    ELSE a

CommitParamValue ==
    /\ InMode("EditingParamValue")
    /\ \E text \in Texts :
        LET a    == Confirmed
            m    == app.mode
            keep == IF m.expect = KeyAbsent /\ SelectedParam(a) # None
                    THEN SelectedParam(a).key ELSE m.key
        IN  Write(a, LAMBDA doc : WriteParamSet(doc, m.section, m.key, text, m.expect),
                LAMBDA doc : SelectKey(Reloaded(a, doc), keep))

CommitRemoveParam ==
    /\ InMode("ConfirmingRemoveParam")
    /\ Write(Confirmed, LAMBDA doc : WriteParamRemove(doc, app.mode.section, app.mode.key),
             LAMBDA doc : Reloaded(Confirmed, doc))

CommitRenameParam ==
    /\ InMode("RenamingParamKey")
    /\ \E key \in ParamKeys :
        /\ ~ShowsKey(app, key)
        /\ Write(Confirmed,
                LAMBDA doc : WriteParamRename(doc, app.mode.section, app.mode.key, key),
                LAMBDA doc : SelectKey(Reloaded(Confirmed, doc), key))

-----------------------------------------------------------------------------
(* Presets and packages. *)

ToList(a, d) ==
    [a EXCEPT !.mode = IF ListedNames(d) = <<>> THEN Normal
                       ELSE [is |-> "ChoosingPreset", names |-> ListedNames(d),
                             selected |-> 1]]

ManagePresets ==
    InMode("Normal") /\ ListedNames(Disk) # <<>> /\ Becomes(ToList(Fresh, Disk))

\* handle_key_choosing_preset. The list is read again only when the active
\* preset has changed.
InList == InMode("ChoosingPreset") /\ Fresh.mode.is = "ChoosingPreset"

ChoosePreset ==
    \/ InMode("ChoosingPreset") /\ app # Fresh /\ Becomes(Fresh)
    \/ InList /\ \E k \in DOMAIN Fresh.mode.names : Becomes([Fresh EXCEPT !.mode.selected = k])
    \/ InList /\ Enters(Fresh, Normal)
    \/ InList /\ Enters(Fresh, [is |-> "NamingPreset"])
    \/ /\ InList
       /\ LET name == Fresh.mode.names[Fresh.mode.selected]
          IN  name # pointer /\ Enters(Fresh, [is |-> "ConfirmingRemovePreset", name |-> name])

\* The files after an operation on presets, and the App that shows them.
Manages(d, a) ==
    /\ writes < MaxWrites /\ writes' = writes + 1
    /\ pointer' = d.pointer /\ presets' = d.presets
    /\ app' = a
    /\ UNCHANGED <<extensions, changes>>

\* switch_preset. When only the daemon could not be told, the operation has
\* failed and the App is not refreshed, though config.toml is written.
SwitchPreset ==
    /\ InList
    /\ LET name == Fresh.mode.names[Fresh.mode.selected]
           d    == [Disk EXCEPT !.pointer = name]
       IN  \/ Becomes(ToList(Fresh, Disk))
           \/ name \in Existing /\ \/ Manages(d, ToList(Fresh, d))
                                   \/ Manages(d, ToList(Refresh(Fresh, d), d))

SavePreset ==
    /\ InMode("NamingPreset")
    /\ \/ Becomes(ToList(app, Disk))
       \/ \E name \in Names \ Existing :
            LET d == [Disk EXCEPT !.presets[name] = presets[pointer]]
            IN  pointer \in Existing /\ Manages(d, ToList(app, d))

RemovePreset ==
    /\ InMode("ConfirmingRemovePreset")
    /\ \/ Becomes(ToList(app, Disk))
       \/ LET name == app.mode.name
              d    == [Disk EXCEPT !.presets[name] = Absent]
          IN  /\ pointer \notin {None, name}
              /\ Cardinality(Existing) > 1 /\ name \in Existing
              /\ Manages(d, ToList(app, d))

\* run_install: the schema of a new binary has to be read again.
Install ==
    \/ /\ Focused("Modules") \/ Focused("Extensions")
       /\ Enters(Fresh, [is |-> "ChoosingInstallKind"])
    \/ /\ InMode("ChoosingInstallKind")
       /\ \E what \in {"module", "extension"} :
            Enters(app, [is |-> "EnteringInstall", what |-> what])
    \/ /\ InMode("EnteringInstall") /\ app.mode.what = "module"
       /\ \E kind \in ConfiguredKinds(app) \cap Range(Kinds) :
            Becomes([app EXCEPT !.mode = Normal, !.schema[kind] = "unknown"])
    \/ /\ InMode("EnteringInstall") /\ app.mode.what = "extension"
       /\ extensions' \in {extensions, extensions + 1} \cap (1 .. MaxExtensions)
       /\ app' = RefreshExtensions([app EXCEPT !.mode = Normal], [extensions |-> extensions'])
       /\ UNCHANGED <<pointer, presets, changes, writes>>

Key ==
    \/ Settle \/ Help \/ SelectModule \/ SelectParam \/ SelectExtension \/ ChangeFocus
    \/ BeginOnModules \/ BeginOnParams \/ ChooseKind \/ NameParam \/ Cancel
    \/ MoveModule \/ CommitAddModule \/ CommitRemoveModule \/ CommitSeparator
    \/ CommitParamValue \/ CommitRemoveParam \/ CommitRenameParam
    \/ ManagePresets \/ ChoosePreset \/ SwitchPreset \/ SavePreset \/ RemovePreset
    \/ Install

TuiNext == Key \/ PollSchema \/ Others

TuiSpec == TuiInit /\ [][TuiNext]_tuiVars

-----------------------------------------------------------------------------
(* Properties. *)

\* Types; a selection is none, or a place in the list it is about; what is
\* shown of a preset is gone when no preset is active.
TuiTypeOK ==
    /\ pointer \in Names \cup {None} /\ extensions \in 0 .. MaxExtensions
    /\ app.active \in Names \cup {None}
    /\ app.focus \in {"Modules", "Extensions", "Params", "Logs"}
    /\ app.detail \in {"Module", "Extension"}
    /\ app.schema \in [Range(Kinds) -> {"unknown", "known", "failed"}]
    /\ app.selected = 0 <=> app.modules \in {None, <<>>}
    /\ app.selected # 0 => app.selected \in DOMAIN app.modules
    /\ app.params # None => app.params.selected \in
            IF app.params.entries = <<>> THEN {0} ELSE DOMAIN app.params.entries
    /\ app.extSelected \in IF app.listed = 0 THEN {0} ELSE 1 .. app.listed
    /\ app.active = None => {app.modules, app.cache, app.params, app.separator} = {None}
    /\ InMode("ConfirmingRemove") => SelectedEntry(app) = app.mode.name

\* The parameters shown are those of the selected module, in the preset as it
\* was loaded last; an overlay on a parameter is about that module.
ParamsAreLoaded ==
    /\ app.params = None <=> SelectedEntry(app) = None
    /\ app.params # None =>
        LET loaded == ParamEntries(app.cache, SelectedEntry(app), FALSE)
        IN  /\ SubSeq(app.params.entries, 1, Len(loaded)) = loaded
            /\ \A k \in DOMAIN app.params.entries :
                    app.params.entries[k].set <=> k <= Len(loaded)
    /\ app.mode.is \in {"AddingParamKey", "EditingParamValue", "ConfirmingRemoveParam",
                        "RenamingParamKey"} => app.mode.section = SelectedEntry(app)

\* The TUI changes the preset config.toml names and no other, but for copies
\* to a new name and presets that were confirmed to be removed; the active
\* preset it never removes.
EditsActive ==
    \A n \in Names : presets'[n] # presets[n] =>
        \/ n = pointer /\ presets[n] # Absent /\ presets'[n] # Absent
        \/ n # pointer /\ InMode("NamingPreset") /\ presets[n] = Absent
        \/ n # pointer /\ InMode("ConfirmingRemovePreset") /\ n = app.mode.name

ModuleModes == {"Normal", "NamingModuleInstance", "ConfirmingRemove"}
ParamWrites == {"EditingParamValue", "ConfirmingRemoveParam", "RenamingParamKey"}

\* The list of modules on the screen is the one in the file when an entry of it
\* is removed, the entry that was confirmed; otherwise an instance of the chosen
\* kind is added, or the same entries come in another order.
ModulesAsShown(old, new, m) ==
    /\ m.is = "ConfirmingRemove" =>
        /\ old = app.modules /\ old[m.index] = m.name
        /\ new = RemoveAt(old, m.index)
    /\ m.is = "NamingModuleInstance" =>
        \E instance \in Instances : LET entry == <<m.kind, instance>>
                                   IN  entry \notin Range(old) /\ new = Append(old, entry)
    /\ m.is = "Normal" => SameEntries(old, new)

RowsIn(doc, section) ==
    IF HasTable(doc, section) THEN doc.sections[section] ELSE <<>>

\* One row of a section changes. A value that is replaced is the value that was
\* on the screen, a key that is added was not there; a row that is removed or
\* renamed has the key that was on the screen, whatever its value is now.
RowsAsShown(old, new, m) ==
    /\ m.is = "EditingParamValue" /\ m.expect # KeyAbsent =>
        \E j \in DOMAIN old, text \in Texts :
            old[j] = <<m.key, m.expect>> /\ new = [old EXCEPT ![j] = <<m.key, text>>]
    /\ m.is = "EditingParamValue" /\ m.expect = KeyAbsent =>
        m.key \notin Keys(old) /\ \E text \in Texts : new = Append(old, <<m.key, text>>)
    /\ m.is = "ConfirmingRemoveParam" =>
        \E j \in DOMAIN old : old[j][1] = m.key /\ new = RemoveAt(old, j)
    /\ m.is = "RenamingParamKey" =>
        \E j \in DOMAIN old, key \in ParamKeys \ Keys(old) :
            old[j][1] = m.key /\ new = [old EXCEPT ![j] = <<key, old[j][2]>>]

\* A key changes in the preset only what the overlay is about, and the TUI then
\* shows of it what the file holds.
EditsAsShown(old, new, m) ==
    /\ app'.active = pointer
    /\ IF m.is \in ModuleModes
       THEN ModulesAsShown(old.modules, new.modules, m) /\ app'.modules = new.modules
       ELSE new.modules = old.modules
    /\ IF m.is \in ParamWrites
       THEN /\ m.section = SelectedEntry(app)
            /\ RowsAsShown(RowsIn(old, m.section), RowsIn(new, m.section), m)
            /\ DOMAIN new.sections = DOMAIN old.sections \cup {m.section}
            /\ \A s \in DOMAIN old.sections \ {m.section} : new.sections[s] = old.sections[s]
            /\ app'.cache = new
       ELSE new.sections = old.sections
    /\ IF m.is = "EditingSeparator" THEN app'.separator = new.separator
       ELSE new.separator = old.separator

\* While others switch, edit and remove presets at any moment, a key that writes
\* changes the preset that is active then, and in it only the module, parameter
\* or separator the overlay is about: a module is removed from the list on the
\* screen and from no other, a value is replaced where it is the one on the
\* screen. The promise is about the list and the row, not about the preset: when
\* another one has become active since, and holds the same list, value or key, it
\* is done there.
DoesWhatWasShown ==
    [][changes' = changes =>
        /\ EditsActive
        /\ pointer \in Names /\ presets[pointer] # presets'[pointer] =>
               EditsAsShown(presets[pointer], presets'[pointer], app.mode)]_tuiVars
=============================================================================

----------------------------- MODULE PresetStore -----------------------------
(***************************************************************************)
(* What the operations on presets promise: each takes effect at once. The  *)
(* promise is void once operations have got in each other's way (spoiled): *)
(* the program takes no lock on the files.                                 *)
(***************************************************************************)
EXTENDS Presets

CONSTANTS
    Names,      \* names a preset can have
    Default,    \* the preset `smstatus init` makes
    Entries,    \* entries a module list can have
    Absent      \* there is no such file

VARIABLES presets, active, spoiled

svars == <<presets, active, spoiled>>

Existing == {n \in Names : presets[n] # Absent}

\* What an edit of a module list makes of a document.
Edited(doc) ==
    ({WriteModuleAdd(doc, doc.modules, e) : e \in Entries}
        \cup {WriteModuleRemove(doc, doc.modules, k) : k \in DOMAIN doc.modules})
    \ {Refused}

SInit ==
    /\ presets \in {[n \in Names |-> Absent],
                    [n \in Names |-> IF n = Default THEN Skeleton ELSE Absent]}
    /\ active = IF presets[Default] = Absent THEN Absent ELSE Default
    /\ spoiled = FALSE

EditPreset(n) ==
    /\ active = n /\ n \in Existing
    /\ \E doc \in Edited(presets[n]) : presets' = [presets EXCEPT ![n] = doc]
    /\ UNCHANGED active

UsePreset(n) ==
    /\ n \in Existing
    /\ active' = n
    /\ UNCHANGED presets

SavePreset(n) ==
    /\ n \notin Existing /\ active \in Existing
    /\ presets' = [presets EXCEPT ![n] = presets[active]]
    /\ UNCHANGED active

RemovePreset(n) ==
    /\ n \in Existing /\ active \notin {n, Absent}
    /\ Cardinality(Existing) > 1
    /\ presets' = [presets EXCEPT ![n] = Absent]
    /\ UNCHANGED active

\* `smstatus init`, with or without --force, may be cut between its two writes.
InitPreset ==
    /\ presets' = [presets EXCEPT ![Default] = Skeleton]
    /\ UNCHANGED active

InitPointer ==
    /\ active = Absent /\ Default \in Existing
    /\ active' = Default
    /\ UNCHANGED presets

SNext ==
    \/ /\ ~spoiled /\ UNCHANGED spoiled
       /\ \/ \E n \in Names : EditPreset(n) \/ UsePreset(n) \/ SavePreset(n) \/ RemovePreset(n)
          \/ InitPreset \/ InitPointer
    \/ spoiled'

SSpec == SInit /\ [][SNext]_svars
=============================================================================

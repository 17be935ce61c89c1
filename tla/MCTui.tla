-------------------------------- MODULE MCTui --------------------------------
(* A small instance of Tui for TLC: two presets, a kind with two instances;  *)
(* and the checks of Screen.                                                 *)
EXTENDS Tui, MCScreen, TLC

CONSTANTS work, home, ram, plain, fancy, width, unit

MCOrder    == <<home, work>>
MCKinds    == <<ram>>
MCSchema   == <<unit>>
Plain      == <<ram, "">>
Second     == <<ram, "2">>

Doc(modules, sections) == [separator |-> plain, modules |-> modules, sections |-> sections]

MCInitial == {Doc(<<Plain, Second>>, Plain :> <<<<width, plain>>, <<unit, NonString>>>>)}

MCDocuments ==
    {Doc(<<Second, Plain>>, Plain :> <<<<width, fancy>>>>),
     Doc(<<Plain>>, Plain :> NotTable),
     Doc(NotArray, Plain :> <<>>)}
=============================================================================

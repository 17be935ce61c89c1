------------------------ MODULE MCExtensionRegistry ------------------------
(* Bounds for model checking ExtensionRegistry: the configurations choose   *)
(* how many processes, calls, package versions and unread events there are. *)
(* With it the checks of HostCalls are evaluated.                            *)
EXTENDS ExtensionRegistry, MCHostCalls
=============================================================================

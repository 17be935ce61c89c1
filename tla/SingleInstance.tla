--------------------------- MODULE SingleInstance ---------------------------
(***************************************************************************)
(* What the daemon lock promises: at most one daemon drives the bar at a   *)
(* time, and a daemon that has let go of the bar never takes it again.     *)
(***************************************************************************)
CONSTANTS Daemons, Nobody

VARIABLES
    owner,     \* the daemon driving the bar
    finished   \* daemons that no longer will

Init == owner = Nobody /\ finished = {}

Acquire(d) ==
    /\ owner = Nobody /\ d \notin finished
    /\ owner' = d
    /\ UNCHANGED finished

Release ==
    /\ owner # Nobody
    /\ owner' = Nobody
    /\ finished' = finished \cup {owner}

\* A daemon that never got the bar.
GiveUp(d) ==
    /\ owner # d /\ d \notin finished
    /\ finished' = finished \cup {d}
    /\ UNCHANGED owner

Next == Release \/ \E d \in Daemons : Acquire(d) \/ GiveUp(d)

Spec == Init /\ [][Next]_<<owner, finished>>

=============================================================================

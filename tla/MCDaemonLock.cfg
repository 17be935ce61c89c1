CONSTANTS
    d1 = d1
    d2 = d2
    d3 = d3
    c1 = c1
    c2 = c2
    p1 = p1
    p2 = p2
    Daemons = {d1, d2, d3}
    Probes = {c1, c2}
    Pids = {p1, p2}
    Nobody = Nobody
    NoPid = NoPid

SPECIFICATION Spec

SYMMETRY Symmetry

INVARIANTS
    TypeOK
    OneDaemon
    ProbeIsRight

PROPERTIES
    ImplementsSingleInstance

CHECK_DEADLOCK FALSE

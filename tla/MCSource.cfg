SPECIFICATION Spec
CONSTANTS
    p = p
    pm = pm
    m = m
    mm = mm
    foe = foe
    arrow = arrow
    cp = cp
    cm = cm
    ca = ca
    cf = cf
    t1 = t1
    t2 = t2
    Null = Null
    Threads = {t1, t2}
    Objects = {p, pm, m, mm, foe, arrow, cp, cm, ca, cf}
    Contexts = {cp, cm, ca, cf}
    SourceOf <- Sources
    Words <- Memory
    MarkerOf <- Markers
    Player = p
    PlayerMarker = pm
    Mount = m
    MountMarker = mm
    Count = 2
    Depth = 1
INVARIANTS
    TypeOK
    OwnHitsCount
SYMMETRY Symmetric

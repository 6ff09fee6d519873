SPECIFICATION Spec
CONSTANTS
    p = p
    m = m
    d = d
    t1 = t1
    t2 = t2
    Null = Null
    Resolver = Resolver
    Obj = {p, m}
    GameThreads = {t1, t2}
    Hooks = {"pointer", "stats", "stat-write", "stamina-ab00"}
    PointerSources = {p}
    ChainTargets = {m}
    PlayerRange = {p, m}
    HasSpirit = {p}
    Profiles <- Leaving
    Configs = {{"general"}}
    Blocks <- WordPairs
INVARIANTS
    TypeOK
    PlayerOneOwner
    MountNeverPlayer
PROPERTIES
    PlayerSticky
SYMMETRY Symmetric

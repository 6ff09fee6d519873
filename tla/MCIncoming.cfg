SPECIFICATION Spec
CONSTANTS
    p = p
    m = m
    d = d
    t1 = t1
    t2 = t2
    Null = Null
    Resolver = Resolver
    Obj = {p, m}
    GameThreads = {t1}
    Hooks = {"pointer", "stat-write"}
    PointerSources = {p}
    ChainTargets = {m}
    PlayerRange = {p}
    HasSpirit = {}
    Profiles <- Steady
    Configs = {{"general", "mount", "lock_health", "lock_stamina"}}
    Blocks <- Whole
INVARIANTS
    TargetOwnerResolved

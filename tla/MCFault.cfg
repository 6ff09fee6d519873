SPECIFICATION FairSpec
CONSTANTS
    p = p
    m = m
    d = d
    t1 = t1
    t2 = t2
    Null = Null
    Resolver = Resolver
    Obj = {p, m}
    GameThreads = {t1}
    Hooks = {"pointer", "stats"}
    PointerSources = {p}
    ChainTargets = {m}
    PlayerRange = {}
    HasSpirit = {}
    Profiles <- Leaving
    Configs = {{"general", "mount", "lock_health", "lock_stamina"}}
    Blocks <- Whole
PROPERTIES
    CallsReturn

SPECIFICATION FairSpec
CONSTANTS
    p = p
    m = m
    d = d
    t1 = t1
    t2 = t2
    Null = Null
    Resolver = Resolver
    Obj = {p, m, d}
    GameThreads = {t1}
    Hooks = {"pointer", "damage"}
    PointerSources = {p}
    ChainTargets = {m}
    PlayerRange = {}
    HasSpirit = {}
    Profiles <- Changing
    Configs = {{"general", "mount", "lock_health", "lock_stamina"}}
    Blocks <- Whole
PROPERTIES
    GoneMountForgotten
    MountTracked
    CallsReturn

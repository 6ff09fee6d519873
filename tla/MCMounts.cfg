SPECIFICATION Spec
CONSTANTS
    p = p
    m = m
    d = d
    t1 = t1
    t2 = t2
    Null = Null
    Resolver = Resolver
    Obj = {p, m, d}
    GameThreads = {t1}
    Hooks = {"pointer", "damage", "spirit"}
    PointerSources = {p, m}
    ChainTargets = {m}
    PlayerRange = {}
    HasSpirit = {d}
    Profiles <- Fading
    Configs = {{"general", "mount", "lock_health", "lock_stamina"}, {"general", "mount"}}
    Blocks <- StatPairs
INVARIANTS
    RelockWritesOneMount
    RelockSparesPlayer
PROPERTIES
    ImplementsIdentity

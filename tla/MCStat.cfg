SPECIFICATION FairSpec
CONSTANTS
    horse = horse
    wind = wind
    health = health
    stamina = stamina
    spirit = spirit
    foe = foe
    t1 = t1
    Threads = {t1}
    Resolver = resolver
    Entries = {horse, wind, health, stamina, spirit, foe}
    Owner <- Owners
    Stat <- Kinds
    Maximum <- Sizes
    Deltas <- Changes
    Configs <- Levels
    LargeHealth = 100
    LargeStamina = 100
    MaxInt = 127
INVARIANTS
    TypeOK
    LockKept
    Direction
    HarmReduced
    HitsCount
PROPERTIES
    LockReturns

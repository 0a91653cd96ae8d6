SPECIFICATION Spec
CONSTANTS
    d1 = d1  d2 = d2  q1 = q1  q2 = q2  w1 = w1  w2 = w2
    Families <- TwoFamilies
    Domains = {d1, d2}
    Space <- SixAddresses
    Configs <- OneConfig
    Queries = {q1, q2}
    Flushers = {w1}
    NoDomain = NoDomain
    NoAddr = NoAddr
    NoRange = NoRange
    NoMeta = NoMeta
    MaxCreates = 3
    MaxResets = 1
    MaxBoots = 2
SYMMETRY Sym
INVARIANTS
    Inverse
    InRange
    Rotates
PROPERTY SavedOnClose
CHECK_DEADLOCK FALSE

SPECIFICATION Spec
CONSTANTS
    first = first
    second = second
    home = home
    work = work
    NoValue = NoValue
    Absent = Absent
    Empty = Empty
    Processes = {first, second}
    Contexts = {home, work}
    MaxIdentities = 2
    MaxKeys = 2
    MaxBinds = 2
    MaxKills = 1
    MaxLosses = 1
SYMMETRY Symmetry
INVARIANTS
    VaultOpens
    SavedIsKept
    RestartKeepsContexts

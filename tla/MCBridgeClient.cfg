SPECIFICATION LiveSpec
CONSTANTS
    c1 = c1
    c2 = c2
    x1 = x1
    ch = ch
    NoValue = NoValue
    Calls = {c1, c2}
    KindOf <- MCKindOf
    Closers = {x1}
    MaxSigns = 2
    Challenges = {ch}
INVARIANTS
    TypeOK
    OneReceiver
    NobodyWaitsAlone
    ChallengeSignedOnce
PROPERTY LostConnectionEndsCalls
CHECK_DEADLOCK FALSE

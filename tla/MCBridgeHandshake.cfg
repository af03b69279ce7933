SPECIFICATION Spec
CONSTANTS
    c1 = c1
    c2 = c2
    s1 = s1
    s2 = s2
    alice = alice
    bob = bob
    k1 = k1
    e1 = e1
    e2 = e2
    NoValue = NoValue
    Connects = {c1, c2}
    Sessions = {s1, s2}
    Identities = {alice, bob}
    Keys = {k1}
    KeyOf <- MCKeyOf
    Endpoints = {e1, e2}
    EndpointOf <- MCSameEndpoint
    PreAuthDeadline = 1
    ChallengeLifetime = 3
    ChannelLifetime = 4
    AllowedSkew = 1
    ResponseTimeout = 3
    LastStart = 0
    MaxTime = 1
    ClockSteps = {}
    MaxFeeds = 0
    MaxTraffic = 0
INVARIANTS
    AdmissionAgreement
    OneProofPerConnect
    ConfirmedOnBothSides
PROPERTY ImplementsAdmission
CHECK_DEADLOCK FALSE

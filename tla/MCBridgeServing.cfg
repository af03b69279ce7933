SPECIFICATION LiveSpec
CONSTANTS
    c1 = c1
    c2 = c2
    s1 = s1
    s2 = s2
    alice = alice
    bob = bob
    k1 = k1
    e1 = e1
    e2 = e2
    NoValue = NoValue
    Connects = {c1}
    Sessions = {s1}
    Identities = {alice, bob}
    Keys = {k1}
    KeyOf <- MCKeyOf
    Endpoints = {e1}
    EndpointOf <- MCOneSession
    PreAuthDeadline = 2
    ChallengeLifetime = 3
    ChannelLifetime = 4
    AllowedSkew = 1
    ResponseTimeout = 3
    LastStart = 0
    MaxTime = 4
    ClockSteps <- MCClockSteps
    MaxFeeds = 2
    MaxTraffic = 2
INVARIANTS
    OnlyAdmittedCommandsReachCell
    NothingSentAfterExpiry
    UnadmittedSessionsAreShort
PROPERTY HandshakesEnd
CHECK_DEADLOCK FALSE

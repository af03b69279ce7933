SPECIFICATION ExtensionSpec
CONSTANTS
    phone = phone
    laptop = laptop
    read = read
    admin = admin
    Places = {phone, laptop}
    NewPlaces = {laptop}
    Approvers = {phone}
    KnownScopes = {read}
    UnknownScopes = {admin}
    DefaultOn = {read}
    ScopeChoices <- MCScopeChoices
    MinutesChoices = {0}
    MinMinutes = 0
    DefaultMinutes = 0
    MaxMinutes = 1
    MaxRequests = 2
    MaxRecords = 4
    MaxTime = 1
INVARIANTS
    OneLinkInForce
    GrantedAndHeld
    NewestRequestRules
PROPERTY RevocationKept

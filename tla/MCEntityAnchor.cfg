SPECIFICATION Spec
CONSTANTS
    owner = owner
    laptop = laptop
    r1 = r1
    r2 = r2
    j1 = j1
    j2 = j2
    read = read
    write = write
    NoValue = NoValue
    Identities = {owner, laptop}
    Requests = {r1, r2}
    SubjectOf <- MCSubjectOf
    RequestedOf <- MCRequestedOf
    ScopeSets <- MCScopeSets
    Jtis = {j1}
    SafeRecordKey <- MCSafeRecordKey
    MaxApprovals = 2
    MaxWrites = 1
INVARIANTS
    LinksAreSigned
    OneLinkPerJti
    ProofsFollowRecords
PROPERTIES
    RevocationLasts

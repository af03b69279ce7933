SPECIFICATION Spec
CONSTANTS
    b1 = b1
    b2 = b2
    t1 = t1
    t2 = t2
    r1 = r1
    r2 = r2
    r3 = r3
    code = code
    someone = someone
    NoValue = NoValue
    Tickets = {t1, t2}
    Bases = {b1}
    BaseLists <- MCOnlyBase
    Requests = {}
    Declining = {}
    Forged = {}
    Caps = {1}
    MaxKeys = 2
    MaxRestarts = 0
    Replyable = {t1}
    CodeOf <- MCSameCode
    TicketOf <- MCTicketOf
    AudienceOf <- MCAudienceOf
INVARIANTS
    OneOpenInvitation
    PublishedIsHeld

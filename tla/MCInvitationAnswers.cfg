SPECIFICATION Spec
CONSTANTS
    b1 = b1
    b2 = b2
    t1 = t1
    t2 = t2
    r1 = r1
    r2 = r2
    r3 = r3
    code = code
    someone = someone
    NoValue = NoValue
    Tickets = {t1}
    Bases = {b1, b2}
    BaseLists <- MCTwoBases
    Requests = {r1, r3}
    Declining = {}
    Forged = {r3}
    Caps = {1}
    MaxKeys = 2
    MaxRestarts = 1
    Replyable = {t1}
    CodeOf <- MCSameCode
    TicketOf <- MCTicketOf
    AudienceOf <- MCAudienceOf
INVARIANTS
    TypeOK
    AnswersAreGenuine
PROPERTY RevokedTakesNoReply

SPECIFICATION Spec
CONSTANTS
    t1 = t1
    t2 = t2
    r1 = r1
    r2 = r2
    r3 = r3
    r4 = r4
    k1 = k1
    code = code
    NoValue = NoValue
    Tickets = {t1, t2}
    CodeOf <- MCCodeOf
    Replyable = {t1}
    Requests = {r1, r2, r3, r4}
    TicketOf <- MCTicketOf
    Declining = {r2}
    Forged = {r3}
    StatusKeys = {k1}
    Caps = {1, 2}
INVARIANTS
    RepliesAreAccounted
PROPERTIES
    RevocationLasts
    AnswersAreReported

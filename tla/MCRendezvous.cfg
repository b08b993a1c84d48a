SPECIFICATION Spec
CONSTANTS
    Requests = {q1, q2}
    Mailboxes = {m1, m2, m3}
    Tokens = {t1, t2}
    None = None
    MailboxTTL = 2
    RendezvousTTL = 1
    MaxTime = 2
    MaxMsgs = 1
    MaxFaults = 1
SYMMETRY Symmetry
INVARIANTS
    TypeOK
    TokenLeadsToUnpaired
    ResponderImpliesPaired
    SessionsStayApart
    AdvertisedLifetime
    ImmortalListHasWriter

SPECIFICATION Spec
CONSTANTS
    Requests = {q1, q2}
    Mailboxes = {m1, m2, m3}
    Tokens = {t1}
    None = None
    MailboxTTL = 2
    RendezvousTTL = 2
    MaxTime = 2
    MaxMsgs = 1
    MaxFaults = 0
SYMMETRY Symmetry
INVARIANTS
    AtMostOneResponder

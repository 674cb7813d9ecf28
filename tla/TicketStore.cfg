SPECIFICATION MCSpec
SYMMETRY Symm
CONSTANTS
    p1 = p1
    p2 = p2
    p3 = p3
    k1 = k1
    k2 = k2
    k3 = k3
    NoTicket = NoTicket
    Nobody = Nobody
    NoChallenge = NoChallenge
    Pass = {p1, p2, p3}
    Token = {k1, k2, k3}
    Request = {r1}
    Caller = {c1, c2}
    Address = {a1, a2}
    Challenge = {h1}
    Idle = 2
    Ttl = 2
    Hard = 3
    MaxPasses = 2
    MaxTokens = 2
    MaxEnded = 1
    Lag = 1
    MaxReads = 1
    MaxTime = 4
    MaxAttempts = 1
    Span = 3
    MaxKeys = 1
    Lifetime = 1
    Slack = 2
    MaxSpent = 1
INVARIANTS
    TicketInv
    ReadsOnRecord
    AcceptedOnce
    FailuresBounded
PROPERTIES
    WithinLease
    LeaseHolds
    EvictsTheIdle
CHECK_DEADLOCK FALSE

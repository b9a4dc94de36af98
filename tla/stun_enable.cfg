SPECIFICATION Spec
CONSTANTS
    Callers = {c1, c2}
    Logins <- MCLogins
    Counts = {1, 2}
    Throttle = 3
    NonceTTL = 1
    PerSecond = 2
    Servers = {"stun1", "gone", "no server"}
    Resolves = {"stun1"}
    Tasks = {t1, t2}
    MaxLoops = 3
    MaxAttempts = 2
    Datagrams <- MCDatagrams
    Identities <- MCIdentities
    MaxSessions = 2
    Plans <- EnablePlans
INVARIANTS
    StunStartsWhenEnabled
CHECK_DEADLOCK FALSE

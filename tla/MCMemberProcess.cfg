SPECIFICATION FairSpec
CONSTANTS
    Members = {m1, m2}
    m1 = m1
    m2 = m2
    Pids = {101, 102}
    Slots = 1
    Waiters = {m1}
    MaySignal = TRUE
INVARIANTS TableExact KilledGroupsDie
PROPERTIES KillHitsOwnGroup MemberReturns

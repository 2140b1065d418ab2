SPECIFICATION FairSpec
CONSTANTS
    Members = {m1}
    m1 = m1
    Pids = {101}
    Slots = 1
    Waiters = {}
    MaySignal = FALSE
PROPERTIES EveryMemberReturns

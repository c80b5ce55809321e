SPECIFICATION FairSpec
CONSTANTS
    Callers = {c1}
    Flaggers = {f1}
    Worker = worker
    NoThread = nothread
    MaxCalls = 2
INVARIANTS ExclusiveContext NoLostChange ExternalPriority
PROPERTIES CallerEnters ChangeLookedAt

SPECIFICATION Spec
CONSTANTS
    Albums = {a, b}
    None = None
    Named = FALSE
    Ambiguous = Ambiguous
    MaxAttempts = 2
    MaxRequests = 2
    MaxSessions = 1
    MaxFaults = 1
INVARIANT TypeOK LockIsPost OneOwnerEach
PROPERTY AcceptedNeverReposted OneAtATime StaleAnswerIgnored Unlocks
CHECK_DEADLOCK FALSE

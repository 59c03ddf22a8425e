SPECIFICATION FairSpec
CONSTANTS
    r1 = r1
    r2 = r2
    r3 = r3
    r4 = r4
    c1 = c1
    c2 = c2
    f1 = f1
    f2 = f2
    f3 = f3
    NoRequest = NoRequest
    Requests <- MCRequests
    Channels = {c1}
    Fingerprints = {f1, f2, f3}
    Channel <- OneChannel
    Fingerprint <- MCFingerprint
    Mention <- MCMention
    Batchable <- MCBatchable
    Debouncing = TRUE
    MaxRecords = 3
CHECK_DEADLOCK FALSE
INVARIANTS TypeOK NothingLostNothingTwice ActiveIsLive RecordsAgree AnswersAccounted
PROPERTIES ImplementsLifecycle QueueMoves

SPECIFICATION RecordsSpec
CONSTANTS
    None = None
    Nothing = Nothing
    Requests = {r1, r2}
    Users = {u1}
    Channels = {c1}
    Threshold = 2
    HistoryLimit = 1
    EnoughRows = 4
    MaxEdits = 1
SYMMETRY RecordsSymmetry
CHECK_DEADLOCK FALSE
INVARIANTS RecordsTypeOK RecordsSafe
PROPERTIES NothingTaken

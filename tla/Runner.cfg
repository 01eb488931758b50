SPECIFICATION LinkSpec
CONSTANTS
    Seqs <- MCSeqs
    NoSeq <- MCNoSeq
    Fates = {"slow", "hangs", "faults", "panics"}
    MaxSessions = 2
    MaxExecs = 2
    MaxTries = 2
    MaxResets = 1
    MaxLate = 1
    Kills = TRUE
INVARIANTS ReportTruth NoForeignReport OutcomeTruth NoAnswerLost
PROPERTY Answered
CHECK_DEADLOCK FALSE

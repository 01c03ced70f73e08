SPECIFICATION FairSpec
CONSTANTS
    Sessions = {s1, s2, s3}
    MaxHangUps = 2
    MaxConfig = 2
    Quiet <- Windows
INVARIANTS
    SessionsAreAlive
    HistoryReadOnce
    ReloadHonoured
PROPERTY HangUpIsAnswered

SPECIFICATION Spec
CONSTANTS
    Sessions = {s1, s2, s3}
    MaxHangUps = 2
    MaxConfig = 1
    Quiet <- Anytime
INVARIANT SessionsAreAlive

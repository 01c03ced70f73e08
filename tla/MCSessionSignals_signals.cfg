SPECIFICATION Spec
CONSTANTS
    Sessions = {s1, s2, s3, s4}
    MaxHangUps = 3
    MaxConfig = 2
    Quiet <- Anytime
SYMMETRY Addresses
INVARIANTS
    NoSessionLeaks
    CheckIsUndisturbed

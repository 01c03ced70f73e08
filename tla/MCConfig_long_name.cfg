CONSTANTS
    MAXPATHLEN = 20
    Home <- MCHome
    Numerals <- MCNumerals
    MAX_OPT_LEN = 4
    MAX_PARAM_LEN = 50
    GrammarSize = 5
    RawLength = 3
    Inputs <- MCInputs
SPECIFICATION Spec
INVARIANTS
    LongNamesAreErrors

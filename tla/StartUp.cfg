SPECIFICATION Spec
CONSTANTS
    Words = {"--help", "--version", "-l", "-x", "--", "path", "4", "0", "4x"}
    MaxArgc = 6
    ProgramLen = 3
    Titles = {3, 8, 12, 13, 17, 40}
INVARIANTS StartsAsAsked TitleFits ReadsEndInArgv
CHECK_DEADLOCK FALSE

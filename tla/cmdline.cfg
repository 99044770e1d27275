\* Texts of up to two words; command lines with up to three sources,
\* run by one worker or two
SPECIFICATION LineSpec
CONSTANTS
    Requests <- MCRequests
    Cpus = 2
INVARIANTS
    TokensAreRight
    JobsAreRight
    ExitCodeIsRight
CHECK_DEADLOCK FALSE

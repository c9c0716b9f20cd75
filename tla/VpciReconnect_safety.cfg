\* Every common CONFIG_HZ; six failed attempts reach the 30 s ceiling.
CONSTANTS
    HZs <- MCHZs
    MaxAttempts = 6
SPECIFICATION Spec
INVARIANTS TypeOK

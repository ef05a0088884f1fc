SPECIFICATION Spec
CONSTANTS
    Count = 2
    MaxFaults = 3
CHECK_DEADLOCK FALSE
INVARIANTS OldRecoverable NeverTorn CleanAfterOneFault RolledBack

SPECIFICATION Spec
CONSTANTS
    a = a
    b = b
    bad = bad
    Torn = Torn
    NoFile = NoFile
    Unloaded = Unloaded
    Contents <- MCContents
    Valid <- MCValid
    Size <- MCSize
    Kinds = {"settings", "client", "rollback", "add", "remove"}
    Servers = {"replaces", "refuses"}
    MaxSecond = 1
    MaxJobs = 2
    MaxFaults = 2
    MaxEdits = 1
CONSTRAINT Bounded
SYMMETRY Alike
INVARIANTS StaleCopyNeverWritten CrashAtomic OutcomeTruthful RefusalHarmless
PROPERTIES ImplementsStore BackedUpBeforeOverwrite

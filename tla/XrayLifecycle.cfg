SPECIFICATION Spec
CONSTANTS
    NoFile = NoFile
    Stopped = Stopped
    Found = Found
    Vendor = Vendor
    ScriptUnit = ScriptUnit
    Authored = {Form, Form2}
    OldXray = OldXray
    NewXray = NewXray
    MaxJobs = 2
    MaxFaults = 2
    MaxOutside = 1
INVARIANTS NothingLost FailedApplyRestores OkIsApplied PageIsTrue NoScratchLeft
PROPERTIES PromptWhenNeeded

SPECIFICATION Spec
CONSTANTS
    NoFile = NoFile
    Broken = Broken
    NoList = NoList
    NoSection = NoSection
    Unloaded = Unloaded
    NoDialog = NoDialog
    NumFiles = 3
    Lower <- MCLower
    Hosting <- MCHosting
    Names <- MCNames
    RoutingRefs <- MCRoutingRefs
    InitDisks <- MCInitDisks
    OutsideFiles <- MCOutsideFiles
    MaxItems = 2
    MaxOps = 1
    MaxOutside = 0
    MaxUnread = 0
PROPERTY RemovedFileIsEmpty

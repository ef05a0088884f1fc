SPECIFICATION Spec
CONSTANTS
    NoFile = NoFile
    Broken = Broken
    NoList = NoList
    NoSection = NoSection
    Unloaded = Unloaded
    NoDialog = NoDialog
    NumFiles = 3
    Lower <- MCLower
    Hosting <- MCHosting
    Names <- MCNames
    RoutingRefs <- MCRoutingRefs
    InitDisks <- MCInitDisks
    OutsideFiles <- MCOutsideFiles
    MaxItems = 3
    MaxOps = 2
    MaxOutside = 1
    MaxUnread = 1
INVARIANTS MirrorsRoots LoadedIsDisk
PROPERTIES TagsStayUnique DeleteKeepsReferences SavesWhatWasOpened

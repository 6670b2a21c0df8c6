\* The console of a foreground start does not follow the file.
CONSTANTS
    Garbage = {0, 11}
    GarbageFacility = {"KERN", "UNDEFINED"}
    Lines <- MCLines
    Content <- MCContent
    NoFile = NoFile
    Disks <- MCDisks
    Missing = Missing
    NotANumber = NotANumber
    UnsignedMax = 2147483647
SPECIFICATION StartupSpec
INVARIANT ConfigLoggingIsUsed
CHECK_DEADLOCK FALSE

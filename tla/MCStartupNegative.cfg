\* A socket is served at a port that is not the one of the file.
CONSTANTS
    Garbage = {0, 11}
    GarbageFacility = {"KERN", "UNDEFINED"}
    Lines <- MCLines
    Content <- MCContent
    NoFile = NoFile
    Disks <- MCDisks
    Missing = Missing
    NotANumber = NotANumber
    UnsignedMax = 2147483647
SPECIFICATION StartupSpec
INVARIANT ServesThePortsOfTheFile
CHECK_DEADLOCK FALSE

\* Starts on Posix and Windows with every file at every place.
CONSTANTS
    Garbage = {0, 11}
    GarbageFacility = {"KERN", "UNDEFINED"}
    Lines <- MCLines
    Content <- MCContent
    NoFile = NoFile
    Disks <- MCDisks
    Missing = Missing
    NotANumber = NotANumber
    UnsignedMax = 2147483647
SPECIFICATION StartupSpec
INVARIANTS
    ServesWhatIsWritten
    LogsAsWritten
CHECK_DEADLOCK FALSE

\* A DEBUG record is filed under the warnings of the event log.
CONSTANTS
    Garbage = {0, 11}
    GarbageFacility = {"KERN", "UNDEFINED"}
    Lines <- MCLines
    Content <- MCContent
    NoFile = NoFile
    Disks <- MCDisks
    Missing = Missing
    NotANumber = NotANumber
    UnsignedMax = 2147483647
SPECIFICATION StartupSpec
INVARIANT EventsAreFiled
CHECK_DEADLOCK FALSE

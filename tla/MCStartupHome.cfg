\* The file in the user's home directory is never read.
CONSTANTS
    Garbage = {0, 11}
    GarbageFacility = {"KERN", "UNDEFINED"}
    Lines <- MCLines
    Content <- MCContent
    NoFile = NoFile
    Disks <- MCDisks
    Missing = Missing
    NotANumber = NotANumber
    UnsignedMax = 2147483647
SPECIFICATION StartupSpec
INVARIANT UsersFileIsRead
CHECK_DEADLOCK FALSE

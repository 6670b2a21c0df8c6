\* Two echo requests in one session.
CONSTANTS
    Byte <- MCByte
    LF = "lf"
    CR = "cr"
    Dot = "dot"
    Space = "sp"
    Alnum <- MCAlnum
    Zero = "a"
    Lower <- MCLower
    Upper <- MCUpper
    Word <- MCWord
    BlockSizes = {4}
    OutSizes = {4}
    Fresh = {"x"}
    Bodies <- OneBody
    MaxLines = 1
    Others <- NoOthers
    Echos = 2
    Client <- MCClient
    FullReads = TRUE
SPECIFICATION Spec
INVARIANTS
    ExpectedResult
CHECK_DEADLOCK FALSE

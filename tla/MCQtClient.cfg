\* Two connections, lines short and long, and a user who never waits.
CONSTANTS
    Line = {"short", "long"}
    Long = {"long"}
    MaxLines = 2
    MaxConnects = 2
SPECIFICATION FairSpec
INVARIANTS
    AnswersInOrder
PROPERTIES
    TransitionsEnd
CHECK_DEADLOCK FALSE

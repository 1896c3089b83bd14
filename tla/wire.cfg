SPECIFICATION FairSpec
CONSTANTS
    Answers <- MCAnswers
    Strays <- MCStrays
    Buffer = 50
    None = None
INVARIANTS NoPanic FindsFirstMapping
PROPERTIES GatherEnds
CHECK_DEADLOCK FALSE

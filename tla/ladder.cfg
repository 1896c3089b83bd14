SPECIFICATION FairLadder
CONSTANTS
    RunsA = {r1}
    RunsB = {}
    Usable = {"udp", "ws", "sig", "punch", "rtc"}
INVARIANTS NoStrayWaiter AnsweredOffer
PROPERTY LadderEnds
CHECK_DEADLOCK FALSE

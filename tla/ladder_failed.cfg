SPECIFICATION LadderSpec
CONSTANTS
    RunsA = {r1}
    RunsB = {}
    Usable = {"udp", "ws", "sig", "punch", "rtc"}
PROPERTY FailedMeansDown
CHECK_DEADLOCK FALSE

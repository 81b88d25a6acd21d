SPECIFICATION Spec
CONSTANTS
    Ids = 3
    Kinds = {"QStartNoAckMode", "m", "X", "qRcmd", "c", "D"}
    Size = 3
    Habits = {"drop"}
INVARIANTS TypeOK RightReply ModesAgree
PROPERTIES InterruptStops Implements

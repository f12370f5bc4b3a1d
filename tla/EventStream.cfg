SPECIFICATION MCFairSpec
CONSTANTS
    w1 = w1
    w2 = w2
    s1 = s1
    Store = "memory"
    Writer = {w1, w2}
    Main <- MCMain
    Subscriber = {s1}
    Cursor = {0, 1, 5}
    MaxEvents = 4
PROPERTIES
    StreamsFollowFeed
    LogDelivered
    StreamsProgress
CHECK_DEADLOCK FALSE

CONSTANTS
    UserKeys = {x, y}
    CounterKey = counter_key
    Values = {v1}
    MaxCounter = 3
    Absent = Absent
    Threads = {t1, t2}
    Handles = {h1, h2}
SPECIFICATION AndroidSpec
SYMMETRY Symmetry
CHECK_DEADLOCK FALSE
INVARIANTS AndroidInv AckedCountersIncrease CounterCoversAcked UndisturbedCallsAreDefined
PROPERTIES MobileSpec

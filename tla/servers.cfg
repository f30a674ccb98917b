\* Two overlapping calls of either server, one or two worker threads.
CONSTANTS
    Sessions = {c1, c2}
    Ids = {a}
    Owners = {o1}
    Tiers = {"Personal"}
    Payloads = {w1, w2}
    Times = {1}
    Secrets = {k1}
    Absent = Absent
    MaxLog = 3
    MaxReplies = 3
    MaxThreads = 2
    StoreSecret = k1
    MaxCalls = 3
SPECIFICATION ServersSpec
INVARIANTS HandlersOK WritesAreSerial ReadsAreSerial AnswersTellTheTruth
PROPERTIES EveryCallIsAnswered

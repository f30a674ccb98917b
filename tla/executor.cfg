\* Two sessions with their vectors on one legacy file.
CONSTANTS
    Sessions = {s1, s2}
    Ids = {"a"}
    VectorIds = {"a", "b"}
    Owners = {o1}
    Tiers = {"Personal"}
    Payloads <- MCPayloads
    Arguments <- MCArguments
    Times = {1}
    Secrets = {}
    Absent = Absent
    MaxLog = 2
    MaxReplies = 1
    Vectors = {v1}
    Garbled = Garbled
    MaxVectorOps = 3
    IdWords = {"a"}
    OtherWords = {"x!"}
    Blank = Blank
    NewLine = NewLine
    Refused = Refused
    MaxPayload = 5
SPECIFICATION ExecutorSpec
SYMMETRY Symmetry
INVARIANTS ExecutorOK PersistedVectorsReturn VectorsAreAccountedFor
           CallsMeanWhatTheySay

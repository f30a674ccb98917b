\* AUTO EMBED reads a record and the session ends.
CONSTANTS
    Sessions = {s1}
    Ids = {a}
    Owners = {o1}
    Tiers = {"Personal"}
    Payloads = {p1}
    Times = {1}
    Secrets = {}
    Absent = Absent
    MaxLog = 2
    MaxReplies = 2
SPECIFICATION Spec
SYMMETRY Symmetry
INVARIANTS ReadsAreRecorded

\* Two servers write the same id in the same second.
CONSTANTS
    Sessions = {s1, s2}
    Ids = {a}
    Owners = {o1}
    Tiers = {"Personal"}
    Payloads = {p1, p2}
    Times = {1}
    Secrets = {k1}
    Absent = Absent
    MaxLog = 2
    MaxReplies = 2
SPECIFICATION Spec
SYMMETRY Symmetry
INVARIANTS TakenIdIsRefused

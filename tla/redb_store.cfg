\* Legacy sessions and sessions with two secrets race on one file.
CONSTANTS
    Sessions = {s1, s2}
    Ids = {a}
    Owners = {o1, o2}
    Tiers = {"Personal"}
    Payloads = {p1}
    Times = {1}
    Secrets = {k1, k2}
    Absent = Absent
    MaxLog = 2
    MaxReplies = 2
SPECIFICATION Spec
SYMMETRY Symmetry
INVARIANTS TypeOK HistoryIsLegal RecordsMatchHistory RepliesAreDurable FileReopens
PROPERTIES AuditAppendOnly ModeIsFixed

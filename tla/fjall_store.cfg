\* Sessions, failed commits, process crashes and power losses.
CONSTANTS
    Ids = {a, b}
    Owners = {o1, o2}
    Tiers = {"Critical", "Noise"}
    Payloads = {p1}
    Times = {1}
    Secrets = {k1}
    Absent = Absent
    MaxLog = 3
    MaxReplies = 3
SPECIFICATION Spec
SYMMETRY Symmetry
INVARIANTS TypeOK SurvivorsReopen SurvivorsMatchHistory CachesCurrent RepliesAreDurable
PROPERTIES AbstractSpec

CONSTANTS
    Identities = {alice, bob, carol}
    r = r
    prefix = prefix
    other = other
    star = star
    Resources = {r}
    Patterns = {prefix, other, star}
    Covers <- MCCovers
    AnySubject = any
    MaxTime = 2
    MaxGrants = 2
SPECIFICATION PolicySpec
SYMMETRY Symmetry
INVARIANTS CriticalNeedsOwner
PROPERTIES DenyIsFinal OnlyGrantsPermit PermitsLast

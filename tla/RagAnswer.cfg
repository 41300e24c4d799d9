SPECIFICATION Spec
CONSTANTS
    ta = ta
    tb = tb
    u = u
    ga = ga
    gb = gb
    gc = gc
    gd = gd
    scope = scope
    role = role
    other = other
    Absent = Absent
    Malformed = Malformed
    Identifiers = {ta, tb, u, ga, gb, gc, gd}
    MaxGroups = 2
    Settings <- Configurations
    Requests <- Incoming
    Documents <- Index
    Acl <- IndexAcl
    Size <- IndexSize
    Budget = 2
    MaxHits = 3
    Replies <- PiecedReplies
    None = None
CHECK_DEADLOCK FALSE
INVARIANTS
    OnlyTheEntitledEnter
    SourcesAreVisible
    AuditTellsTheTruth
    CitationsHold

SPECIFICATION Spec
CONSTANTS
    s1 = s1
    s2 = s2
    u1 = u1
    u2 = u2
    t1 = t1
    t2 = t2
    stage1 = stage1
    None = None
    Sessions = {s1, s2}
    Users = {u1, u2}
    Tasks = {t1, t2}
    StageOf <- MCStageOf
    MaxProposals = 2
    MaxNegotiations = 1
    MaxRaced = 1
    PatchOwners = {None}
    MaxEdits = 1
SYMMETRY Symmetry
INVARIANTS TypeOK OwnersConsented SerialAssignment NoStaleNegotiation
PROPERTY FinalizedIsFinal
CHECK_DEADLOCK FALSE

CONSTANTS
    None = None
    s1 = s1
    s2 = s2
    clarify = clarify
    plan1 = plan1
    plan2 = plan2
    breakdown = breakdown
    replan = replan
    late = late
    costly = costly
    Sessions = {s1, s2}
    Keys = {plan1, plan2}
    KindOf <- MCKindOf
    Reasons = {late, costly}
    ReasonsFor <- MCReasonsFor
    PlanSize = 2
    MaxProposals = 2
    MaxStages = 4
    MaxTasks = 0
    Edits = {"stage"}
    MaxEdits = 1
    EditStatuses = {"at_risk"}
SPECIFICATION Spec
CHECK_DEADLOCK FALSE
PROPERTIES
    PlanReplacesStages

SPECIFICATION Spec
CONSTANTS
    q1 = q1
    q2 = q2
    N = 2
    Requests = {q1, q2}
    Weight <- MCWeight
    Routes <- MCRoutes
INVARIANTS
    BreakerConsistent
    No503WhileUp
    ActiveConnsExact
    CreditConserved
PROPERTIES
    BecomesEligible
    ProbersStop

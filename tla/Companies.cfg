SPECIFICATION Spec
CONSTANTS
    contractor = contractor
    subcontractor = subcontractor
    Client = {q1, q2}
    Platform = Platform
    Company = {contractor, subcontractor}
    parentOf <- Tree
    Action = {a}
    MaxUsers = 1
INVARIANTS
    GrantsNest
    QuotaIsKept

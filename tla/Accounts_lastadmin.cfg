CONSTANTS
    Users = {a1, a2}
    Requests = {r1, r2, r3}
    Ops = {"demote", "suspend", "unsuspend"}
    Admins = {a1, a2}
    SuspendedAtFirst = {a2}
    None = None
CHECK_DEADLOCK FALSE
SPECIFICATION Spec
INVARIANTS AnActiveAdminRemains

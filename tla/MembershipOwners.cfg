\* Ownership moves while an account is being deleted.
SPECIFICATION Spec
CONSTANTS
    Users = {alice, bob}
    Founder = alice
    Requests = {r1, r2}
    AskedRoles = {"owner"}
    SsoRole = "member"
    MaxUsers = 2
    MaxRows = 2
    MaxInvites = 1
    MaxMisread = 0
\* everyone may be gone, and inserts stop at MaxRows
CHECK_DEADLOCK FALSE
PROPERTY
    DeletionLeavesOwner

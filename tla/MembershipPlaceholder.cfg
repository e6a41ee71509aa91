\* SCIM confirms a member that still has the placeholder key.
SPECIFICATION Spec
CONSTANTS
    Users = {alice, bob}
    Founder = alice
    Requests = {r1}
    AskedRoles = {"member"}
    SsoRole = "member"
    MaxUsers = 2
    MaxRows = 2
    MaxInvites = 1
    MaxMisread = 0
\* everyone may be gone, and inserts stop at MaxRows
CHECK_DEADLOCK FALSE
INVARIANT
    ActiveHasKey

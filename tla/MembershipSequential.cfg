\* One request at a time, with failures at every write.
SPECIFICATION Spec
CONSTANTS
    Users = {alice, bob}
    Founder = alice
    Requests = {r1}
    AskedRoles = {"owner", "member"}
    SsoRole = "member"
    MaxUsers = 2
    MaxRows = 3
    MaxInvites = 1
    MaxMisread = 1
\* everyone may be gone, and inserts stop at MaxRows
CHECK_DEADLOCK FALSE
INVARIANTS
    OneMembershipPerUser
    DeletedLeaveNothing
PROPERTIES
    OwnerRemains
    AcceptingKeepsRole
    DeletionLeavesOwner

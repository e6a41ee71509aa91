-------------------------- MODULE CollectionAccess --------------------------
(***************************************************************************)
(* Who may read, write and administer the collections of one organization: *)
(* grants to members, grants to teams and team memberships, changed by     *)
(* members and by the directory (service/collection_service.go,            *)
(* team_service.go, the groups of scim_service.go,                         *)
(* authz/collection_access.go).                                            *)
(*                                                                         *)
(* Operations look a row up and write it in two statements, and no unique  *)
(* index covers (collection, member), (collection, team) or (team, member).*)
(* A lookup that fails counts as one that finds nothing, so a second row   *)
(* is inserted.                                                            *)
(***************************************************************************)
EXTENDS Integers, FiniteSets, Sequences

CONSTANTS
    AccessRequests,  \* concurrent requests
    OrgMembers,      \* members of the organization
    OrgAdmins,       \* those who are owner or administrator
    TeamManagers,    \* those whose role may manage collections and teams
    Collections,     \* the collections
    Levels,          \* the sets of rights the requests grant
    Cascade,         \* deleting a team deletes the rows that name it
    MaxTeams,        \* bound on the teams
    MaxAccessRows    \* bound on the rows ever inserted

ASSUME AccessAssumption ==
    /\ OrgAdmins \subseteq TeamManagers
    /\ TeamManagers \subseteq OrgMembers
    /\ Levels \subseteq SUBSET {"read", "write", "admin"}
    /\ Cascade \in BOOLEAN
    /\ MaxTeams \in Nat \ {0}
    /\ MaxAccessRows \in Nat \ {0}

VARIABLES
    orgMembers,   \* the members not removed
    teams,        \* the live teams: 1 is the default team
    lastTeam,     \* the newest team
    accessRows,   \* id |-> row of team_users, collection_users or collection_teams
    accessCalls,  \* request |-> what it is about to write
    accessCalm,   \* history: no requests overlapped
    unseen        \* history: the keys a row was to be inserted for, not seeing theirs

accessVars == <<orgMembers, teams, lastTeam, accessRows, accessCalls, accessCalm, unseen>>

DefaultTeam == 1

(* A row: member of, or right to, an object; the two together are its key. *)
TeamUser == [holder: OrgMembers, object: 1..MaxTeams, manager: BOOLEAN]
CollectionUser == [holder: OrgMembers, object: Collections,
                   rights: SUBSET {"read", "write", "admin"}]
CollectionTeam == [holder: 1..MaxTeams, object: Collections,
                   rights: SUBSET {"read", "write", "admin"}]

AccessRow == TeamUser \cup CollectionUser \cup CollectionTeam

AccessKeys == (OrgMembers \cup 1..MaxTeams) \X (Collections \cup 1..MaxTeams)

Gone == [deleted |-> TRUE]

AccessIdle == [op |-> "none"]

AccessWrites ==
    [op: {"insert"}, row: AccessRow]
    \cup [op: {"save"}, id: 1..MaxAccessRows, row: AccessRow]
    \cup [op: {"drop"}, ids: SUBSET (1..MaxAccessRows)]
    \cup [op: {"dropKey"}, holder: OrgMembers \cup 1..MaxTeams,
          object: Collections \cup 1..MaxTeams]
    \cup [op: {"removeMember"}, member: OrgMembers]
    \cup [op: {"saveTeam", "syncTeam", "dropTeam"}, team: 1..MaxTeams]
    \cup [op: {"sync"}, team: 1..MaxTeams, missing: SUBSET OrgMembers,
          surplus: SUBSET (1..MaxAccessRows)]
    \cup {AccessIdle}

AccessTypeOK ==
    /\ orgMembers \subseteq OrgMembers
    /\ teams \subseteq 1..lastTeam
    /\ lastTeam \in 1..MaxTeams
    /\ Len(accessRows) <= MaxAccessRows
    /\ \A id \in DOMAIN accessRows : accessRows[id] \in AccessRow \cup {Gone}
    /\ accessCalls \in [AccessRequests -> AccessWrites]
    /\ accessCalm \in BOOLEAN
    /\ unseen \subseteq AccessKeys

(* The default team reads the default collection, and has no members yet.  *)
AccessInit ==
    /\ orgMembers = OrgMembers
    /\ teams = {DefaultTeam}
    /\ lastTeam = DefaultTeam
    /\ \E c \in Collections :
          accessRows = <<[holder |-> DefaultTeam, object |-> c, rights |-> {"read"}]>>
    /\ accessCalls = [r \in AccessRequests |-> AccessIdle]
    /\ accessCalm = TRUE
    /\ unseen = {}

-----------------------------------------------------------------------------
RowIds == {id \in DOMAIN accessRows : accessRows[id] # Gone}

RowsFor(holder, object) ==
    {id \in RowIds : accessRows[id].holder = holder /\ accessRows[id].object = object}

(* A lookup by key takes the first row. *)
FirstRow(ids) == CHOOSE id \in ids : \A other \in ids : id <= other

TeamsOf(m) == {t \in teams : RowsFor(m, t) # {}}

(* Administrators may do everything; the others what their own first grant *)
(* and the grants of their teams say.                                      *)
ComputeCollectionAccess(m, c) ==
    IF m \in OrgAdmins THEN {"read", "write", "admin"}
    ELSE UNION ({accessRows[FirstRow(ids)].rights : ids \in {RowsFor(m, c)} \ {{}}}
                \cup {accessRows[id].rights : id \in UNION {RowsFor(t, c) : t \in TeamsOf(m)}})

CanManageAccess(m, c) == m \in orgMembers /\ "admin" \in ComputeCollectionAccess(m, c)

CanManageTeam(m) == m \in orgMembers \cap TeamManagers

CanManageTeamMembers(m, t) ==
    /\ m \in orgMembers
    /\ m \in OrgAdmins \/ \E id \in RowsFor(m, t) : accessRows[id].manager

NobodyChangesAccess == \A r \in AccessRequests : accessCalls[r] = AccessIdle

BeginWrite(r, write) ==
    /\ accessCalls[r] = AccessIdle
    /\ accessCalls' = [accessCalls EXCEPT ![r] = write]
    /\ accessCalm' = (accessCalm /\ NobodyChangesAccess)
    /\ UNCHANGED <<orgMembers, teams, lastTeam, accessRows>>

WillChange(r, write) == BeginWrite(r, write) /\ UNCHANGED unseen

(* A lookup of the key answers that there is no row: there is none, or the *)
(* lookup failed, an error of any kind being taken for absence.            *)
NoRowSeen(holder, object) ==
    unseen' = unseen \cup {<<holder, object>> : id \in RowsFor(holder, object)}

-----------------------------------------------------------------------------
(* Mutant: a grant is inserted without looking for one. *)
GrantAgain(r, holder, c, rights) ==
    WillChange(r, [op |-> "insert",
                   row |-> [holder |-> holder, object |-> c, rights |-> rights \cup {"read"}]])

(* The existing grant gets the rights asked for; a new one can always read *)
(* (the column's default replaces FALSE).                                  *)
GrantAccess(r, holder, c, rights) ==
    LET ids == RowsFor(holder, c)
    IN  \/ /\ ids # {}
           /\ WillChange(r, [op |-> "save", id |-> FirstRow(ids),
                             row |-> [holder |-> holder, object |-> c, rights |-> rights]])
        \/ /\ NoRowSeen(holder, c)
           /\ BeginWrite(r, [op |-> "insert",
                             row |-> [holder |-> holder, object |-> c,
                                      rights |-> rights \cup {"read"}]])

GrantUserAccess(r, by, m, c, rights) ==
    /\ CanManageAccess(by, c)
    /\ m \in orgMembers
    /\ GrantAccess(r, m, c, rights)

GrantTeamAccess(r, by, t, c, rights) ==
    /\ CanManageAccess(by, c)
    /\ t \in teams
    /\ GrantAccess(r, t, c, rights)

(* Every row of the key goes, and it is not asked whether there is one. *)
RevokeUserAccess(r, by, m, c) ==
    /\ CanManageAccess(by, c)
    /\ WillChange(r, [op |-> "dropKey", holder |-> m, object |-> c])

RevokeTeamAccess(r, by, t, c) ==
    /\ CanManageAccess(by, c)
    /\ WillChange(r, [op |-> "dropKey", holder |-> t, object |-> c])

-----------------------------------------------------------------------------
(* A team is created at once; whether its name is taken is left out. *)
CreateTeam(by) ==
    /\ CanManageTeam(by)
    /\ lastTeam < MaxTeams
    /\ lastTeam' = lastTeam + 1
    /\ teams' = teams \cup {lastTeam'}
    /\ UNCHANGED <<orgMembers, accessRows, accessCalls, accessCalm, unseen>>

UpdateTeam(r, by, t) ==
    /\ CanManageTeam(by)
    /\ t \in teams
    /\ WillChange(r, [op |-> "saveTeam", team |-> t])

DeleteTeam(r, by, t) ==
    /\ CanManageTeam(by)
    /\ t \in teams \ {DefaultTeam}
    /\ WillChange(r, [op |-> "dropTeam", team |-> t])

AddMember(r, by, t, m, manager) ==
    /\ t \in teams
    /\ CanManageTeamMembers(by, t)
    /\ m \in orgMembers
    /\ NoRowSeen(m, t)
    /\ BeginWrite(r, [op |-> "insert",
                      row |-> [holder |-> m, object |-> t, manager |-> manager]])

(* The row of a team member is named by its own id. *)
UpdateMember(r, by, t, m, manager) ==
    /\ t \in teams
    /\ CanManageTeamMembers(by, t)
    /\ \E id \in RowsFor(m, t) :
          WillChange(r, [op |-> "save", id |-> id,
                         row |-> [accessRows[id] EXCEPT !.manager = manager]])

RemoveTeamMember(r, by, t, m) ==
    /\ t \in teams
    /\ CanManageTeamMembers(by, t)
    /\ \E id \in RowsFor(m, t) : WillChange(r, [op |-> "drop", ids |-> {id}])

(* A member leaves: his rows are listed and deleted, then he is. *)
RemoveOrgMember(r, m) ==
    /\ m \in orgMembers
    /\ WillChange(r, [op |-> "removeMember", member |-> m])

-----------------------------------------------------------------------------
(* The directory's list of a group: the team is saved, then its members    *)
(* are listed.                                                             *)
UpdateGroup(r, t) ==
    /\ t \in teams
    /\ WillChange(r, [op |-> "syncTeam", team |-> t])

(* A change of a group: members are added or removed at once, then the     *)
(* team, read before, is saved.  A member the directory adds gets a row,   *)
(* whether he has one or not.                                              *)
HandleGroupMemberAdd(t, m) ==
    /\ Len(accessRows) < MaxAccessRows
    /\ accessRows' = Append(accessRows, [holder |-> m, object |-> t, manager |-> FALSE])
    /\ NoRowSeen(m, t)

HandleGroupMemberRemove(t, m) ==
    /\ accessRows' = [id \in DOMAIN accessRows |->
                        IF id \in RowsFor(m, t) THEN Gone ELSE accessRows[id]]
    /\ UNCHANGED unseen

PatchGroup(r, t, m) ==
    /\ t \in teams
    /\ m \in orgMembers
    /\ accessCalls[r] = AccessIdle
    /\ HandleGroupMemberAdd(t, m) \/ HandleGroupMemberRemove(t, m)
    /\ accessCalls' = [accessCalls EXCEPT ![r] = [op |-> "saveTeam", team |-> t]]
    /\ accessCalm' = (accessCalm /\ NobodyChangesAccess)
    /\ UNCHANGED <<orgMembers, teams, lastTeam>>

(* The directory may delete the default team too, and create teams. *)
DeleteGroup(r, t) ==
    /\ t \in teams
    /\ WillChange(r, [op |-> "dropTeam", team |-> t])

CreateGroup ==
    /\ lastTeam < MaxTeams
    /\ lastTeam' = lastTeam + 1
    /\ teams' = teams \cup {lastTeam'}
    /\ UNCHANGED <<orgMembers, accessRows, accessCalls, accessCalm, unseen>>

-----------------------------------------------------------------------------
EndAccessCall(r) == accessCalls' = [accessCalls EXCEPT ![r] = AccessIdle]

WithoutAccessRows(ids) ==
    [id \in DOMAIN accessRows |-> IF id \in ids THEN Gone ELSE accessRows[id]]

RowsNaming(x) == {id \in RowIds : x \in {accessRows[id].holder, accessRows[id].object}}

(* A row naming a member or a team that is gone is refused (foreign keys). *)
NamesExist(row) ==
    {row.holder, row.object} \subseteq orgMembers \cup teams \cup Collections

InsertAccessRow(r) ==
    /\ accessCalls[r].op = "insert"
    /\ Len(accessRows) < MaxAccessRows
    /\ NamesExist(accessCalls[r].row)
    /\ accessRows' = Append(accessRows, accessCalls[r].row)
    /\ EndAccessCall(r)
    /\ UNCHANGED <<orgMembers, teams, lastTeam, accessCalm, unseen>>

(* A save of a row that was deleted inserts it again. *)
SaveAccessRow(r) ==
    /\ accessCalls[r].op = "save"
    /\ NamesExist(accessCalls[r].row)
    /\ accessRows' = [accessRows EXCEPT ![accessCalls[r].id] = accessCalls[r].row]
    /\ EndAccessCall(r)
    /\ UNCHANGED <<orgMembers, teams, lastTeam, accessCalm, unseen>>

DropAccessRows(r) ==
    /\ \/ /\ accessCalls[r].op = "drop"
          /\ accessRows' = WithoutAccessRows(accessCalls[r].ids)
       \/ /\ accessCalls[r].op = "dropKey"
          /\ accessRows' = WithoutAccessRows(RowsFor(accessCalls[r].holder,
                                                     accessCalls[r].object))
    /\ EndAccessCall(r)
    /\ UNCHANGED <<orgMembers, teams, lastTeam, accessCalm, unseen>>

DropMember(r) ==
    /\ accessCalls[r].op = "removeMember"
    /\ accessRows' = WithoutAccessRows(RowsNaming(accessCalls[r].member))
    /\ orgMembers' = orgMembers \ {accessCalls[r].member}
    /\ EndAccessCall(r)
    /\ UNCHANGED <<teams, lastTeam, accessCalm, unseen>>

(* Without the cascade the database refuses while a row names the team. *)
DropTeam(r) ==
    /\ accessCalls[r].op = "dropTeam"
    /\ Cascade \/ RowsNaming(accessCalls[r].team) = {}
    /\ accessRows' = WithoutAccessRows(RowsNaming(accessCalls[r].team))
    /\ teams' = teams \ {accessCalls[r].team}
    /\ EndAccessCall(r)
    /\ UNCHANGED <<orgMembers, lastTeam, accessCalm, unseen>>

(* A save of a team that was deleted inserts it again. *)
SaveTeam(r) ==
    /\ accessCalls[r].op \in {"saveTeam", "syncTeam"}
    /\ LET t == accessCalls[r].team
       IN  /\ teams' = teams \cup {t}
           /\ \/ /\ accessCalls[r].op = "saveTeam"
                 /\ EndAccessCall(r)
              \/ /\ accessCalls[r].op = "syncTeam"
                 /\ \E desired \in SUBSET OrgMembers :
                       accessCalls' = [accessCalls EXCEPT ![r] =
                         [op |-> "sync", team |-> t,
                          missing |-> {m \in desired \cap orgMembers : RowsFor(m, t) = {}},
                          surplus |-> UNION {RowsFor(m, t) : m \in OrgMembers \ desired}]]
    /\ UNCHANGED <<orgMembers, lastTeam, accessRows, accessCalm, unseen>>

(* The missing members get their rows, then the surplus ones lose theirs;  *)
(* an error is ignored and the next row is tried.  A missing member gets a *)
(* row each time the directory's list names him: the code notes nothing of *)
(* the rows it has inserted.                                               *)
SyncGroupMembers(r) ==
    /\ accessCalls[r].op = "sync"
    /\ LET w == accessCalls[r]
       IN  \/ \E m \in w.missing :
                 /\ \/ /\ Len(accessRows) < MaxAccessRows
                       /\ {m, w.team} \subseteq orgMembers \cup teams
                       /\ accessRows' = Append(accessRows, [holder |-> m, object |-> w.team,
                                                            manager |-> FALSE])
                    \/ UNCHANGED accessRows
                 /\ \/ /\ accessCalls' = [accessCalls EXCEPT ![r].missing = @ \ {m}]
                       /\ UNCHANGED unseen
                    \/ /\ unseen' = unseen \cup {<<m, w.team>>}
                       /\ UNCHANGED accessCalls
           \/ /\ w.missing = {}
              /\ accessRows' = [id \in DOMAIN accessRows |->
                                  IF id \in w.surplus THEN Gone ELSE accessRows[id]]
              /\ EndAccessCall(r)
              /\ UNCHANGED unseen
    /\ UNCHANGED <<orgMembers, teams, lastTeam, accessCalm>>

FailAccessWrite(r) ==
    /\ accessCalls[r] # AccessIdle
    /\ EndAccessCall(r)
    /\ UNCHANGED <<orgMembers, teams, lastTeam, accessRows, accessCalm, unseen>>

GrantRequest(r) ==
    \E by \in OrgMembers, c \in Collections, l \in Levels :
       \/ \E m \in OrgMembers : GrantUserAccess(r, by, m, c, l)
       \/ \E t \in 1..lastTeam : GrantTeamAccess(r, by, t, c, l)

RevokeRequest(r) ==
    \E by \in OrgMembers, c \in Collections :
       \/ \E m \in OrgMembers : RevokeUserAccess(r, by, m, c)
       \/ \E t \in 1..lastTeam : RevokeTeamAccess(r, by, t, c)

TeamRequest(r) ==
    \E by \in OrgMembers, t \in 1..lastTeam : UpdateTeam(r, by, t) \/ DeleteTeam(r, by, t)

TeamMemberRequest(r) ==
    \E by, m \in OrgMembers, t \in 1..lastTeam :
       \/ RemoveTeamMember(r, by, t, m)
       \/ \E g \in BOOLEAN : AddMember(r, by, t, m, g) \/ UpdateMember(r, by, t, m, g)

GroupRequest(r) ==
    \E t \in 1..lastTeam :
       \/ UpdateGroup(r, t) \/ DeleteGroup(r, t)
       \/ \E m \in OrgMembers : PatchGroup(r, t, m)

AccessWrite(r) ==
    \/ InsertAccessRow(r) \/ SaveAccessRow(r) \/ DropAccessRows(r)
    \/ DropMember(r) \/ DropTeam(r) \/ SaveTeam(r) \/ SyncGroupMembers(r)
    \/ FailAccessWrite(r)

AccessNext ==
    \/ \E r \in AccessRequests :
          \/ GrantRequest(r) \/ RevokeRequest(r)
          \/ TeamRequest(r) \/ TeamMemberRequest(r) \/ GroupRequest(r)
          \/ AccessWrite(r)
          \/ \E m \in OrgMembers : RemoveOrgMember(r, m)
    \/ \E m \in OrgMembers : CreateTeam(m)
    \/ CreateGroup

AccessSpec == AccessInit /\ [][AccessNext]_accessVars

-----------------------------------------------------------------------------
(* While requests come one by one, a member and a collection, a team and a *)
(* collection, a member and a team have at most one row: removing a team   *)
(* member's row, or changing the first grant found, is then all there is   *)
(* to do.  Only the keys are excepted whose row an insert did not see,     *)
(* because its lookup failed or the directory names a member once more     *)
(* (collection_service.go:284, team_service.go:198, scim_service.go:587,   *)
(* 634).  Two grants that overlap break it as well.                        *)
OneGrantEach ==
    accessCalm =>
        \A a, b \in RowIds :
           /\ accessRows[a].holder = accessRows[b].holder
           /\ accessRows[a].object = accessRows[b].object
           => a = b \/ <<accessRows[a].holder, accessRows[a].object>> \in unseen
=============================================================================

------------------------------ MODULE SsoLogin ------------------------------
(***************************************************************************)
(* Single sign-on: an organization's connections to identity providers,    *)
(* the states of logins under way, and the escrow that lets such a login   *)
(* open the organization's vault without a master password                 *)
(* (service/sso_service.go, key_escrow_service.go).                        *)
(*                                                                         *)
(* Every statement is a step.  What the provider answers is trusted: a     *)
(* callback succeeds or fails.  Membership and the session a login opens   *)
(* are in Membership and Sessions; the escrow is that of one user.         *)
(***************************************************************************)
EXTENDS Integers

CONSTANTS
    SsoRequests,     \* concurrent requests
    SsoOrgs,         \* organizations
    SsoDomains,      \* e-mail domains, in lower case
    MaxConnections,  \* bound: connections ever inserted
    MaxLogins,       \* bound: logins ever begun
    MaxKeys          \* bound: escrow keys generated, and enrolments inserted

ASSUME SsoAssumption ==
    MaxConnections \in Nat /\ MaxLogins \in Nat /\ MaxKeys \in Nat

VARIABLES
    connections,  \* id |-> row of sso_connections
    logins,       \* id |-> row of sso_states
    escrowKeys,   \* organization |-> its escrow key
    enrolments,   \* id |-> the user's escrow in an organization
    ssoCalls,     \* request |-> frame
    newest,       \* the highest ids given out
    served,       \* history: logins that opened a session
    ssoCalm       \* history: no requests overlapped, no ignored error happened

ssoVars == <<connections, logins, escrowKeys, enrolments, ssoCalls, newest,
             served, ssoCalm>>

(* configured is whether the settings of the protocol are complete.        *)
Connection == [org: SsoOrgs, domain: SsoDomains, configured: BOOLEAN,
               escrow: BOOLEAN,
               status: {"draft", "active", "inactive"}]

Login == [connection: 1..MaxConnections, expired: BOOLEAN]

(* key is the escrow key that wraps the organization's key. *)
Enrolment == [org: SsoOrgs, key: 1..MaxKeys]

(* What a request on a connection, on an enrolment and a callback carry.  *)
ConnectionFrame == [pc: {"insert", "findKey", "insertKey", "save"},
                    id: 0..MaxConnections, row: Connection]

EscrowFrame == [pc: {"wrap", "enrol"}, org: SsoOrgs, key: 0..MaxKeys]

LoginFrame == [pc: {"connect", "complete", "finish"}, login: 1..MaxLogins,
               connection: 1..MaxConnections]

SsoFrame == ConnectionFrame \cup EscrowFrame \cup LoginFrame

NoSso == [pc |-> "idle"]

NewestIds == [connection: 0..MaxConnections, login: 0..MaxLogins,
              key: 0..MaxKeys, enrolment: 0..MaxKeys]

SsoTypeOK ==
    /\ DOMAIN connections \subseteq 1..newest.connection
    /\ connections \in [DOMAIN connections -> Connection]
    /\ DOMAIN logins \subseteq 1..newest.login
    /\ logins \in [DOMAIN logins -> Login]
    /\ escrowKeys \in [SsoOrgs -> 0..newest.key]
    /\ DOMAIN enrolments \subseteq 1..newest.enrolment
    /\ enrolments \in [DOMAIN enrolments -> Enrolment]
    /\ ssoCalls \in [SsoRequests -> SsoFrame \cup {NoSso}]
    /\ newest \in NewestIds
    /\ ssoCalm \in BOOLEAN

SsoInit ==
    /\ connections = [c \in {} |-> NoSso]
    /\ logins = [l \in {} |-> NoSso]
    /\ escrowKeys = [o \in SsoOrgs |-> 0]
    /\ enrolments = [e \in {} |-> NoSso]
    /\ ssoCalls = [r \in SsoRequests |-> NoSso]
    /\ newest = [connection |-> 0, login |-> 0, key |-> 0, enrolment |-> 0]
    /\ served = {}
    /\ ssoCalm = TRUE

-----------------------------------------------------------------------------
(* Frames. *)

Writing(pc, id, row) == [pc |-> pc, id |-> id, row |-> row]

SsoTables == <<connections, logins, escrowKeys, enrolments>>

SsoRequest(r, frame) ==
    /\ ssoCalls[r] = NoSso
    /\ ssoCalls' = [ssoCalls EXCEPT ![r] = frame]
    /\ ssoCalm' = (ssoCalm /\ \A q \in SsoRequests : ssoCalls[q] = NoSso)
    /\ UNCHANGED <<SsoTables, newest, served>>

SsoAt(r, pc) == ssoCalls[r].pc = pc

SsoGoto(r, pc) == ssoCalls' = [ssoCalls EXCEPT ![r].pc = pc]

SsoEnd(r) == ssoCalls' = [ssoCalls EXCEPT ![r] = NoSso]

PutRow(table, id, row) ==
    [i \in DOMAIN table \cup {id} |-> IF i = id THEN row ELSE table[i]]

DropRows(table, ids) == [i \in DOMAIN table \ ids |-> table[i]]

-----------------------------------------------------------------------------
(* Connections. *)

(* The unique index on the domain.  The lookup before it refuses a domain  *)
(* that is taken, unless it fails: then the request goes on to the index.  *)
Taken(domain, id) ==
    \E c \in DOMAIN connections \ {id} : connections[c].domain = domain

(* A connection is created with the settings its protocol needs, except    *)
(* that those of OIDC may be incomplete.                                   *)
CreateConnection(r, org, domain, configured) ==
    SsoRequest(r, Writing("insert", 0,
        [org |-> org, domain |-> domain, configured |-> configured,
         escrow |-> FALSE, status |-> "draft"]))

(* A second save adds URLs that contain the row's id. *)
InsertConnection(r) ==
    LET c == newest.connection + 1
        row == ssoCalls[r].row
    IN  /\ SsoAt(r, "insert")
        /\ c <= MaxConnections
        /\ ~Taken(row.domain, 0)
        /\ connections' = PutRow(connections, c, row)
        /\ newest' = [newest EXCEPT !.connection = c]
        /\ ssoCalls' = [ssoCalls EXCEPT ![r] =
                          Writing("save", c, row)]
        /\ UNCHANGED <<logins, escrowKeys, enrolments, served, ssoCalm>>

(* Any status may be set, whatever the settings. *)
UpdateConnection(r, c, domain, configured, status) ==
    SsoRequest(r, Writing("save", c,
        [connections[c] EXCEPT !.domain = domain, !.status = status,
                               !.configured = configured]))

(* Turning the escrow on gives the organization a key first. *)
UpdateEscrow(r, c, escrow) ==
    SsoRequest(r, Writing(IF escrow THEN "findKey" ELSE "save", c,
                             [connections[c] EXCEPT !.escrow = escrow]))

ActivateConnection(r, c) ==
    /\ connections[c].configured
    /\ SsoRequest(r, Writing("save", c,
                                [connections[c] EXCEPT !.status = "active"]))

(* gorm inserts a row again that was deleted meanwhile. *)
SaveConnection(r) ==
    LET f == ssoCalls[r]
    IN  /\ SsoAt(r, "save")
        /\ ~Taken(f.row.domain, f.id)
        /\ connections' = PutRow(connections, f.id, f.row)
        /\ SsoEnd(r)
        /\ UNCHANGED <<logins, escrowKeys, enrolments, newest, served, ssoCalm>>

DeleteConnection(c) ==
    /\ connections' = DropRows(connections, {c})
    /\ UNCHANGED <<logins, escrowKeys, enrolments, ssoCalls, newest, served,
                   ssoCalm>>

-----------------------------------------------------------------------------
(* The escrow. *)

FindKey(r) ==
    /\ SsoAt(r, "findKey")
    /\ SsoGoto(r, IF escrowKeys[ssoCalls[r].row.org] # 0 THEN "save"
                  ELSE "insertKey")
    /\ UNCHANGED <<SsoTables, newest, served, ssoCalm>>

(* Mutant: no unique index on the organization. *)
InsertAnotherKey(r) ==
    LET k == newest.key + 1
    IN  /\ SsoAt(r, "insertKey")
        /\ k <= MaxKeys
        /\ escrowKeys' = [escrowKeys EXCEPT ![ssoCalls[r].row.org] = k]
        /\ newest' = [newest EXCEPT !.key = k]
        /\ SsoGoto(r, "save")
        /\ UNCHANGED <<connections, logins, enrolments, served, ssoCalm>>

(* The unique index on the organization keeps a second key out. *)
InsertKey(r) ==
    LET org == ssoCalls[r].row.org
        k == newest.key + 1
    IN  /\ SsoAt(r, "insertKey")
        /\ k <= MaxKeys
        /\ escrowKeys[org] = 0
        /\ escrowKeys' = [escrowKeys EXCEPT ![org] = k]
        /\ newest' = [newest EXCEPT !.key = k]
        /\ SsoGoto(r, "save")
        /\ UNCHANGED <<connections, logins, enrolments, served, ssoCalm>>

EnrolmentsIn(org) == {e \in DOMAIN enrolments : enrolments[e].org = org}

(* Any member may enrol; whether a connection has the escrow on is not     *)
(* asked.                                                                  *)
EnrollUser(r, org) ==
    /\ EnrolmentsIn(org) = {}
    /\ SsoRequest(r, [pc |-> "wrap", org |-> org, key |-> 0])

(* Mutant: a missing key is not an error. *)
WrapKeyless(r) ==
    /\ SsoAt(r, "wrap")
    /\ ssoCalls' = [ssoCalls EXCEPT ![r].pc = "enrol",
                                    ![r].key = escrowKeys[ssoCalls[r].org]]
    /\ UNCHANGED <<SsoTables, newest, served, ssoCalm>>

(* Without an escrow key of the organization the request fails. *)
WrapKey(r) ==
    /\ SsoAt(r, "wrap")
    /\ escrowKeys[ssoCalls[r].org] # 0
    /\ ssoCalls' = [ssoCalls EXCEPT ![r].pc = "enrol",
                                    ![r].key = escrowKeys[ssoCalls[r].org]]
    /\ UNCHANGED <<SsoTables, newest, served, ssoCalm>>

InsertEnrolment(r) ==
    LET e == newest.enrolment + 1
    IN  /\ SsoAt(r, "enrol")
        /\ e <= MaxKeys
        /\ enrolments' = PutRow(enrolments, e,
                             [org |-> ssoCalls[r].org, key |-> ssoCalls[r].key])
        /\ newest' = [newest EXCEPT !.enrolment = e]
        /\ SsoEnd(r)
        /\ UNCHANGED <<connections, logins, escrowKeys, served, ssoCalm>>

RevokeUser(org) ==
    /\ enrolments' = DropRows(enrolments, EnrolmentsIn(org))
    /\ UNCHANGED <<connections, logins, escrowKeys, ssoCalls, newest, served,
                   ssoCalm>>

-----------------------------------------------------------------------------
(* Logins. *)

InitiateLogin(c) ==
    LET l == newest.login + 1
    IN  /\ connections[c].status = "active"
        /\ l <= MaxLogins
        /\ logins' = PutRow(logins, l, [connection |-> c, expired |-> FALSE])
        /\ newest' = [newest EXCEPT !.login = l]
        /\ UNCHANGED <<connections, escrowKeys, enrolments, ssoCalls, served,
                       ssoCalm>>

(* An OIDC callback deletes a state that has expired. *)
DropLogin(l) ==
    /\ logins[l].expired
    /\ logins' = DropRows(logins, {l})
    /\ UNCHANGED <<connections, escrowKeys, enrolments, ssoCalls, newest,
                   served, ssoCalm>>

(* A callback reads the state, then the connection as it is by then.       *)
Callback(r, l) ==
    /\ ~logins[l].expired
    /\ SsoRequest(r, [pc |-> "connect", login |-> l,
                      connection |-> logins[l].connection])

ReadConnection(r) ==
    LET c == ssoCalls[r].connection
        usable == /\ c \in DOMAIN connections
                  /\ connections[c].status = "active" /\ connections[c].configured
    IN  /\ SsoAt(r, "connect")
        /\ SsoGoto(r, IF usable THEN "complete" ELSE "finish")
        /\ UNCHANGED <<SsoTables, newest, served, ssoCalm>>

(* Or the provider's answer, the address or the membership is refused.     *)
CompleteSSOLogin(r) ==
    /\ SsoAt(r, "complete")
    /\ served' \in {served, served \cup {ssoCalls[r].login}}
    /\ SsoGoto(r, "finish")
    /\ UNCHANGED <<SsoTables, newest, ssoCalm>>

(* Mutant: the state is left. *)
KeepLogin(r) ==
    /\ SsoAt(r, "finish")
    /\ SsoEnd(r)
    /\ UNCHANGED <<SsoTables, newest, served, ssoCalm>>

(* The state is deleted whatever came of it; an error is ignored. *)
DeleteLogin(r) ==
    /\ SsoAt(r, "finish")
    /\ \/ logins' = DropRows(logins, {ssoCalls[r].login}) /\ UNCHANGED ssoCalm
       \/ ssoCalm' = FALSE /\ UNCHANGED logins
    /\ SsoEnd(r)
    /\ UNCHANGED <<connections, escrowKeys, enrolments, newest, served>>

ExpireLogin(l) ==
    /\ ~logins[l].expired
    /\ logins' = [logins EXCEPT ![l].expired = TRUE]
    /\ UNCHANGED <<connections, escrowKeys, enrolments, ssoCalls, newest,
                   served, ssoCalm>>

-----------------------------------------------------------------------------
(* An error ends a request, and a crash one that has not come to deleting  *)
(* its state.                                                              *)
FailSso(r) ==
    /\ ssoCalls[r] # NoSso
    /\ SsoEnd(r)
    /\ ssoCalm' = (ssoCalm /\ ssoCalls[r] \notin LoginFrame)
    /\ UNCHANGED <<SsoTables, newest, served>>

AskSso(r) ==
    \/ \E o \in SsoOrgs, d \in SsoDomains, b \in BOOLEAN :
          CreateConnection(r, o, d, b)
    \/ \E c \in DOMAIN connections :
          \/ \E d \in SsoDomains, b \in BOOLEAN, s \in {"active", "inactive"} :
                UpdateConnection(r, c, d, b, s)
          \/ \E b \in BOOLEAN : UpdateEscrow(r, c, b)
          \/ ActivateConnection(r, c)
    \/ \E o \in SsoOrgs : EnrollUser(r, o)
    \/ \E l \in DOMAIN logins : Callback(r, l)

DoSso(r) ==
    \/ InsertConnection(r)
    \/ SaveConnection(r)
    \/ FindKey(r)
    \/ InsertKey(r)
    \/ WrapKey(r)
    \/ InsertEnrolment(r)
    \/ ReadConnection(r)
    \/ CompleteSSOLogin(r)
    \/ DeleteLogin(r)
    \/ FailSso(r)

SsoNext ==
    \/ \E r \in SsoRequests : AskSso(r)
    \/ \E r \in SsoRequests : DoSso(r)
    \/ \E c \in DOMAIN connections : InitiateLogin(c) \/ DeleteConnection(c)
    \/ \E l \in DOMAIN logins : ExpireLogin(l) \/ DropLogin(l)
    \/ \E o \in SsoOrgs : RevokeUser(o)

SsoSpec == SsoInit /\ [][SsoNext]_ssoVars

-----------------------------------------------------------------------------
(* Properties. *)

(* An organization whose escrow is on has an escrow key, and every escrow  *)
(* of a user is wrapped with the key the organization has now, however     *)
(* administrators turn the escrow on side by side: the login can open it.  *)
EscrowKeyServes ==
    /\ \A c \in DOMAIN connections :
          connections[c].escrow => escrowKeys[connections[c].org] # 0
    /\ \A e \in DOMAIN enrolments :
          enrolments[e].key = escrowKeys[enrolments[e].org]

(* A state of a login opens one session (as long as requests do not        *)
(* overlap, and deleting the state neither fails nor is prevented).        *)
LoginServesOnce ==
    [][\A r \in SsoRequests :
          CompleteSSOLogin(r) /\ ssoCalm => ssoCalls[r].login \notin served]_ssoVars
=============================================================================

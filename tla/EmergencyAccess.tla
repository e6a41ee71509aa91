-------------------------- MODULE EmergencyAccess --------------------------
(***************************************************************************)
(* One emergency access: a grantor invites a contact, confirms him with a  *)
(* key, and consents to, or rejects, his requests to read the vault        *)
(* (service/emergency_access_service.go).                                  *)
(*                                                                         *)
(* Every operation reads the row, checks its status and saves it whole,    *)
(* in two statements; a save inserts the row again when it was deleted.    *)
(***************************************************************************)
EXTENDS Integers

CONSTANT GrantRequests  \* concurrent requests

VARIABLES
    grant,       \* the row of emergency_accesses, or NoGrant
    grantCalls,  \* request |-> frame
    events,      \* history: what has happened
    approved,    \* history: an approval was written and no vault read since
    grantCalm    \* history: no requests overlapped, no failed save ignored

grantVars == <<grant, grantCalls, events, approved, grantCalm>>

GrantStatus == {"invited", "accepted", "confirmed", "recovery_requested",
                "recovery_approved", "recovery_rejected"}

(* grantee and key say whether the columns are set, asked and consented    *)
(* whether the dates of the request and of its approval are.               *)
Grant == [status: GrantStatus, grantee: BOOLEAN, key: BOOLEAN,
          asked: BOOLEAN, consented: BOOLEAN]

NoGrant == [status |-> "none"]

(* What a request is about to write. *)
GrantWrites == {"accept", "confirm", "ask", "consent", "reject", "open"}

GrantCall == [op: GrantWrites, row: Grant]

Idle == [op |-> "idle"]
Revoking == [op |-> "revoke"]

GrantTypeOK ==
    /\ grant \in Grant \cup {NoGrant}
    /\ grantCalls \in [GrantRequests -> GrantCall \cup {Idle, Revoking}]
    /\ events \subseteq {"invite", "accept", "confirm", "ask", "consent", "open"}
    /\ approved \in BOOLEAN
    /\ grantCalm \in BOOLEAN

GrantInit ==
    /\ grant = NoGrant
    /\ grantCalls = [r \in GrantRequests |-> Idle]
    /\ events = {}
    /\ approved = FALSE
    /\ grantCalm = TRUE

-----------------------------------------------------------------------------
(* A request reads the row, which must have the status, and goes on with   *)
(* what it will save.                                                      *)
ReadGrant(r, status, op, row) ==
    /\ grantCalls[r] = Idle
    /\ grant # NoGrant
    /\ grant.status = status
    /\ grantCalls' = [grantCalls EXCEPT ![r] = [op |-> op, row |-> row]]
    /\ grantCalm' = (grantCalm /\ \A q \in GrantRequests : grantCalls[q] = Idle)
    /\ UNCHANGED <<grant, events, approved>>

InviteContact ==
    /\ "invite" \notin events
    /\ grant' = [status |-> "invited", grantee |-> FALSE, key |-> FALSE,
                 asked |-> FALSE, consented |-> FALSE]
    /\ events' = events \cup {"invite"}
    /\ UNCHANGED <<grantCalls, approved, grantCalm>>

AcceptGrant(r) ==
    ReadGrant(r, "invited", "accept",
              [grant EXCEPT !.status = "accepted", !.grantee = TRUE])

ConfirmGrant(r) ==
    ReadGrant(r, "accepted", "confirm",
              [grant EXCEPT !.status = "confirmed", !.key = TRUE])

RequestRecovery(r) ==
    /\ grant # NoGrant
    /\ grant.grantee
    /\ ReadGrant(r, "confirmed", "ask",
                 [grant EXCEPT !.status = "recovery_requested", !.asked = TRUE])

(* Mutant: an approval in advance, of any confirmed contact. *)
ApproveInAdvance(r) ==
    ReadGrant(r, "confirmed", "consent",
              [grant EXCEPT !.status = "recovery_approved", !.consented = TRUE])

ApproveRecovery(r) ==
    ReadGrant(r, "recovery_requested", "consent",
              [grant EXCEPT !.status = "recovery_approved", !.consented = TRUE])

RejectRecovery(r) ==
    ReadGrant(r, "recovery_requested", "reject",
              [grant EXCEPT !.status = "recovery_rejected"])

(* Mutant: the vault stays open after it was read. *)
GetVaultAgain(r) ==
    /\ grant # NoGrant
    /\ grant.grantee /\ grant.key
    /\ ReadGrant(r, "recovery_approved", "open", grant)

(* Reading the vault sets the grant back to confirmed. *)
GetVaultForRecovery(r) ==
    /\ grant # NoGrant
    /\ grant.grantee /\ grant.key
    /\ ReadGrant(r, "recovery_approved", "open",
                 [grant EXCEPT !.status = "confirmed",
                               !.asked = FALSE, !.consented = FALSE])

RevokeGrant(r) ==
    /\ grantCalls[r] = Idle
    /\ grant # NoGrant
    /\ grantCalls' = [grantCalls EXCEPT ![r] = Revoking]
    /\ grantCalm' = (grantCalm /\ \A q \in GrantRequests : grantCalls[q] = Idle)
    /\ UNCHANGED <<grant, events, approved>>

-----------------------------------------------------------------------------
EndGrantCall(r) == grantCalls' = [grantCalls EXCEPT ![r] = Idle]

Holds(r) == grantCalls[r] \notin {Idle, Revoking}

(* The write makes the event happen; a rejection is none. *)
Made(r) == events' = events \cup ({grantCalls[r].op} \ {"reject"})

SaveGrant(r) ==
    /\ Holds(r)
    /\ grant' = grantCalls[r].row
    /\ Made(r)
    /\ approved' = CASE grantCalls[r].op = "consent" -> TRUE
                     [] grantCalls[r].op = "open" -> FALSE
                     [] OTHER -> approved
    /\ EndGrantCall(r)
    /\ UNCHANGED grantCalm

(* That the grant could not be set back is only logged: the vault is sent. *)
OpenUnsaved(r) ==
    /\ Holds(r)
    /\ grantCalls[r].op = "open"
    /\ Made(r)
    /\ approved' = FALSE
    /\ grantCalm' = FALSE
    /\ EndGrantCall(r)
    /\ UNCHANGED grant

DeleteGrant(r) ==
    /\ grantCalls[r] = Revoking
    /\ grant' = NoGrant
    /\ EndGrantCall(r)
    /\ UNCHANGED <<events, approved, grantCalm>>

(* An error or a crash ends a request. *)
FailGrant(r) ==
    /\ grantCalls[r] # Idle
    /\ EndGrantCall(r)
    /\ UNCHANGED <<grant, events, approved, grantCalm>>

AskGrant(r) ==
    \/ AcceptGrant(r)
    \/ ConfirmGrant(r)
    \/ RequestRecovery(r)
    \/ ApproveRecovery(r)
    \/ RejectRecovery(r)
    \/ GetVaultForRecovery(r)
    \/ RevokeGrant(r)

EndGrant(r) ==
    \/ SaveGrant(r)
    \/ OpenUnsaved(r)
    \/ DeleteGrant(r)
    \/ FailGrant(r)

GrantNext ==
    \/ InviteContact
    \/ \E r \in GrantRequests : AskGrant(r)
    \/ \E r \in GrantRequests : EndGrant(r)

GrantSpec == GrantInit /\ [][GrantNext]_grantVars

-----------------------------------------------------------------------------
(* Properties. *)

Consent == INSTANCE RecoveryConsent WITH past <- events

(* However the requests overlap, fail and write stale rows back, the vault *)
(* is opened only after a consent to a request of a confirmed contact.     *)
OpenedByConsent == Consent!ConsentSpec

(* One approval gives one reading of the vault (as long as requests do not *)
(* overlap and setting the grant back does not fail).                      *)
OneReadingPerApproval ==
    [][\A r \in GrantRequests :
          GetVaultForRecovery(r) /\ grantCalm' => approved]_grantVars
=============================================================================

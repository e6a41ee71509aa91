---------------------------- MODULE AccessProofs ----------------------------
(***************************************************************************)
(* Who gets access: the two ways to a vault without its owner's master     *)
(* password, for any number of overlapping requests.                       *)
(*                                                                         *)
(* Emergency access, with stale rows saved and deleted rows inserted       *)
(* again, implements the order of events RecoveryConsent promises, and one *)
(* approval gives one reading.  Single sign-on, for any organizations and  *)
(* connections: a connection with the escrow on finds a key, and each      *)
(* user's escrow is wrapped with the key the organization has, and every   *)
(* row keeps its type.  And while requests come one by one the state of a  *)
(* login opens one session.                                                *)
(***************************************************************************)
EXTENDS EmergencyAccess, SsoLogin, FiniteSetTheorems, SequenceTheorems,
        WellFoundedInduction, TLAPS

-----------------------------------------------------------------------------
(* Emergency access. *)

(* The events a row of that status has behind it. *)
Behind(status) ==
    CASE status = "invited"            -> {"invite"}
      [] status = "accepted"           -> {"invite", "accept"}
      [] status = "confirmed"          -> {"invite", "accept", "confirm"}
      [] status = "recovery_requested" -> {"invite", "accept", "confirm", "ask"}
      [] status = "recovery_rejected"  -> {"invite", "accept", "confirm", "ask"}
      [] status = "recovery_approved"  -> {"invite", "accept", "confirm", "ask", "consent"}

(* What a write makes happen. *)
MadeBy(op) == {op} \ {"reject"}

(* A write under way may happen, and its row tells no more than what has   *)
(* happened and what the write itself makes happen.                        *)
FrameFollows(frame) ==
    /\ frame.op # "reject" => Consent!Needs(frame.op) \subseteq events
    /\ Behind(frame.row.status) \subseteq events \cup MadeBy(frame.op)

GrantInv ==
    /\ GrantTypeOK
    /\ grant # NoGrant => Behind(grant.status) \subseteq events
    /\ \A r \in GrantRequests : grantCalls[r] \in GrantCall => FrameFollows(grantCalls[r])

-----------------------------------------------------------------------------
(* A request that read a row of the table goes on with a write that        *)
(* follows from it.                                                        *)
LEMMA ReadPreserves ==
    ASSUME GrantInv, NEW r \in GrantRequests, NEW status, NEW op \in GrantWrites,
           NEW row \in Grant, ReadGrant(r, status, op, row),
           FrameFollows([op |-> op, row |-> row])
    PROVE  GrantInv' /\ UNCHANGED events
<1> USE DEF GrantInv, ReadGrant
<1>1. GrantTypeOK'
  BY DEF GrantTypeOK, GrantCall
<1>2. ASSUME NEW q \in GrantRequests, grantCalls'[q] \in GrantCall
      PROVE  FrameFollows(grantCalls[q])'
  <2>1. CASE q = r
    <3>1. grantCalls'[q] = [op |-> op, row |-> row]
      BY <2>1 DEF GrantTypeOK
    <3> QED BY <3>1 DEF FrameFollows
  <2>2. CASE q # r
    <3>1. grantCalls'[q] = grantCalls[q]
      BY <2>2 DEF GrantTypeOK
    <3> QED BY <1>2, <3>1 DEF FrameFollows
  <2> QED BY <2>1, <2>2
<1>3. grant' # NoGrant => Behind(grant'.status) \subseteq events'
  OBVIOUS
<1> QED BY <1>1, <1>2, <1>3

(* A row keeps its type when its status or one of its columns is set. *)
LEMMA StatusSet ==
    ASSUME NEW row \in Grant, NEW status \in GrantStatus
    PROVE  /\ [row EXCEPT !.status = status] \in Grant
           /\ [row EXCEPT !.status = status].status = status
BY DEF Grant

LEMMA ColumnSet ==
    ASSUME NEW row \in Grant, NEW value \in BOOLEAN,
           NEW to \in {[row EXCEPT !.grantee = value], [row EXCEPT !.key = value],
                       [row EXCEPT !.asked = value], [row EXCEPT !.consented = value]}
    PROVE  to \in Grant /\ to.status = row.status
<1>1. CASE to = [row EXCEPT !.grantee = value]
  BY <1>1 DEF Grant
<1>2. CASE to = [row EXCEPT !.key = value]
  BY <1>2 DEF Grant
<1>3. CASE to = [row EXCEPT !.asked = value]
  BY <1>3 DEF Grant
<1>4. CASE to = [row EXCEPT !.consented = value]
  BY <1>4 DEF Grant
<1> QED BY <1>1, <1>2, <1>3, <1>4

(* Every operation but the revocation is such a request. *)
LEMMA AskPreserves ==
    ASSUME GrantInv, NEW r \in GrantRequests, AskGrant(r)
    PROVE  GrantInv' /\ UNCHANGED events
<1>1. ASSUME NEW op \in GrantWrites, NEW row \in Grant, NEW status,
             ReadGrant(r, status, op, row),
             op # "reject" => Consent!Needs(op) \subseteq Behind(status),
             Behind(row.status) \subseteq Behind(status) \cup MadeBy(op)
      PROVE  GrantInv' /\ UNCHANGED events
  <2>1. Behind(status) \subseteq events
    BY <1>1 DEF GrantInv, ReadGrant
  <2>2. FrameFollows([op |-> op, row |-> row])
    BY <1>1, <2>1 DEF FrameFollows
  <2> QED BY <1>1, <2>2, ReadPreserves
<1>2. grant # NoGrant => grant \in Grant
  BY DEF GrantInv, GrantTypeOK
<1>3. CASE AcceptGrant(r)
  <2> DEFINE one == [grant EXCEPT !.status = "accepted"]
             two == [one EXCEPT !.grantee = TRUE]
  <2>1. grant # NoGrant /\ ReadGrant(r, "invited", "accept", two)
    BY <1>3 DEF AcceptGrant, ReadGrant
  <2>2. one \in Grant /\ one.status = "accepted"
    BY <1>2, <2>1, StatusSet DEF GrantStatus
  <2> HIDE DEF one
  <2>3. two \in Grant /\ two.status = "accepted"
    BY <2>2, ColumnSet
  <2> HIDE DEF two
  <2>4. /\ "accept" # "reject" => Consent!Needs("accept") \subseteq Behind("invited")
        /\ Behind("accepted") \subseteq Behind("invited") \cup MadeBy("accept")
    BY DEF Consent!Needs, Behind, MadeBy
  <2> QED BY <1>1, <2>1, <2>3, <2>4 DEF GrantWrites
<1>4. CASE ConfirmGrant(r)
  <2> DEFINE one == [grant EXCEPT !.status = "confirmed"]
             two == [one EXCEPT !.key = TRUE]
  <2>1. grant # NoGrant /\ ReadGrant(r, "accepted", "confirm", two)
    BY <1>4 DEF ConfirmGrant, ReadGrant
  <2>2. one \in Grant /\ one.status = "confirmed"
    BY <1>2, <2>1, StatusSet DEF GrantStatus
  <2> HIDE DEF one
  <2>3. two \in Grant /\ two.status = "confirmed"
    BY <2>2, ColumnSet
  <2> HIDE DEF two
  <2>4. /\ "confirm" # "reject" => Consent!Needs("confirm") \subseteq Behind("accepted")
        /\ Behind("confirmed") \subseteq Behind("accepted") \cup MadeBy("confirm")
    BY DEF Consent!Needs, Behind, MadeBy
  <2> QED BY <1>1, <2>1, <2>3, <2>4 DEF GrantWrites
<1>5. CASE RequestRecovery(r)
  <2> DEFINE one == [grant EXCEPT !.status = "recovery_requested"]
             two == [one EXCEPT !.asked = TRUE]
  <2>1. grant # NoGrant /\ ReadGrant(r, "confirmed", "ask", two)
    BY <1>5 DEF RequestRecovery, ReadGrant
  <2>2. one \in Grant /\ one.status = "recovery_requested"
    BY <1>2, <2>1, StatusSet DEF GrantStatus
  <2> HIDE DEF one
  <2>3. two \in Grant /\ two.status = "recovery_requested"
    BY <2>2, ColumnSet
  <2> HIDE DEF two
  <2>4. /\ "ask" # "reject" => Consent!Needs("ask") \subseteq Behind("confirmed")
        /\ Behind("recovery_requested") \subseteq Behind("confirmed") \cup MadeBy("ask")
    BY DEF Consent!Needs, Behind, MadeBy
  <2> QED BY <1>1, <2>1, <2>3, <2>4 DEF GrantWrites
<1>6. CASE ApproveRecovery(r)
  <2> DEFINE one == [grant EXCEPT !.status = "recovery_approved"]
             two == [one EXCEPT !.consented = TRUE]
  <2>1. grant # NoGrant /\ ReadGrant(r, "recovery_requested", "consent", two)
    BY <1>6 DEF ApproveRecovery, ReadGrant
  <2>2. one \in Grant /\ one.status = "recovery_approved"
    BY <1>2, <2>1, StatusSet DEF GrantStatus
  <2> HIDE DEF one
  <2>3. two \in Grant /\ two.status = "recovery_approved"
    BY <2>2, ColumnSet
  <2> HIDE DEF two
  <2>4. /\ "consent" # "reject" => Consent!Needs("consent") \subseteq Behind("recovery_requested")
        /\ Behind("recovery_approved") \subseteq Behind("recovery_requested") \cup MadeBy("consent")
    BY DEF Consent!Needs, Behind, MadeBy
  <2> QED BY <1>1, <2>1, <2>3, <2>4 DEF GrantWrites
<1>7. CASE RejectRecovery(r)
  <2> DEFINE one == [grant EXCEPT !.status = "recovery_rejected"]
  <2>1. grant # NoGrant /\ ReadGrant(r, "recovery_requested", "reject", one)
    BY <1>7 DEF RejectRecovery, ReadGrant
  <2>2. one \in Grant /\ one.status = "recovery_rejected"
    BY <1>2, <2>1, StatusSet DEF GrantStatus
  <2> HIDE DEF one
  <2>3. /\ "reject" # "reject" => Consent!Needs("reject") \subseteq Behind("recovery_requested")
        /\ Behind("recovery_rejected") \subseteq Behind("recovery_requested") \cup MadeBy("reject")
    BY DEF Consent!Needs, Behind, MadeBy
  <2> QED BY <1>1, <2>1, <2>2, <2>3 DEF GrantWrites
<1>8. CASE GetVaultForRecovery(r)
  <2> DEFINE one == [grant EXCEPT !.status = "confirmed"]
             two == [one EXCEPT !.asked = FALSE]
             three == [two EXCEPT !.consented = FALSE]
  <2>1. grant # NoGrant /\ ReadGrant(r, "recovery_approved", "open", three)
    BY <1>8 DEF GetVaultForRecovery, ReadGrant
  <2>2. one \in Grant /\ one.status = "confirmed"
    BY <1>2, <2>1, StatusSet DEF GrantStatus
  <2> HIDE DEF one
  <2>3. two \in Grant /\ two.status = "confirmed"
    BY <2>2, ColumnSet
  <2> HIDE DEF two
  <2>4. three \in Grant /\ three.status = "confirmed"
    BY <2>3, ColumnSet
  <2> HIDE DEF three
  <2>5. /\ "open" # "reject" => Consent!Needs("open") \subseteq Behind("recovery_approved")
        /\ Behind("confirmed") \subseteq Behind("recovery_approved") \cup MadeBy("open")
    BY DEF Consent!Needs, Behind, MadeBy
  <2> QED BY <1>1, <2>1, <2>4, <2>5 DEF GrantWrites
<1>9. CASE RevokeGrant(r)
  <2>1. GrantTypeOK'
    BY <1>9 DEF GrantInv, GrantTypeOK, RevokeGrant
  <2>2. Revoking \notin GrantCall
    BY DEF Revoking, GrantCall
  <2>3. \A q \in GrantRequests : grantCalls'[q] \in GrantCall => grantCalls'[q] = grantCalls[q]
    BY <1>9, <2>2 DEF GrantInv, GrantTypeOK, RevokeGrant
  <2> QED BY <1>9, <2>1, <2>3 DEF GrantInv, RevokeGrant, FrameFollows
<1> QED BY <1>3, <1>4, <1>5, <1>6, <1>7, <1>8, <1>9 DEF AskGrant

-----------------------------------------------------------------------------
(* A write happens in its order, however old what it read. *)
LEMMA SavePreserves ==
    ASSUME GrantInv, NEW r \in GrantRequests, Holds(r), Made(r), EndGrantCall(r),
           grant' \in {grant, grantCalls[r].row},
           Behind(grantCalls[r].row.status) \subseteq events',
           approved' \in BOOLEAN, grantCalm' \in BOOLEAN
    PROVE  GrantInv' /\ (Consent!ConsentNext \/ UNCHANGED events)
<1>1. grantCalls[r] \in GrantCall
  BY DEF Holds, GrantInv, GrantTypeOK
<1>2. /\ FrameFollows(grantCalls[r])
      /\ grantCalls[r].op \in GrantWrites /\ grantCalls[r].row \in Grant
  BY <1>1 DEF GrantInv, GrantCall
<1>3. events \subseteq events' /\ events' = events \cup MadeBy(grantCalls[r].op)
  BY DEF Made, MadeBy
<1>4. GrantTypeOK'
  <2>1. events' \subseteq {"invite", "accept", "confirm", "ask", "consent", "open"}
    BY <1>2, <1>3 DEF GrantInv, GrantTypeOK, MadeBy, GrantWrites
  <2> QED BY <1>2, <2>1 DEF GrantInv, GrantTypeOK, EndGrantCall
<1>5. Idle \notin GrantCall
  BY DEF Idle, GrantCall
<1>6. \A q \in GrantRequests : grantCalls'[q] \in GrantCall => grantCalls'[q] = grantCalls[q]
  BY <1>5 DEF GrantInv, GrantTypeOK, EndGrantCall
<1>7. GrantInv'
  BY <1>3, <1>4, <1>6 DEF GrantInv, FrameFollows
<1>8. Consent!ConsentNext \/ UNCHANGED events
  <2>1. CASE grantCalls[r].op = "reject"
    BY <1>3, <2>1 DEF MadeBy, GrantInv, GrantTypeOK
  <2>2. CASE grantCalls[r].op # "reject"
    BY <1>2, <1>3, <2>2
       DEF MadeBy, FrameFollows, GrantWrites, Consent!ConsentNext, Consent!Happen, Consent!Events
  <2> QED BY <2>1, <2>2
<1> QED BY <1>7, <1>8

LEMMA EndPreserves ==
    ASSUME GrantInv, NEW r \in GrantRequests, EndGrant(r)
    PROVE  GrantInv' /\ (Consent!ConsentNext \/ UNCHANGED events)
<1>1. ASSUME Holds(r), Made(r)
      PROVE  Behind(grantCalls[r].row.status) \subseteq events'
  BY <1>1 DEF Holds, Made, MadeBy, GrantInv, GrantTypeOK, FrameFollows
<1>2. CASE SaveGrant(r)
  BY <1>1, <1>2, SavePreserves DEF SaveGrant, GrantInv, GrantTypeOK
<1>3. CASE OpenUnsaved(r)
  BY <1>1, <1>3, SavePreserves DEF OpenUnsaved
<1>4. ASSUME EndGrantCall(r), grant' \in {grant, NoGrant}, UNCHANGED <<events, approved, grantCalm>>
      PROVE  GrantInv' /\ UNCHANGED events
  <2>1. Idle \notin GrantCall
    BY DEF Idle, GrantCall
  <2>2. \A q \in GrantRequests : grantCalls'[q] \in GrantCall => grantCalls'[q] = grantCalls[q]
    BY <1>4, <2>1 DEF GrantInv, GrantTypeOK, EndGrantCall
  <2>3. GrantTypeOK'
    BY <1>4 DEF GrantInv, GrantTypeOK, EndGrantCall
  <2> QED BY <1>4, <2>2, <2>3 DEF GrantInv, FrameFollows
<1>5. CASE DeleteGrant(r)
  BY <1>4, <1>5 DEF DeleteGrant
<1>6. CASE FailGrant(r)
  BY <1>4, <1>6 DEF FailGrant
<1> QED BY <1>2, <1>3, <1>5, <1>6 DEF EndGrant

LEMMA InvitePreserves ==
    ASSUME GrantInv, InviteContact
    PROVE  GrantInv' /\ Consent!ConsentNext
<1> USE DEF GrantInv, InviteContact
<1>1. grant' \in Grant /\ Behind(grant'.status) \subseteq events'
  BY DEF Grant, GrantStatus, Behind
<1>2. GrantTypeOK'
  BY <1>1 DEF GrantTypeOK
<1>3. \A r \in GrantRequests : grantCalls'[r] \in GrantCall => FrameFollows(grantCalls[r])'
  BY DEF FrameFollows
<1>4. Consent!ConsentNext
  BY DEF Consent!ConsentNext, Consent!Happen, Consent!Events, Consent!Needs
<1> QED BY <1>1, <1>2, <1>3, <1>4

(* Every step keeps the invariant, and is an event in its order, or none. *)
LEMMA GrantStep ==
    ASSUME GrantInv, [GrantNext]_grantVars
    PROVE  GrantInv' /\ [Consent!ConsentNext]_events
<1>1. CASE UNCHANGED grantVars
  BY <1>1 DEF grantVars, GrantInv, GrantTypeOK, FrameFollows
<1> QED BY <1>1, InvitePreserves, AskPreserves, EndPreserves DEF GrantNext

LEMMA GrantInitInv == GrantInit => GrantInv /\ Consent!ConsentInit
<1>1. Idle \notin GrantCall
  BY DEF Idle, GrantCall
<1> QED BY <1>1 DEF GrantInit, GrantInv, GrantTypeOK, Consent!ConsentInit

(* The rows, whatever is written back to them, keep their types. *)
THEOREM GrantTyped == GrantSpec => []GrantTypeOK
<1>1. GrantInv => GrantTypeOK
  BY DEF GrantInv
<1> QED BY <1>1, GrantInitInv, GrantStep, PTL DEF GrantSpec

(* Emergency access refines the promised order: the vault is opened only   *)
(* after a consent to a request of a confirmed contact.                    *)
THEOREM ConsentOrder == GrantSpec => OpenedByConsent
<1> QED BY GrantInitInv, GrantStep, PTL DEF GrantSpec, OpenedByConsent, Consent!ConsentSpec

-----------------------------------------------------------------------------
(* A row says "approved" only if it was approved and not read since, unless*)
(* setting it back failed; and of the rows about to be saved only that of  *)
(* an approval says so.                                                    *)
ReadingInv ==
    /\ grantCalm /\ grant # NoGrant /\ grant.status = "recovery_approved" => approved
    /\ \A r \in GrantRequests :
          grantCalls[r] \in GrantCall /\ grantCalls[r].row.status = "recovery_approved"
              => grantCalls[r].op = "consent"

LEMMA ReadKeepsReading ==
    ASSUME GrantTypeOK, ReadingInv, NEW r \in GrantRequests, NEW status, NEW op, NEW row,
           ReadGrant(r, status, op, row),
           row.status = "recovery_approved" => op = "consent"
    PROVE  ReadingInv'
<1>1. /\ \A q \in GrantRequests \ {r} : grantCalls'[q] = grantCalls[q]
      /\ grantCalls'[r] = [op |-> op, row |-> row]
  BY DEF ReadGrant, GrantTypeOK
<1>2. \A q \in GrantRequests :
         grantCalls'[q] \in GrantCall /\ grantCalls'[q].row.status = "recovery_approved"
             => grantCalls'[q].op = "consent"
  BY <1>1 DEF ReadingInv
<1> QED BY <1>2 DEF ReadingInv, ReadGrant

LEMMA AskKeepsReading ==
    ASSUME GrantTypeOK, ReadingInv, NEW r \in GrantRequests, AskGrant(r)
    PROVE  ReadingInv'
<1>1. \A from, op, row : ReadGrant(r, from, op, row) => grant \in Grant
  BY DEF ReadGrant, GrantTypeOK
<1>2. grant \in Grant =>
        \A status :
           /\ [grant EXCEPT !.status = status].status = status
           /\ [grant EXCEPT !.status = status, !.grantee = TRUE].status = status
           /\ [grant EXCEPT !.status = status, !.key = TRUE].status = status
           /\ [grant EXCEPT !.status = status, !.asked = TRUE].status = status
           /\ [grant EXCEPT !.status = status, !.asked = FALSE,
                            !.consented = FALSE].status = status
  BY DEF Grant
<1>3. CASE AcceptGrant(r)
  <2> DEFINE row == [grant EXCEPT !.status = "accepted", !.grantee = TRUE]
  <2>1. ReadGrant(r, "invited", "accept", row)
    BY <1>3 DEF AcceptGrant
  <2>2. row.status = "accepted"
    BY <1>1, <1>2, <2>1
  <2> HIDE DEF row
  <2> QED BY <2>1, <2>2, ReadKeepsReading
<1>4. CASE ConfirmGrant(r)
  <2> DEFINE row == [grant EXCEPT !.status = "confirmed", !.key = TRUE]
  <2>1. ReadGrant(r, "accepted", "confirm", row)
    BY <1>4 DEF ConfirmGrant
  <2>2. row.status = "confirmed"
    BY <1>1, <1>2, <2>1
  <2> HIDE DEF row
  <2> QED BY <2>1, <2>2, ReadKeepsReading
<1>5. CASE RequestRecovery(r)
  <2> DEFINE row == [grant EXCEPT !.status = "recovery_requested", !.asked = TRUE]
  <2>1. ReadGrant(r, "confirmed", "ask", row)
    BY <1>5 DEF RequestRecovery
  <2>2. row.status = "recovery_requested"
    BY <1>1, <1>2, <2>1
  <2> HIDE DEF row
  <2> QED BY <2>1, <2>2, ReadKeepsReading
<1>6. CASE ApproveRecovery(r)
  BY <1>6, ReadKeepsReading DEF ApproveRecovery
<1>7. CASE RejectRecovery(r)
  <2> DEFINE row == [grant EXCEPT !.status = "recovery_rejected"]
  <2>1. ReadGrant(r, "recovery_requested", "reject", row)
    BY <1>7 DEF RejectRecovery
  <2>2. row.status = "recovery_rejected"
    BY <1>1, <1>2, <2>1
  <2> HIDE DEF row
  <2> QED BY <2>1, <2>2, ReadKeepsReading
<1>8. CASE GetVaultForRecovery(r)
  <2> DEFINE row == [grant EXCEPT !.status = "confirmed", !.asked = FALSE,
                                  !.consented = FALSE]
  <2>1. ReadGrant(r, "recovery_approved", "open", row)
    BY <1>8 DEF GetVaultForRecovery
  <2>2. row.status = "confirmed"
    BY <1>1, <1>2, <2>1
  <2> HIDE DEF row
  <2> QED BY <2>1, <2>2, ReadKeepsReading
<1>9. CASE RevokeGrant(r)
  <2>1. \A q \in GrantRequests : grantCalls'[q] \in GrantCall => grantCalls'[q] = grantCalls[q]
    BY <1>9 DEF RevokeGrant, GrantTypeOK, Revoking, GrantCall
  <2> QED BY <1>9, <2>1 DEF RevokeGrant, ReadingInv
<1> QED BY <1>3, <1>4, <1>5, <1>6, <1>7, <1>8, <1>9 DEF AskGrant

LEMMA EndKeepsReading ==
    ASSUME GrantTypeOK, ReadingInv, NEW r \in GrantRequests, EndGrant(r)
    PROVE  ReadingInv'
<1>1. EndGrantCall(r)
  BY DEF EndGrant, SaveGrant, OpenUnsaved, DeleteGrant, FailGrant
<1>2. \A q \in GrantRequests : grantCalls'[q] \in GrantCall => grantCalls'[q] = grantCalls[q]
  BY <1>1 DEF EndGrantCall, GrantTypeOK, Idle, GrantCall
<1>3. CASE SaveGrant(r)
  <2>1. grantCalls[r] \in GrantCall
    BY <1>3 DEF SaveGrant, Holds, GrantTypeOK
  <2>2. grantCalls[r].row.status = "recovery_approved" => approved'
    BY <1>3, <2>1 DEF ReadingInv, SaveGrant
  <2> QED BY <1>2, <1>3, <2>2 DEF ReadingInv, SaveGrant
<1>4. CASE OpenUnsaved(r)
  BY <1>2, <1>4 DEF ReadingInv, OpenUnsaved
<1>5. CASE DeleteGrant(r) \/ FailGrant(r)
  BY <1>2, <1>5 DEF ReadingInv, DeleteGrant, FailGrant
<1> QED BY <1>3, <1>4, <1>5 DEF EndGrant

(* One approval gives one reading of the vault, unless setting the row     *)
(* back failed (which GetVaultForRecovery only logs): a row that can be    *)
(* read was approved and not read since, however stale what is saved is.   *)
THEOREM OneReading == GrantSpec => OneReadingPerApproval
<1>1. GrantInit => ReadingInv
  BY DEF GrantInit, ReadingInv, Idle, GrantCall
<1>2. GrantInv /\ ReadingInv /\ [GrantNext]_grantVars => ReadingInv'
  <2> SUFFICES ASSUME GrantTypeOK, ReadingInv, [GrantNext]_grantVars PROVE ReadingInv'
    BY DEF GrantInv
  <2>1. CASE UNCHANGED grantVars
    BY <2>1 DEF grantVars, ReadingInv
  <2>2. CASE InviteContact
    BY <2>2 DEF InviteContact, ReadingInv
  <2> QED BY <2>1, <2>2, AskKeepsReading, EndKeepsReading DEF GrantNext
<1>3. ReadingInv => [\A r \in GrantRequests :
                        GetVaultForRecovery(r) /\ grantCalm' => approved]_grantVars
  BY DEF ReadingInv, GetVaultForRecovery, ReadGrant
<1> QED BY <1>1, <1>2, <1>3, GrantInitInv, GrantStep, PTL DEF GrantSpec, OneReadingPerApproval

-----------------------------------------------------------------------------
(* Single sign-on and the escrow. *)

TablesTyped ==
    /\ DOMAIN connections \subseteq 1..MaxConnections
    /\ connections \in [DOMAIN connections -> Connection]
    /\ DOMAIN logins \subseteq 1..MaxLogins
    /\ logins \in [DOMAIN logins -> Login]
    /\ escrowKeys \in [SsoOrgs -> 0..MaxKeys]
    /\ enrolments \in [DOMAIN enrolments -> Enrolment]
    /\ newest \in NewestIds
    /\ ssoCalm \in BOOLEAN

CallsTyped == ssoCalls \in [SsoRequests -> SsoFrame \cup {NoSso}]

(* A row about to be written has the escrow on only once the organization  *)
(* has a key, and an enrolment about to be inserted has that key.          *)
FrameServes(f) ==
    /\ f.pc = "insert" => ~f.row.escrow
    /\ f.pc \in {"findKey", "insertKey", "save"} => f.id \in 1..MaxConnections
    /\ f.pc = "save" /\ f.row.escrow => escrowKeys[f.row.org] # 0
    /\ f.pc = "enrol" => f.key # 0 /\ f.key = escrowKeys[f.org]

FramesServe == \A r \in SsoRequests : FrameServes(ssoCalls[r])

SsoInv == TablesTyped /\ CallsTyped /\ EscrowKeyServes /\ FramesServe

(* A key the organization has is not replaced. *)
KeysStay == \A o \in SsoOrgs : escrowKeys[o] # 0 => escrowKeys'[o] = escrowKeys[o]

-----------------------------------------------------------------------------
(* The program counter tells the kinds of frames apart. *)
LEMMA FrameKinds ==
    ASSUME NEW f \in SsoFrame \cup {NoSso}
    PROVE  /\ f.pc \in {"insert", "findKey", "insertKey", "save"} => f \in ConnectionFrame
           /\ f.pc \in {"wrap", "enrol"} => f \in EscrowFrame
           /\ f.pc \in {"connect", "complete", "finish"} => f \in LoginFrame
BY DEF SsoFrame, NoSso, ConnectionFrame, EscrowFrame, LoginFrame

(* A frame that serves does so as long as keys stay. *)
LEMMA FramesKept ==
    ASSUME SsoInv, KeysStay, NEW q \in SsoRequests
    PROVE  /\ ssoCalls[q].pc = "save" /\ ssoCalls[q].row.escrow
                 => escrowKeys'[ssoCalls[q].row.org] # 0
           /\ ssoCalls[q].pc = "enrol"
                 => ssoCalls[q].key = escrowKeys'[ssoCalls[q].org]
<1> DEFINE f == ssoCalls[q]
<1>1. f \in SsoFrame \cup {NoSso} /\ FrameServes(f)
  BY DEF SsoInv, CallsTyped, FramesServe
<1>2. /\ f.pc = "save" => f \in ConnectionFrame
      /\ f.pc = "enrol" => f \in EscrowFrame
  BY <1>1, FrameKinds
<1> HIDE DEF f
<1>3. ASSUME f.pc = "save", f.row.escrow
      PROVE  escrowKeys'[f.row.org] # 0
  <2>1. f.row.org \in SsoOrgs
    BY <1>2, <1>3 DEF ConnectionFrame, Connection
  <2> QED BY <1>1, <1>3, <2>1 DEF FrameServes, KeysStay
<1>4. ASSUME f.pc = "enrol"
      PROVE  f.key = escrowKeys'[f.org]
  <2>1. f.org \in SsoOrgs
    BY <1>2, <1>4 DEF EscrowFrame
  <2> QED BY <1>1, <1>4, <2>1 DEF FrameServes, KeysStay
<1> QED BY <1>3, <1>4 DEF f

(* So a step need only look at the frame it writes. *)
LEMMA FrameStep ==
    ASSUME SsoInv, KeysStay, NEW r \in SsoRequests,
           NEW f \in SsoFrame \cup {NoSso},
           ssoCalls' = [ssoCalls EXCEPT ![r] = f],
           f.pc = "insert" => ~f.row.escrow,
           f.pc \in {"findKey", "insertKey", "save"} => f.id \in 1..MaxConnections,
           f.pc = "save" /\ f.row.escrow => escrowKeys'[f.row.org] # 0,
           f.pc = "enrol" => f.key # 0 /\ f.key = escrowKeys'[f.org]
    PROVE  CallsTyped' /\ FramesServe'
<1>1. CallsTyped'
  BY DEF SsoInv, CallsTyped
<1>2. ASSUME NEW q \in SsoRequests
      PROVE  FrameServes(ssoCalls[q])'
  <2>1. CASE q = r
    <3>1. ssoCalls'[q] = f
      BY <2>1 DEF SsoInv, CallsTyped
    <3> QED BY <3>1 DEF FrameServes
  <2>2. CASE q # r
    <3>1. ssoCalls'[q] = ssoCalls[q]
      BY <2>2 DEF SsoInv, CallsTyped
    <3>2. FrameServes(ssoCalls[q])
      BY DEF SsoInv, FramesServe
    <3> QED BY <3>1, <3>2, FramesKept DEF FrameServes
  <2> QED BY <2>1, <2>2
<1> QED BY <1>1, <1>2 DEF FramesServe

LEMMA CallsUnchanged ==
    ASSUME SsoInv, UNCHANGED <<ssoCalls, escrowKeys>>
    PROVE  CallsTyped' /\ FramesServe'
BY DEF SsoInv, CallsTyped, FramesServe, FrameServes

(* A request that only reads and goes on. *)
LEMMA MoveServes ==
    ASSUME SsoInv, NEW r \in SsoRequests, NEW f \in SsoFrame \cup {NoSso},
           ssoCalls' = [ssoCalls EXCEPT ![r] = f],
           UNCHANGED <<connections, logins, escrowKeys, enrolments, newest>>,
           ssoCalm' \in BOOLEAN, FrameServes(f)
    PROVE  SsoInv'
<1>1. TablesTyped' /\ EscrowKeyServes'
  BY DEF SsoInv, TablesTyped, EscrowKeyServes
<1>2. KeysStay
  BY DEF KeysStay
<1>3. CallsTyped' /\ FramesServe'
  BY <1>2, FrameStep DEF FrameServes
<1> QED BY <1>1, <1>3 DEF SsoInv

-----------------------------------------------------------------------------
(* The first statements of requests. *)
LEMMA AskServes ==
    ASSUME SsoInv, NEW r \in SsoRequests, AskSso(r)
    PROVE  SsoInv'
<1>1. ASSUME NEW f \in SsoFrame, FrameServes(f), SsoRequest(r, f)
      PROVE  SsoInv'
  BY <1>1, MoveServes DEF SsoRequest, SsoTables
<1>2. \A c \in DOMAIN connections :
         /\ connections[c] \in Connection
         /\ connections[c].escrow => escrowKeys[connections[c].org] # 0
         /\ c \in 1..MaxConnections /\ c \in 0..MaxConnections
  BY SsoAssumption DEF SsoInv, TablesTyped, EscrowKeyServes
<1>3. ASSUME NEW pc \in {"insert", "save", "findKey"}, NEW id \in 0..MaxConnections,
             NEW row \in Connection, SsoRequest(r, Writing(pc, id, row)),
             pc = "insert" => ~row.escrow,
             pc \in {"findKey", "save"} => id \in 1..MaxConnections,
             pc = "save" /\ row.escrow => escrowKeys[row.org] # 0
      PROVE  SsoInv'
  <2>1. Writing(pc, id, row) \in SsoFrame
    BY DEF Writing, SsoFrame, ConnectionFrame
  <2>2. FrameServes(Writing(pc, id, row))
    BY <1>3 DEF Writing, FrameServes
  <2> QED BY <1>1, <1>3, <2>1, <2>2
<1>4. ASSUME NEW o \in SsoOrgs, NEW d \in SsoDomains, NEW b \in BOOLEAN,
             CreateConnection(r, o, d, b)
      PROVE  SsoInv'
  <2> DEFINE row == [org |-> o, domain |-> d, configured |-> b,
                     escrow |-> FALSE, status |-> "draft"]
  <2>1. row \in Connection /\ ~row.escrow
    BY DEF Connection
  <2>2. SsoRequest(r, Writing("insert", 0, row))
    BY <1>4 DEF CreateConnection
  <2>3. 0 \in 0..MaxConnections
    BY SsoAssumption
  <2> HIDE DEF row
  <2> QED BY <1>3, <2>1, <2>2, <2>3
<1>5. ASSUME NEW c \in DOMAIN connections, NEW d \in SsoDomains, NEW b \in BOOLEAN,
             NEW s \in {"active", "inactive"}, UpdateConnection(r, c, d, b, s)
      PROVE  SsoInv'
  <2> DEFINE one == [connections[c] EXCEPT !.domain = d]
             two == [one EXCEPT !.status = s]
             row == [two EXCEPT !.configured = b]
  <2>1. SsoRequest(r, Writing("save", c, row))
    BY <1>5 DEF UpdateConnection
  <2>2. /\ one \in Connection /\ one.org = connections[c].org
        /\ one.escrow = connections[c].escrow
    BY <1>2 DEF Connection
  <2> HIDE DEF one
  <2>3. /\ two \in Connection /\ two.org = connections[c].org
        /\ two.escrow = connections[c].escrow
    BY <2>2 DEF Connection
  <2> HIDE DEF two
  <2>4. /\ row \in Connection /\ row.org = connections[c].org
        /\ row.escrow = connections[c].escrow
    BY <2>3 DEF Connection
  <2> HIDE DEF row
  <2> QED BY <1>2, <1>3, <2>1, <2>4
<1>6. ASSUME NEW c \in DOMAIN connections, NEW b \in BOOLEAN, UpdateEscrow(r, c, b)
      PROVE  SsoInv'
  <2> DEFINE row == [connections[c] EXCEPT !.escrow = b]
  <2>1. row \in Connection /\ row.escrow = b
    BY <1>2 DEF Connection
  <2>2. SsoRequest(r, Writing(IF b THEN "findKey" ELSE "save", c, row))
    BY <1>6 DEF UpdateEscrow
  <2> HIDE DEF row
  <2>3. CASE b
    BY <1>2, <1>3, <2>1, <2>2, <2>3
  <2>4. CASE ~b
    BY <1>2, <1>3, <2>1, <2>2, <2>4
  <2> QED BY <2>3, <2>4
<1>7. ASSUME NEW c \in DOMAIN connections, ActivateConnection(r, c)
      PROVE  SsoInv'
  <2> DEFINE row == [connections[c] EXCEPT !.status = "active"]
  <2>1. /\ row \in Connection /\ row.org = connections[c].org
        /\ row.escrow = connections[c].escrow
    BY <1>2 DEF Connection
  <2>2. SsoRequest(r, Writing("save", c, row))
    BY <1>7 DEF ActivateConnection
  <2> HIDE DEF row
  <2> QED BY <1>2, <1>3, <2>1, <2>2
<1>8. ASSUME NEW o \in SsoOrgs, EnrollUser(r, o)
      PROVE  SsoInv'
  <2> DEFINE f == [pc |-> "wrap", org |-> o, key |-> 0]
  <2>1. f \in SsoFrame /\ FrameServes(f)
    BY SsoAssumption DEF SsoFrame, EscrowFrame, FrameServes
  <2> QED BY <1>1, <1>8, <2>1 DEF EnrollUser
<1>9. ASSUME NEW l \in DOMAIN logins, Callback(r, l)
      PROVE  SsoInv'
  <2> DEFINE f == [pc |-> "connect", login |-> l, connection |-> logins[l].connection]
  <2>1. l \in 1..MaxLogins /\ logins[l].connection \in 1..MaxConnections
    BY SsoAssumption DEF SsoInv, TablesTyped, NewestIds, Login
  <2>2. f \in SsoFrame /\ FrameServes(f)
    BY <2>1 DEF SsoFrame, LoginFrame, FrameServes
  <2> QED BY <1>1, <1>9, <2>2 DEF Callback
<1> QED BY <1>4, <1>5, <1>6, <1>7, <1>8, <1>9 DEF AskSso

-----------------------------------------------------------------------------
(* The statements that follow. *)
LEMMA WriteConnectionServes ==
    ASSUME SsoInv, NEW r \in SsoRequests, InsertConnection(r) \/ SaveConnection(r)
    PROVE  SsoInv'
<1> DEFINE f == ssoCalls[r]
<1>1. f \in SsoFrame \cup {NoSso} /\ FrameServes(f)
  BY DEF SsoInv, CallsTyped, FramesServe
<1>2. f.pc \in {"insert", "save"}
  BY DEF InsertConnection, SaveConnection, SsoAt
<1>3. f \in ConnectionFrame
  BY <1>1, <1>2, FrameKinds
<1>4. f.row \in Connection /\ f.id \in 0..MaxConnections
  BY <1>3 DEF ConnectionFrame
<1>5. f.row.escrow => escrowKeys[f.row.org] # 0
  BY <1>1, <1>2 DEF FrameServes
<1>6. KeysStay /\ escrowKeys' = escrowKeys
  BY DEF KeysStay, InsertConnection, SaveConnection
<1>7. ASSUME NEW c, connections' = PutRow(connections, c, f.row),
             UNCHANGED enrolments
      PROVE  /\ EscrowKeyServes'
             /\ connections' \in [DOMAIN connections' -> Connection]
             /\ DOMAIN connections' = DOMAIN connections \cup {c}
  BY <1>4, <1>5, <1>6, <1>7 DEF EscrowKeyServes, PutRow, SsoInv, TablesTyped
<1>8. CASE InsertConnection(r)
  <2> DEFINE c == newest.connection + 1
             g == Writing("save", c, f.row)
  <2>1. c \in 1..MaxConnections
    BY <1>8, SsoAssumption DEF InsertConnection, SsoInv, TablesTyped, NewestIds
  <2>2. g \in SsoFrame /\ g.pc = "save" /\ g.row = f.row /\ g.id = c
    BY <1>4, <2>1 DEF Writing, SsoFrame, ConnectionFrame
  <2>3. ~f.row.escrow
    BY <1>1, <1>8 DEF FrameServes, InsertConnection, SsoAt
  <2>4. CallsTyped' /\ FramesServe'
    <3>1. ssoCalls' = [ssoCalls EXCEPT ![r] = g]
      BY <1>8 DEF InsertConnection
    <3> HIDE DEF g, c
    <3> QED BY <1>6, <2>1, <2>2, <2>3, <3>1, FrameStep
  <2>5. TablesTyped' /\ EscrowKeyServes'
    <3>1. connections' = PutRow(connections, c, f.row) /\ UNCHANGED enrolments
      BY <1>8 DEF InsertConnection
    <3>2. newest' = [newest EXCEPT !.connection = c] /\ UNCHANGED <<logins, ssoCalm>>
      BY <1>8 DEF InsertConnection
    <3>3. DOMAIN connections' \subseteq 1..MaxConnections
      <4>1. DOMAIN connections' = DOMAIN connections \cup {c}
        BY <1>7, <3>1
      <4>2. DOMAIN connections \subseteq 1..MaxConnections
        BY DEF SsoInv, TablesTyped
      <4> HIDE DEF c
      <4> QED BY <2>1, <4>1, <4>2
    <3>4. newest' \in NewestIds
      <4>1. newest \in NewestIds /\ c \in 0..MaxConnections
        BY <2>1, SsoAssumption DEF SsoInv, TablesTyped
      <4> HIDE DEF c
      <4> QED BY <3>2, <4>1 DEF NewestIds
    <3> HIDE DEF c, f
    <3>5. EscrowKeyServes' /\ connections' \in [DOMAIN connections' -> Connection]
      BY <1>7, <3>1
    <3>6. UNCHANGED <<logins, escrowKeys, enrolments, ssoCalm>>
      BY <1>6, <3>1, <3>2
    <3> QED BY <3>3, <3>4, <3>5, <3>6 DEF SsoInv, TablesTyped
  <2> QED BY <2>4, <2>5 DEF SsoInv
<1>9. CASE SaveConnection(r)
  <2>1. CallsTyped' /\ FramesServe'
    <3>1. ssoCalls' = [ssoCalls EXCEPT ![r] = NoSso]
      BY <1>9 DEF SaveConnection, SsoEnd
    <3> QED BY <1>6, <3>1, FrameStep DEF NoSso
  <2>2. connections' = PutRow(connections, f.id, f.row)
    BY <1>9 DEF SaveConnection
  <2>3. UNCHANGED <<logins, enrolments, newest, ssoCalm>>
    BY <1>9 DEF SaveConnection
  <2>4. f.id \in 1..MaxConnections
    BY <1>1, <1>9 DEF FrameServes, SaveConnection, SsoAt
  <2> HIDE DEF f
  <2>5. /\ EscrowKeyServes'
        /\ connections' \in [DOMAIN connections' -> Connection]
        /\ DOMAIN connections' \subseteq 1..MaxConnections
    <3>1. DOMAIN connections \subseteq 1..MaxConnections
      BY DEF SsoInv, TablesTyped
    <3> QED BY <1>7, <2>2, <2>3, <2>4, <3>1
  <2>6. TablesTyped'
    BY <1>6, <2>3, <2>5 DEF SsoInv, TablesTyped
  <2> QED BY <2>1, <2>5, <2>6 DEF SsoInv
<1> QED BY <1>8, <1>9

(* Moving a frame of a connection on leaves the rest of it. *)
LEMMA ConnectionMoved ==
    ASSUME NEW f \in ConnectionFrame,
           NEW pc \in {"insert", "findKey", "insertKey", "save"},
           NEW g, g = [f EXCEPT !.pc = pc]
    PROVE  g \in ConnectionFrame /\ g.pc = pc /\ g.row = f.row /\ g.id = f.id
<1> DEFINE Rows == Connection
<1>1. f \in [pc: {"insert", "findKey", "insertKey", "save"},
             id: 0..MaxConnections, row: Rows]
  BY DEF ConnectionFrame
<1> HIDE DEF Rows
<1>2. g \in [pc: {"insert", "findKey", "insertKey", "save"},
             id: 0..MaxConnections, row: Rows]
  BY <1>1
<1>3. g.pc = pc
  BY <1>1
<1>4. g.row = f.row
  BY <1>1
<1>5. g.id = f.id
  BY <1>1
<1> QED BY <1>2, <1>3, <1>4, <1>5 DEF ConnectionFrame, Rows

LEMMA FindKeyServes ==
    ASSUME SsoInv, NEW r \in SsoRequests, FindKey(r)
    PROVE  SsoInv'
<1> DEFINE f == ssoCalls[r]
           pc == IF escrowKeys[f.row.org] # 0 THEN "save" ELSE "insertKey"
           g == [f EXCEPT !.pc = pc]
<1>1. f \in ConnectionFrame
  BY FrameKinds DEF FindKey, SsoAt, SsoInv, CallsTyped
<1>2. f.id \in 1..MaxConnections
  BY DEF SsoInv, FramesServe, FrameServes, FindKey, SsoAt
<1>3. ssoCalls' = [ssoCalls EXCEPT ![r] = g]
  BY DEF FindKey, SsoGoto
<1>4. pc = "save" => escrowKeys[f.row.org] # 0
  OBVIOUS
<1>5. pc \in {"save", "insertKey"}
  OBVIOUS
<1>6. g \in ConnectionFrame /\ g.pc = pc /\ g.row = f.row /\ g.id = f.id
  <2> HIDE DEF pc
  <2> QED BY <1>1, <1>5, ConnectionMoved
<1>7. UNCHANGED <<connections, logins, escrowKeys, enrolments, newest, ssoCalm>>
  BY DEF FindKey, SsoTables
<1>8. ssoCalm' \in BOOLEAN
  BY <1>7 DEF SsoInv, TablesTyped
<1> HIDE DEF g, pc, f
<1>9. FrameServes(g)
  BY <1>2, <1>4, <1>5, <1>6 DEF FrameServes
<1> QED BY <1>3, <1>6, <1>7, <1>8, <1>9, MoveServes DEF SsoFrame

LEMMA InsertKeyServes ==
    ASSUME SsoInv, NEW r \in SsoRequests, InsertKey(r)
    PROVE  SsoInv'
<1> DEFINE f == ssoCalls[r]
           k == newest.key + 1
           g == [f EXCEPT !.pc = "save"]
<1>1. f \in ConnectionFrame
  BY FrameKinds DEF InsertKey, SsoAt, SsoInv, CallsTyped
<1>2. f.id \in 1..MaxConnections /\ f.row.org \in SsoOrgs
  <2>1. f.pc = "insertKey" /\ FrameServes(f)
    BY DEF SsoInv, FramesServe, InsertKey, SsoAt
  <2>2. f.row \in Connection
    BY <1>1 DEF ConnectionFrame
  <2> QED BY <2>1, <2>2 DEF FrameServes, Connection
<1>3. ssoCalls' = [ssoCalls EXCEPT ![r] = g]
  BY DEF InsertKey, SsoGoto
<1>4. g \in ConnectionFrame /\ g.pc = "save" /\ g.row = f.row /\ g.id = f.id
  BY <1>1, ConnectionMoved
<1>5. k \in 1..MaxKeys
  BY SsoAssumption DEF InsertKey, SsoInv, TablesTyped, NewestIds
<1>6. /\ escrowKeys[f.row.org] = 0
      /\ escrowKeys' = [escrowKeys EXCEPT ![f.row.org] = k]
      /\ newest' = [newest EXCEPT !.key = k]
      /\ UNCHANGED <<connections, logins, enrolments, ssoCalm>>
  BY DEF InsertKey
<1> HIDE DEF f, g, k
<1>7. KeysStay /\ escrowKeys'[f.row.org] # 0
  BY <1>2, <1>5, <1>6 DEF KeysStay, SsoInv, TablesTyped
<1>8. CallsTyped' /\ FramesServe'
  BY <1>2, <1>3, <1>4, <1>7, FrameStep DEF SsoFrame
<1>9. TablesTyped'
  <2>1. newest' \in NewestIds
    BY <1>5, <1>6, SsoAssumption DEF SsoInv, TablesTyped, NewestIds
  <2>2. escrowKeys' \in [SsoOrgs -> 0..MaxKeys]
    BY <1>2, <1>5, <1>6, SsoAssumption DEF SsoInv, TablesTyped
  <2> QED BY <1>6, <2>1, <2>2 DEF SsoInv, TablesTyped
<1>10. EscrowKeyServes'
  <2>1. ASSUME NEW c \in DOMAIN connections, connections[c].escrow
        PROVE  escrowKeys'[connections[c].org] # 0
    BY <1>7, <2>1 DEF SsoInv, EscrowKeyServes, KeysStay, TablesTyped, Connection
  <2>2. ASSUME NEW e \in DOMAIN enrolments
        PROVE  enrolments[e].key = escrowKeys'[enrolments[e].org]
    BY <1>7 DEF SsoInv, EscrowKeyServes, KeysStay, TablesTyped, Enrolment
  <2> QED BY <1>6, <2>1, <2>2 DEF EscrowKeyServes
<1> QED BY <1>8, <1>9, <1>10 DEF SsoInv

LEMMA WrapKeyServes ==
    ASSUME SsoInv, NEW r \in SsoRequests, WrapKey(r)
    PROVE  SsoInv'
<1> DEFINE f == ssoCalls[r]
           key == escrowKeys[f.org]
           one == [f EXCEPT !.pc = "enrol"]
           g == [one EXCEPT !.key = key]
<1>1. f \in EscrowFrame
  BY FrameKinds DEF WrapKey, SsoAt, SsoInv, CallsTyped
<1>2. f.org \in SsoOrgs /\ key # 0 /\ key \in 0..MaxKeys
  BY <1>1 DEF EscrowFrame, WrapKey, SsoInv, TablesTyped
<1>3. ssoCalls' = [ssoCalls EXCEPT ![r] = g]
  BY <1>1 DEF WrapKey, EscrowFrame
<1>4. one \in EscrowFrame /\ one.pc = "enrol" /\ one.org = f.org
  BY <1>1 DEF EscrowFrame
<1> HIDE DEF one
<1>5. g \in EscrowFrame /\ g.pc = "enrol" /\ g.org = f.org /\ g.key = key
  BY <1>2, <1>4 DEF EscrowFrame
<1>6. UNCHANGED <<connections, logins, escrowKeys, enrolments, newest, ssoCalm>>
  BY DEF WrapKey, SsoTables
<1>7. ssoCalm' \in BOOLEAN
  BY <1>6 DEF SsoInv, TablesTyped
<1> HIDE DEF g
<1>8. FrameServes(g)
  BY <1>2, <1>5 DEF FrameServes
<1> HIDE DEF f, key
<1> QED BY <1>3, <1>5, <1>6, <1>7, <1>8, MoveServes DEF SsoFrame

LEMMA InsertEnrolmentServes ==
    ASSUME SsoInv, NEW r \in SsoRequests, InsertEnrolment(r)
    PROVE  SsoInv'
<1> DEFINE f == ssoCalls[r]
           e == newest.enrolment + 1
           row == [org |-> f.org, key |-> f.key]
<1>1. f \in EscrowFrame
  BY FrameKinds DEF InsertEnrolment, SsoAt, SsoInv, CallsTyped
<1>2. f.org \in SsoOrgs /\ f.key \in 0..MaxKeys /\ f.key # 0 /\ f.key = escrowKeys[f.org]
  BY <1>1 DEF EscrowFrame, InsertEnrolment, SsoAt, SsoInv, FramesServe, FrameServes
<1>3. /\ enrolments' = PutRow(enrolments, e, row)
      /\ newest' = [newest EXCEPT !.enrolment = e]
      /\ ssoCalls' = [ssoCalls EXCEPT ![r] = NoSso]
      /\ UNCHANGED <<connections, logins, escrowKeys, ssoCalm>>
  BY DEF InsertEnrolment, SsoEnd
<1>4. row \in Enrolment /\ row.key = escrowKeys[row.org]
  BY <1>2, SsoAssumption DEF Enrolment
<1>5. e \in 0..MaxKeys
  BY SsoAssumption DEF InsertEnrolment, SsoInv, TablesTyped, NewestIds
<1> HIDE DEF f, e, row
<1>6. KeysStay
  BY <1>3 DEF KeysStay
<1>7. CallsTyped' /\ FramesServe'
  BY <1>3, <1>6, FrameStep DEF NoSso
<1>8. enrolments' \in [DOMAIN enrolments' -> Enrolment] /\ EscrowKeyServes'
  BY <1>3, <1>4 DEF PutRow, SsoInv, TablesTyped, EscrowKeyServes
<1>9. newest' \in NewestIds
  BY <1>3, <1>5, SsoAssumption DEF SsoInv, TablesTyped, NewestIds
<1> QED BY <1>3, <1>7, <1>8, <1>9 DEF SsoInv, TablesTyped

(* The callback's steps, and the end of a request. *)
LEMMA CallbackServes ==
    ASSUME SsoInv, NEW r \in SsoRequests,
           ReadConnection(r) \/ CompleteSSOLogin(r)
    PROVE  SsoInv'
<1> DEFINE f == ssoCalls[r]
<1>1. f \in LoginFrame
  BY FrameKinds DEF ReadConnection, CompleteSSOLogin, SsoAt, SsoInv, CallsTyped
<1>2. PICK pc \in {"complete", "finish"} : ssoCalls' = [ssoCalls EXCEPT ![r].pc = pc]
  BY DEF ReadConnection, CompleteSSOLogin, SsoGoto
<1> DEFINE g == [f EXCEPT !.pc = pc]
<1>3. ssoCalls' = [ssoCalls EXCEPT ![r] = g]
  BY <1>2
<1>4. g \in LoginFrame /\ g.pc = pc
  BY <1>1 DEF LoginFrame
<1>5. UNCHANGED <<connections, logins, escrowKeys, enrolments, newest, ssoCalm>>
  BY DEF ReadConnection, CompleteSSOLogin, SsoTables
<1>6. ssoCalm' \in BOOLEAN
  BY <1>5 DEF SsoInv, TablesTyped
<1> HIDE DEF g
<1>7. FrameServes(g)
  BY <1>4 DEF FrameServes
<1> QED BY <1>3, <1>4, <1>5, <1>6, <1>7, MoveServes DEF SsoFrame

LEMMA EndServes ==
    ASSUME SsoInv, NEW r \in SsoRequests, DeleteLogin(r) \/ FailSso(r)
    PROVE  SsoInv'
<1>1. /\ ssoCalls' = [ssoCalls EXCEPT ![r] = NoSso]
      /\ UNCHANGED <<connections, escrowKeys, enrolments, newest>>
  BY DEF DeleteLogin, FailSso, SsoEnd, SsoTables
<1>2. KeysStay
  BY <1>1 DEF KeysStay
<1>3. CallsTyped' /\ FramesServe'
  BY <1>1, <1>2, FrameStep DEF NoSso
<1>4. /\ logins' \in [DOMAIN logins' -> Login]
      /\ DOMAIN logins' \subseteq 1..MaxLogins
      /\ ssoCalm' \in BOOLEAN
  BY DEF DeleteLogin, FailSso, SsoTables, DropRows, SsoInv, TablesTyped
<1> QED BY <1>1, <1>3, <1>4 DEF SsoInv, TablesTyped, EscrowKeyServes

(* What no request is needed for. *)
LEMMA RestServes ==
    ASSUME SsoInv,
           \/ \E c \in DOMAIN connections : InitiateLogin(c) \/ DeleteConnection(c)
           \/ \E l \in DOMAIN logins : ExpireLogin(l) \/ DropLogin(l)
           \/ \E o \in SsoOrgs : RevokeUser(o)
    PROVE  SsoInv'
<1>1. ASSUME NEW c \in DOMAIN connections, InitiateLogin(c)
      PROVE  SsoInv'
  <2> DEFINE l == newest.login + 1
             row == [connection |-> c, expired |-> FALSE]
  <2>1. l \in 1..MaxLogins
    BY <1>1, SsoAssumption DEF InitiateLogin, SsoInv, TablesTyped, NewestIds
  <2>2. row \in Login
    BY DEF Login, SsoInv, TablesTyped
  <2>3. /\ logins' = PutRow(logins, l, row)
        /\ newest' = [newest EXCEPT !.login = l]
        /\ UNCHANGED <<connections, escrowKeys, enrolments, ssoCalls, ssoCalm>>
    BY <1>1 DEF InitiateLogin
  <2> HIDE DEF l, row
  <2>4. logins' \in [DOMAIN logins' -> Login] /\ DOMAIN logins' \subseteq 1..MaxLogins
    BY <2>1, <2>2, <2>3 DEF PutRow, SsoInv, TablesTyped
  <2>5. newest' \in NewestIds
    BY <2>1, <2>3, SsoAssumption DEF SsoInv, TablesTyped, NewestIds
  <2>6. CallsTyped' /\ FramesServe'
    BY <2>3, CallsUnchanged
  <2> QED BY <2>3, <2>4, <2>5, <2>6 DEF SsoInv, TablesTyped, EscrowKeyServes
<1>2. ASSUME NEW c \in DOMAIN connections, DeleteConnection(c)
      PROVE  SsoInv'
  <2>1. CallsTyped' /\ FramesServe'
    BY <1>2, CallsUnchanged DEF DeleteConnection
  <2> QED BY <1>2, <2>1 DEF DeleteConnection, DropRows, SsoInv, TablesTyped, EscrowKeyServes
<1>3. ASSUME NEW l \in DOMAIN logins, ExpireLogin(l) \/ DropLogin(l)
      PROVE  SsoInv'
  <2>1. CallsTyped' /\ FramesServe'
    BY <1>3, CallsUnchanged DEF ExpireLogin, DropLogin
  <2>2. logins' \in [DOMAIN logins' -> Login] /\ DOMAIN logins' \subseteq 1..MaxLogins
    BY <1>3 DEF ExpireLogin, DropLogin, DropRows, SsoInv, TablesTyped, Login
  <2> QED BY <1>3, <2>1, <2>2 DEF ExpireLogin, DropLogin, SsoInv, TablesTyped, EscrowKeyServes
<1>4. ASSUME NEW o \in SsoOrgs, RevokeUser(o)
      PROVE  SsoInv'
  <2>1. CallsTyped' /\ FramesServe'
    BY <1>4, CallsUnchanged DEF RevokeUser
  <2> QED BY <1>4, <2>1 DEF RevokeUser, DropRows, SsoInv, TablesTyped, EscrowKeyServes
<1> QED BY <1>1, <1>2, <1>3, <1>4

-----------------------------------------------------------------------------
LEMMA SsoStep ==
    ASSUME SsoInv, [SsoNext]_ssoVars
    PROVE  SsoInv'
<1>1. CASE UNCHANGED ssoVars
  BY <1>1, CallsUnchanged DEF ssoVars, SsoInv, TablesTyped, EscrowKeyServes
<1>2. ASSUME NEW r \in SsoRequests, DoSso(r)
      PROVE  SsoInv'
  BY <1>2, WriteConnectionServes, FindKeyServes, InsertKeyServes, WrapKeyServes,
     InsertEnrolmentServes, CallbackServes, EndServes DEF DoSso
<1> QED BY <1>1, <1>2, AskServes, RestServes DEF SsoNext

LEMMA SsoInitInv == SsoInit => SsoInv
<1> SUFFICES ASSUME SsoInit PROVE SsoInv
  OBVIOUS
<1>1. TablesTyped
  BY SsoAssumption DEF SsoInit, TablesTyped, NewestIds
<1>2. CallsTyped /\ FramesServe /\ EscrowKeyServes
  BY DEF SsoInit, CallsTyped, FramesServe, FrameServes, EscrowKeyServes, NoSso
<1> QED BY <1>1, <1>2 DEF SsoInv

(* However administrators turn the escrow on side by side, and write old   *)
(* rows back: an organization whose escrow is on has a key, and the users' *)
(* escrows are wrapped with it.                                            *)
THEOREM EscrowServes == SsoSpec => []EscrowKeyServes
<1>1. SsoInv => EscrowKeyServes
  BY DEF SsoInv
<1> QED BY <1>1, SsoInitInv, SsoStep, PTL DEF SsoSpec

-----------------------------------------------------------------------------
(* A login that opened a session is gone, or about to be deleted by the    *)
(* callback that did it, while requests do not overlap; and its id is      *)
(* never given out again.                                                  *)
Callbacks == {"connect", "complete", "finish"}

SsoAlone ==
    \A q, r \in SsoRequests : ssoCalls[q] # NoSso /\ ssoCalls[r] # NoSso => q = r

ServedAreLeaving ==
    \A l \in served \cap DOMAIN logins :
        \E r \in SsoRequests : SsoAt(r, "finish") /\ ssoCalls[r].login = l

CallbacksAreFirst ==
    \A r \in SsoRequests :
        SsoAt(r, "connect") \/ SsoAt(r, "complete") => ssoCalls[r].login \notin served

LoginsCounted ==
    /\ DOMAIN logins \subseteq 1..newest.login
    /\ served \subseteq 1..newest.login
    /\ \A r \in SsoRequests :
          ssoCalls[r].pc \in Callbacks => ssoCalls[r].login \in 1..newest.login

LoginsInv ==
    /\ LoginsCounted
    /\ ssoCalm => SsoAlone /\ ServedAreLeaving /\ CallbacksAreFirst

(* The first statement of a request finds nobody else at work. *)
LEMMA FirstStatement ==
    ASSUME SsoInv, LoginsInv, NEW r \in SsoRequests, NEW f, SsoRequest(r, f),
           f.pc \in Callbacks => f.pc = "connect" /\ f.login \in DOMAIN logins
    PROVE  LoginsInv'
<1>1. /\ \A q \in SsoRequests \ {r} : ssoCalls'[q] = ssoCalls[q]
      /\ ssoCalls'[r] = f
      /\ UNCHANGED <<logins, newest, served>>
  BY DEF SsoRequest, SsoTables, SsoInv, CallsTyped
<1>2. LoginsCounted'
  BY <1>1 DEF LoginsInv, LoginsCounted, Callbacks
<1>3. ASSUME ssoCalm'
      PROVE  (SsoAlone /\ ServedAreLeaving /\ CallbacksAreFirst)'
  <2>1. ssoCalm /\ \A q \in SsoRequests : ssoCalls[q] = NoSso
    BY <1>3 DEF SsoRequest
  <2>2. \A l \in DOMAIN logins : l \notin served
    BY <2>1 DEF LoginsInv, ServedAreLeaving, SsoAt, NoSso
  <2>3. SsoAlone'
    BY <1>1, <2>1 DEF SsoAlone
  <2>4. ServedAreLeaving'
    BY <1>1, <2>2 DEF ServedAreLeaving
  <2>5. CallbacksAreFirst'
    BY <1>1, <2>1, <2>2 DEF CallbacksAreFirst, SsoAt, NoSso, Callbacks
  <2> QED BY <2>3, <2>4, <2>5
<1> QED BY <1>2, <1>3 DEF LoginsInv

LEMMA AskKeepsLogins ==
    ASSUME SsoInv, LoginsInv, NEW r \in SsoRequests, AskSso(r)
    PROVE  LoginsInv'
<1>1. ASSUME NEW pc \in {"insert", "save", "findKey"}, NEW id, NEW row,
             SsoRequest(r, Writing(pc, id, row))
      PROVE  LoginsInv'
  BY <1>1, FirstStatement DEF Writing, Callbacks
<1>2. ASSUME NEW o \in SsoOrgs, EnrollUser(r, o)
      PROVE  LoginsInv'
  BY <1>2, FirstStatement DEF EnrollUser, Callbacks
<1>3. ASSUME NEW l \in DOMAIN logins, Callback(r, l)
      PROVE  LoginsInv'
  BY <1>3, FirstStatement DEF Callback
<1>4. ASSUME NEW c \in DOMAIN connections, NEW b \in BOOLEAN, UpdateEscrow(r, c, b)
      PROVE  LoginsInv'
  <2>1. (IF b THEN "findKey" ELSE "save") \in {"insert", "save", "findKey"}
    OBVIOUS
  <2> QED BY <1>1, <1>4, <2>1 DEF UpdateEscrow
<1> QED BY <1>1, <1>2, <1>3, <1>4
         DEF AskSso, CreateConnection, UpdateConnection, ActivateConnection

(* A statement of a request that is not a callback. *)
LEMMA PlainStatement ==
    ASSUME SsoInv, LoginsInv, NEW r \in SsoRequests, NEW f,
           ssoCalls[r] # NoSso, f.pc \notin Callbacks,
           ssoCalls[r].pc \notin Callbacks \/ ~ssoCalm',
           ssoCalls' = [ssoCalls EXCEPT ![r] = f],
           UNCHANGED <<logins, served>>, newest'.login = newest.login,
           ssoCalm' => ssoCalm
    PROVE  LoginsInv'
<1>1. /\ \A q \in SsoRequests \ {r} : ssoCalls'[q] = ssoCalls[q]
      /\ ssoCalls'[r] = f
  BY DEF SsoInv, CallsTyped
<1>2. LoginsCounted'
  BY <1>1 DEF LoginsInv, LoginsCounted
<1>3. ASSUME ssoCalm'
      PROVE  (SsoAlone /\ ServedAreLeaving /\ CallbacksAreFirst)'
  <2>1. SsoAlone /\ ServedAreLeaving /\ CallbacksAreFirst
    BY <1>3 DEF LoginsInv
  <2>2. SsoAlone'
    BY <1>1, <2>1 DEF SsoAlone
  <2>3. ServedAreLeaving'
    <3>1. ASSUME NEW l \in served \cap DOMAIN logins
          PROVE  \E q \in SsoRequests :
                    ssoCalls'[q].pc = "finish" /\ ssoCalls'[q].login = l
      <4>1. PICK q \in SsoRequests : SsoAt(q, "finish") /\ ssoCalls[q].login = l
        BY <2>1, <3>1 DEF ServedAreLeaving
      <4>2. q # r
        BY <1>3, <4>1 DEF SsoAt, Callbacks
      <4> QED BY <1>1, <4>1, <4>2 DEF SsoAt
    <3> QED BY <3>1 DEF ServedAreLeaving, SsoAt
  <2>4. CallbacksAreFirst'
    BY <1>1, <2>1 DEF CallbacksAreFirst, SsoAt, Callbacks
  <2> QED BY <2>2, <2>3, <2>4
<1> QED BY <1>2, <1>3 DEF LoginsInv

LEMMA PlainKeepsLogins ==
    ASSUME SsoInv, LoginsInv, NEW r \in SsoRequests,
           \/ InsertConnection(r) \/ SaveConnection(r) \/ FindKey(r)
           \/ InsertKey(r) \/ WrapKey(r) \/ InsertEnrolment(r) \/ FailSso(r)
    PROVE  LoginsInv'
<1>0. /\ NoSso.pc \notin Callbacks
      /\ \A pc \in {"insert", "save", "findKey", "insertKey", "wrap", "enrol"} :
            pc \notin Callbacks /\ (ssoCalls[r].pc = pc => ssoCalls[r] # NoSso)
  BY DEF NoSso, Callbacks
<1>1. CASE InsertConnection(r)
  <2>1. newest'.login = newest.login
    BY <1>1 DEF InsertConnection, SsoInv, TablesTyped, NewestIds
  <2>2. PICK f : ssoCalls' = [ssoCalls EXCEPT ![r] = f] /\ f.pc \notin Callbacks
    <3> DEFINE g == Writing("save", newest.connection + 1, ssoCalls[r].row)
    <3>1. ssoCalls' = [ssoCalls EXCEPT ![r] = g]
      BY <1>1 DEF InsertConnection
    <3>2. g.pc \notin Callbacks
      BY DEF Writing, Callbacks
    <3> HIDE DEF g
    <3> QED BY <3>1, <3>2
  <2>3. ssoCalls[r].pc = "insert" /\ UNCHANGED <<logins, served, ssoCalm>>
    BY <1>1 DEF InsertConnection, SsoAt
  <2> QED BY <1>0, <2>1, <2>2, <2>3, PlainStatement
<1>2. CASE SaveConnection(r)
  <2>1. ssoCalls[r].pc = "save" /\ ssoCalls' = [ssoCalls EXCEPT ![r] = NoSso]
    BY <1>2 DEF SaveConnection, SsoAt, SsoEnd
  <2>2. UNCHANGED <<logins, newest, served, ssoCalm>>
    BY <1>2 DEF SaveConnection
  <2> QED BY <1>0, <2>1, <2>2, PlainStatement
<1>3. CASE FindKey(r) \/ InsertKey(r) \/ WrapKey(r)
  <2>1. newest'.login = newest.login
    BY <1>3 DEF FindKey, InsertKey, WrapKey, SsoInv, TablesTyped, NewestIds
  <2>2. ssoCalls[r].pc \in {"findKey", "insertKey", "wrap"}
    BY <1>3 DEF FindKey, InsertKey, WrapKey, SsoAt
  <2>3. PICK f : ssoCalls' = [ssoCalls EXCEPT ![r] = f] /\ f.pc \notin Callbacks
    <3> DEFINE f == ssoCalls[r]
    <3>1. f \in ConnectionFrame \/ f \in EscrowFrame
      BY <2>2, FrameKinds DEF SsoInv, CallsTyped
    <3>2. CASE FindKey(r) \/ InsertKey(r)
      <4>1. f \in ConnectionFrame
        BY <3>2, FrameKinds DEF FindKey, InsertKey, SsoAt, SsoInv, CallsTyped
      <4>2. PICK pc \in {"save", "insertKey"} :
               ssoCalls' = [ssoCalls EXCEPT ![r] = [f EXCEPT !.pc = pc]]
        BY <3>2 DEF FindKey, InsertKey, SsoGoto
      <4>3. [f EXCEPT !.pc = pc].pc = pc
        BY <4>1, ConnectionMoved
      <4> QED BY <4>2, <4>3 DEF Callbacks
    <3>3. CASE WrapKey(r)
      <4> DEFINE g == [f EXCEPT !.pc = "enrol", !.key = escrowKeys[f.org]]
      <4>1. f \in EscrowFrame
        BY <3>3, FrameKinds DEF WrapKey, SsoAt, SsoInv, CallsTyped
      <4>2. ssoCalls' = [ssoCalls EXCEPT ![r] = g]
        BY <3>3 DEF WrapKey
      <4>3. g.pc = "enrol"
        BY <4>1 DEF EscrowFrame
      <4> QED BY <4>2, <4>3 DEF Callbacks
    <3> QED BY <1>3, <3>2, <3>3
  <2>4. UNCHANGED <<logins, served, ssoCalm>>
    BY <1>3 DEF FindKey, InsertKey, WrapKey, SsoTables
  <2> QED BY <1>0, <2>1, <2>2, <2>3, <2>4, PlainStatement
<1>4. CASE InsertEnrolment(r)
  <2>1. newest'.login = newest.login
    BY <1>4 DEF InsertEnrolment, SsoInv, TablesTyped, NewestIds
  <2>2. ssoCalls[r].pc = "enrol" /\ ssoCalls' = [ssoCalls EXCEPT ![r] = NoSso]
    BY <1>4 DEF InsertEnrolment, SsoAt, SsoEnd
  <2>3. UNCHANGED <<logins, served, ssoCalm>>
    BY <1>4 DEF InsertEnrolment
  <2> QED BY <1>0, <2>1, <2>2, <2>3, PlainStatement
<1>5. CASE FailSso(r)
  <2>1. ssoCalls[r].pc \in Callbacks => ssoCalls[r] \in LoginFrame
    BY FrameKinds DEF SsoInv, CallsTyped, Callbacks
  <2> QED BY <1>0, <1>5, <2>1, PlainStatement DEF FailSso, SsoEnd, SsoTables
<1> QED BY <1>1, <1>2, <1>3, <1>4, <1>5

(* The callback's own statements. *)
LEMMA CallbackKeepsLogins ==
    ASSUME SsoInv, LoginsInv, NEW r \in SsoRequests,
           ReadConnection(r) \/ CompleteSSOLogin(r)
    PROVE  LoginsInv'
<1> DEFINE f == ssoCalls[r]
<1>1. f \in LoginFrame
  BY FrameKinds DEF ReadConnection, CompleteSSOLogin, SsoAt, SsoInv, CallsTyped
<1>2. PICK pc \in {"complete", "finish"} :
         /\ ssoCalls' = [ssoCalls EXCEPT ![r] = [f EXCEPT !.pc = pc]]
         /\ CompleteSSOLogin(r) => pc = "finish"
  BY DEF ReadConnection, CompleteSSOLogin, SsoGoto
<1> DEFINE g == [f EXCEPT !.pc = pc]
<1>3. g.pc = pc /\ g.login = f.login
  BY <1>1 DEF LoginFrame
<1>4. /\ \A q \in SsoRequests \ {r} : ssoCalls'[q] = ssoCalls[q]
      /\ ssoCalls'[r] = g
  BY <1>2 DEF SsoInv, CallsTyped
<1> HIDE DEF g
<1>5. f.pc \in {"connect", "complete"} /\ UNCHANGED <<logins, newest, ssoCalm>>
  BY DEF ReadConnection, CompleteSSOLogin, SsoAt, SsoTables
<1>6. f.login \in 1..newest.login
  BY <1>5 DEF LoginsInv, LoginsCounted, Callbacks
<1>7. served' \in {served, served \cup {f.login}}
  BY DEF ReadConnection, CompleteSSOLogin
<1>8. ReadConnection(r) => served' = served
  BY DEF ReadConnection
<1> HIDE DEF f
<1>9. LoginsCounted'
  BY <1>3, <1>4, <1>5, <1>6, <1>7 DEF LoginsInv, LoginsCounted, f
<1>10. ASSUME ssoCalm
       PROVE  (SsoAlone /\ ServedAreLeaving /\ CallbacksAreFirst)'
  <2>1. SsoAlone /\ ServedAreLeaving /\ CallbacksAreFirst
    BY <1>10 DEF LoginsInv
  <2>2. f # NoSso
    BY <1>5 DEF NoSso
  <2>3. \A q \in SsoRequests \ {r} : ssoCalls[q] = NoSso
    BY <2>1, <2>2 DEF SsoAlone, f
  <2>4. \A l \in DOMAIN logins : l \notin served
    BY <1>5, <2>1, <2>3 DEF ServedAreLeaving, SsoAt, NoSso, f
  <2>5. f.login \notin served
    BY <1>5, <2>1 DEF CallbacksAreFirst, SsoAt, f
  <2>6. SsoAlone'
    BY <1>4, <2>3 DEF SsoAlone
  <2>7. ServedAreLeaving'
    <3>1. CASE ReadConnection(r)
      BY <1>5, <1>8, <2>4, <3>1 DEF ServedAreLeaving
    <3>2. CASE CompleteSSOLogin(r)
      <4>1. ssoCalls'[r].pc = "finish" /\ ssoCalls'[r].login = f.login
        BY <1>2, <1>3, <1>4, <3>2
      <4>2. \A l \in served' \cap DOMAIN logins : l = f.login
        BY <1>7, <2>4
      <4> QED BY <1>5, <4>1, <4>2 DEF ServedAreLeaving, SsoAt
    <3> QED BY <3>1, <3>2
  <2>8. CallbacksAreFirst'
    <3>1. CASE ReadConnection(r)
      BY <1>3, <1>4, <1>8, <2>3, <2>5, <3>1 DEF CallbacksAreFirst, SsoAt, NoSso
    <3>2. CASE CompleteSSOLogin(r)
      BY <1>2, <1>3, <1>4, <2>3, <3>2 DEF CallbacksAreFirst, SsoAt, NoSso
    <3> QED BY <3>1, <3>2
  <2> QED BY <2>6, <2>7, <2>8
<1> QED BY <1>5, <1>9, <1>10 DEF LoginsInv

LEMMA DeleteKeepsLogins ==
    ASSUME SsoInv, LoginsInv, NEW r \in SsoRequests, DeleteLogin(r)
    PROVE  LoginsInv'
<1>1. /\ \A q \in SsoRequests \ {r} : ssoCalls'[q] = ssoCalls[q]
      /\ ssoCalls'[r] = NoSso
      /\ UNCHANGED <<newest, served>>
  BY DEF DeleteLogin, SsoEnd, SsoInv, CallsTyped
<1>2. SsoAt(r, "finish") /\ (ssoCalm' => ssoCalm)
  BY DEF DeleteLogin
<1>3. /\ DOMAIN logins' \subseteq DOMAIN logins
      /\ ssoCalm' => DOMAIN logins' = DOMAIN logins \ {ssoCalls[r].login}
  BY DEF DeleteLogin, DropRows
<1>4. LoginsCounted'
  BY <1>1, <1>3 DEF LoginsInv, LoginsCounted, Callbacks, NoSso
<1>5. ASSUME ssoCalm'
      PROVE  (SsoAlone /\ ServedAreLeaving /\ CallbacksAreFirst)'
  <2>1. SsoAlone /\ ServedAreLeaving /\ CallbacksAreFirst
    BY <1>2, <1>5 DEF LoginsInv
  <2>2. \A q \in SsoRequests \ {r} : ssoCalls[q] = NoSso
    BY <1>2, <2>1 DEF SsoAlone, SsoAt, NoSso
  <2>3. \A l \in served \cap DOMAIN logins : l = ssoCalls[r].login
    BY <2>1, <2>2 DEF ServedAreLeaving, SsoAt, NoSso
  <2>4. served' \cap DOMAIN logins' = {}
    BY <1>1, <1>3, <1>5, <2>3
  <2> QED BY <1>1, <2>2, <2>4 DEF SsoAlone, ServedAreLeaving, CallbacksAreFirst, SsoAt, NoSso
<1> QED BY <1>4, <1>5 DEF LoginsInv

(* No request is at work on what happens to a login besides. *)
LEMMA RestKeepsLogins ==
    ASSUME SsoInv, LoginsInv,
           \/ \E c \in DOMAIN connections : InitiateLogin(c) \/ DeleteConnection(c)
           \/ \E l \in DOMAIN logins : ExpireLogin(l) \/ DropLogin(l)
           \/ \E o \in SsoOrgs : RevokeUser(o)
    PROVE  LoginsInv'
<1>1. UNCHANGED <<ssoCalls, served, ssoCalm>>
  BY DEF InitiateLogin, DeleteConnection, ExpireLogin, DropLogin, RevokeUser
<1>2. newest.login \in Nat
  BY SsoAssumption DEF SsoInv, TablesTyped, NewestIds
<1>3. ASSUME NEW c \in DOMAIN connections, InitiateLogin(c)
      PROVE  LoginsInv'
  <2> DEFINE n == newest.login + 1
  <2>1. newest'.login = n
    <3>1. newest \in NewestIds /\ newest' = [newest EXCEPT !.login = n]
      BY <1>3 DEF SsoInv, TablesTyped, InitiateLogin
    <3> HIDE DEF n
    <3> QED BY <3>1 DEF NewestIds
  <2>2. DOMAIN logins' = DOMAIN logins \cup {n}
    BY <1>3 DEF InitiateLogin, PutRow
  <2>3. LoginsCounted'
    BY <1>1, <1>2, <2>1, <2>2 DEF LoginsInv, LoginsCounted
  <2>4. n \notin served
    BY <1>2 DEF LoginsInv, LoginsCounted
  <2> HIDE DEF n
  <2> QED BY <1>1, <2>2, <2>3, <2>4
           DEF LoginsInv, SsoAlone, ServedAreLeaving, CallbacksAreFirst, SsoAt
<1>4. ASSUME UNCHANGED newest, DOMAIN logins' \subseteq DOMAIN logins
      PROVE  LoginsInv'
  <2>1. LoginsCounted'
    BY <1>1, <1>4 DEF LoginsInv, LoginsCounted
  <2> QED BY <1>1, <1>4, <2>1
           DEF LoginsInv, SsoAlone, ServedAreLeaving, CallbacksAreFirst, SsoAt
<1>5. ASSUME NEW l \in DOMAIN logins, ExpireLogin(l) \/ DropLogin(l)
      PROVE  LoginsInv'
  BY <1>4, <1>5 DEF ExpireLogin, DropLogin, DropRows
<1>6. ASSUME NEW c \in DOMAIN connections, DeleteConnection(c)
      PROVE  LoginsInv'
  BY <1>4, <1>6 DEF DeleteConnection
<1>7. ASSUME NEW o \in SsoOrgs, RevokeUser(o)
      PROVE  LoginsInv'
  BY <1>4, <1>7 DEF RevokeUser
<1> QED BY <1>3, <1>5, <1>6, <1>7

LEMMA LoginsStep ==
    ASSUME SsoInv, LoginsInv, [SsoNext]_ssoVars
    PROVE  LoginsInv'
<1>1. CASE UNCHANGED ssoVars
  BY <1>1 DEF ssoVars, LoginsInv, LoginsCounted, SsoAlone, ServedAreLeaving,
              CallbacksAreFirst, SsoAt
<1>2. ASSUME NEW r \in SsoRequests, DoSso(r)
      PROVE  LoginsInv'
  BY <1>2, PlainKeepsLogins, CallbackKeepsLogins, DeleteKeepsLogins DEF DoSso
<1> QED BY <1>1, <1>2, AskKeepsLogins, RestKeepsLogins DEF SsoNext

LEMMA LoginsInit == SsoInit => LoginsInv
BY DEF SsoInit, LoginsInv, LoginsCounted, SsoAlone, ServedAreLeaving,
       CallbacksAreFirst, SsoAt, NoSso, Callbacks

(* However logins expire, and connections change under them: a state of a  *)
(* login opens one session, unless requests overlapped or the deletion of  *)
(* a state was lost.                                                       *)
THEOREM LoginsServeOnce == SsoSpec => LoginServesOnce
<1>1. ASSUME LoginsInv, [SsoNext]_ssoVars
      PROVE  [\A r \in SsoRequests :
                 CompleteSSOLogin(r) /\ ssoCalm => ssoCalls[r].login \notin served]_ssoVars
  BY <1>1 DEF LoginsInv, CallbacksAreFirst, CompleteSSOLogin, SsoAt
<1> QED BY <1>1, SsoInitInv, SsoStep, LoginsInit, LoginsStep, PTL
         DEF SsoSpec, LoginServesOnce

-----------------------------------------------------------------------------
(* Types.  Rows have the ids given out so far, and a connection about to   *)
(* be saved has one of them.                                               *)

ConnectionSaves == {"findKey", "insertKey", "save"}

CallsCounted(calls, last) ==
    \A r \in SsoRequests : calls[r].pc \in ConnectionSaves => calls[r].id \in 1..last

SsoCounted ==
    /\ DOMAIN connections \subseteq 1..newest.connection
    /\ DOMAIN logins \subseteq 1..newest.login
    /\ \A o \in SsoOrgs : escrowKeys[o] \in 0..newest.key
    /\ DOMAIN enrolments \subseteq 1..newest.enrolment
    /\ CallsCounted(ssoCalls, newest.connection)

LEMMA SsoIds ==
    ASSUME SsoInv
    PROVE  /\ newest.connection \in Nat /\ newest.login \in Nat /\ newest.key \in Nat
           /\ newest.enrolment \in Nat /\ newest \in NewestIds
           /\ ssoCalls \in [SsoRequests -> SsoFrame \cup {NoSso}]
BY SsoAssumption DEF SsoInv, TablesTyped, CallsTyped, NewestIds

(* A step that writes one frame: it need only look at that frame. *)
LEMMA CallCounted ==
    ASSUME SsoInv, NEW last \in Nat, newest.connection <= last,
           CallsCounted(ssoCalls, newest.connection),
           NEW r \in SsoRequests, NEW f, ssoCalls' = [ssoCalls EXCEPT ![r] = f],
           f.pc \in ConnectionSaves => f.id \in 1..last
    PROVE  CallsCounted(ssoCalls', last)
<1>1. \A q \in SsoRequests : ssoCalls'[q] = IF q = r THEN f ELSE ssoCalls[q]
  BY SsoIds
<1>2. 1..newest.connection \subseteq 1..last
  BY SsoIds
<1> QED BY <1>1, <1>2 DEF CallsCounted

(* No connection id is given out. *)
LEMMA SameIdsCounted ==
    ASSUME SsoInv, SsoCounted, NEW r \in SsoRequests, NEW f,
           ssoCalls' = [ssoCalls EXCEPT ![r] = f],
           f.pc \in ConnectionSaves => f.id \in 1..newest.connection
    PROVE  CallsCounted(ssoCalls', newest.connection)
<1>1. PICK last : last = newest.connection
  OBVIOUS
<1>2. last \in Nat
  BY <1>1, SsoIds
<1>3. newest.connection <= last
  BY <1>1, <1>2
<1>4. CallsCounted(ssoCalls, newest.connection)
  BY DEF SsoCounted
<1>5. f.pc \in ConnectionSaves => f.id \in 1..last
  BY <1>1
<1>6. CallsCounted(ssoCalls', last)
  BY <1>2, <1>3, <1>4, <1>5, CallCounted
<1> QED BY <1>1, <1>6

(* The tables are left alone. *)
LEMMA FrameCounted ==
    ASSUME SsoInv, SsoCounted, UNCHANGED <<SsoTables, newest>>,
           NEW r \in SsoRequests, NEW f, ssoCalls' = [ssoCalls EXCEPT ![r] = f],
           f.pc \in ConnectionSaves => f.id \in 1..newest.connection
    PROVE  SsoCounted'
<1>1. CallsCounted(ssoCalls', newest.connection)
  BY SameIdsCounted
<1> QED BY <1>1 DEF SsoCounted, SsoTables

LEMMA AskCounted ==
    ASSUME SsoInv, SsoCounted, NEW r \in SsoRequests, AskSso(r)
    PROVE  SsoCounted'
<1>1. \A c \in DOMAIN connections : c \in 1..newest.connection
  BY DEF SsoCounted
<1>2. ASSUME NEW f, SsoRequest(r, f), f.pc \in ConnectionSaves => f.id \in 1..newest.connection
      PROVE  SsoCounted'
  BY <1>2, FrameCounted DEF SsoRequest
<1>3. ASSUME NEW pc, NEW c \in DOMAIN connections, NEW row, SsoRequest(r, Writing(pc, c, row))
      PROVE  SsoCounted'
  BY <1>1, <1>2, <1>3 DEF Writing
<1>4. ASSUME NEW row, SsoRequest(r, Writing("insert", 0, row))
      PROVE  SsoCounted'
  BY <1>2, <1>4 DEF Writing, ConnectionSaves
<1>5. ASSUME NEW c \in DOMAIN connections,
             \/ \E d \in SsoDomains, b \in BOOLEAN, s \in {"active", "inactive"} :
                   UpdateConnection(r, c, d, b, s)
             \/ \E b \in BOOLEAN : UpdateEscrow(r, c, b)
             \/ ActivateConnection(r, c)
      PROVE  SsoCounted'
  BY <1>3, <1>5 DEF UpdateConnection, UpdateEscrow, ActivateConnection
<1>6. ASSUME NEW o \in SsoOrgs, EnrollUser(r, o)
      PROVE  SsoCounted'
  BY <1>2, <1>6 DEF EnrollUser, ConnectionSaves
<1>7. ASSUME NEW l \in DOMAIN logins, Callback(r, l)
      PROVE  SsoCounted'
  BY <1>2, <1>7 DEF Callback, ConnectionSaves
<1> QED BY <1>4, <1>5, <1>6, <1>7 DEF AskSso, CreateConnection

LEMMA DoCounted ==
    ASSUME SsoInv, SsoCounted, NEW r \in SsoRequests, DoSso(r)
    PROVE  SsoCounted'
<1> DEFINE f == ssoCalls[r]
<1>1. f \in SsoFrame \cup {NoSso} /\ (f.pc \in ConnectionSaves => f.id \in 1..newest.connection)
  BY SsoIds DEF SsoCounted, CallsCounted
<1>2. ASSUME NEW pc, f.pc \in ConnectionSaves, ssoCalls' = [ssoCalls EXCEPT ![r].pc = pc]
      PROVE  \E g : g.id = f.id /\ ssoCalls' = [ssoCalls EXCEPT ![r] = g]
  <2>1. f \in ConnectionFrame
    BY <1>1, <1>2, FrameKinds DEF ConnectionSaves
  <2>2. [f EXCEPT !.pc = pc].id = f.id
    BY <2>1 DEF ConnectionFrame
  <2>3. ssoCalls' = [ssoCalls EXCEPT ![r] = [f EXCEPT !.pc = pc]]
    BY <1>2
  <2> QED BY <2>2, <2>3
<1>3. NoSso.pc \notin ConnectionSaves
  BY DEF NoSso, ConnectionSaves
<1>4. CASE InsertConnection(r)
  <2> DEFINE c == newest.connection + 1
  <2>1. newest' = [newest EXCEPT !.connection = c] /\ ssoCalls' = [ssoCalls EXCEPT ![r] =
           Writing("save", c, f.row)]
    BY <1>4 DEF InsertConnection
  <2>2. /\ newest'.connection = c /\ newest'.login = newest.login
        /\ newest'.key = newest.key /\ newest'.enrolment = newest.enrolment
    BY <2>1, SsoIds DEF NewestIds
  <2>3. c \in 1..c /\ 1..newest.connection \subseteq 1..c /\ c \in Nat
        /\ newest.connection <= c
    BY SsoIds
  <2>4. DOMAIN connections' = DOMAIN connections \cup {c}
        /\ UNCHANGED <<logins, escrowKeys, enrolments>>
    BY <1>4 DEF InsertConnection, PutRow
  <2> HIDE DEF c, f
  <2>5. Writing("save", c, f.row).id = c
    BY DEF Writing
  <2>6. CallsCounted(ssoCalls', c)
    BY <2>1, <2>3, <2>5, CallCounted DEF SsoCounted
  <2> QED BY <2>2, <2>3, <2>4, <2>6 DEF SsoCounted
<1>5. CASE SaveConnection(r)
  <2>1. /\ connections' = PutRow(connections, f.id, f.row) /\ f.pc = "save"
        /\ ssoCalls' = [ssoCalls EXCEPT ![r] = NoSso]
        /\ UNCHANGED <<logins, escrowKeys, enrolments, newest>>
    BY <1>5 DEF SaveConnection, SsoAt, SsoEnd
  <2>2. f.id \in 1..newest.connection
    BY <1>1, <2>1 DEF ConnectionSaves
  <2>3. DOMAIN connections' = DOMAIN connections \cup {f.id}
    BY <2>1 DEF PutRow
  <2>4. CallsCounted(ssoCalls', newest.connection)
    BY <1>3, <2>1, SameIdsCounted
  <2> QED BY <2>1, <2>2, <2>3, <2>4 DEF SsoCounted
<1>6. CASE FindKey(r)
  <2>1. f.pc \in ConnectionSaves /\ UNCHANGED <<SsoTables, newest>>
        /\ \E pc : ssoCalls' = [ssoCalls EXCEPT ![r].pc = pc]
    BY <1>6 DEF FindKey, SsoAt, SsoGoto, ConnectionSaves
  <2>2. PICK g : g.id = f.id /\ ssoCalls' = [ssoCalls EXCEPT ![r] = g]
    BY <1>2, <2>1
  <2> QED BY <1>1, <2>1, <2>2, FrameCounted
<1>7. CASE InsertKey(r)
  <2> DEFINE k == newest.key + 1
  <2>1. /\ f.pc \in ConnectionSaves /\ newest' = [newest EXCEPT !.key = k]
        /\ escrowKeys' = [escrowKeys EXCEPT ![f.row.org] = k]
        /\ UNCHANGED <<connections, logins, enrolments>>
        /\ \E pc : ssoCalls' = [ssoCalls EXCEPT ![r].pc = pc]
    BY <1>7 DEF InsertKey, SsoAt, SsoGoto, ConnectionSaves
  <2>2. PICK g : g.id = f.id /\ ssoCalls' = [ssoCalls EXCEPT ![r] = g]
    BY <1>2, <2>1
  <2>3. /\ newest'.connection = newest.connection /\ newest'.login = newest.login
        /\ newest'.key = k /\ newest'.enrolment = newest.enrolment
    BY <2>1, SsoIds DEF NewestIds
  <2>4. k \in 0..k /\ 0..newest.key \subseteq 0..k
    BY SsoIds
  <2>5. CallsCounted(ssoCalls', newest.connection)
    BY <1>1, <2>1, <2>2, SameIdsCounted
  <2> HIDE DEF k, f
  <2>6. \A o \in SsoOrgs : escrowKeys'[o] \in 0..k
    BY <2>1, <2>4 DEF SsoCounted, SsoInv, TablesTyped
  <2> QED BY <2>1, <2>3, <2>5, <2>6 DEF SsoCounted
<1>8. CASE WrapKey(r)
  <2>1. PICK g : g.pc = "enrol" /\ ssoCalls' = [ssoCalls EXCEPT ![r] = g]
    <3> DEFINE key == escrowKeys[f.org]
               g == [f EXCEPT !.pc = "enrol", !.key = key]
    <3>1. f \in EscrowFrame
      BY <1>1, <1>8, FrameKinds DEF WrapKey, SsoAt
    <3>2. ssoCalls' = [ssoCalls EXCEPT ![r] = g]
      BY <1>8, SsoIds DEF WrapKey
    <3> HIDE DEF key
    <3>3. g.pc = "enrol"
      BY <3>1 DEF EscrowFrame
    <3> QED BY <3>2, <3>3
  <2>2. UNCHANGED <<SsoTables, newest>>
    BY <1>8 DEF WrapKey
  <2> QED BY <2>1, <2>2, FrameCounted DEF ConnectionSaves
<1>9. CASE InsertEnrolment(r)
  <2> DEFINE e == newest.enrolment + 1
  <2>1. /\ newest' = [newest EXCEPT !.enrolment = e]
        /\ ssoCalls' = [ssoCalls EXCEPT ![r] = NoSso]
        /\ DOMAIN enrolments' = DOMAIN enrolments \cup {e}
        /\ UNCHANGED <<connections, logins, escrowKeys>>
    BY <1>9 DEF InsertEnrolment, SsoEnd, PutRow
  <2>2. /\ newest'.connection = newest.connection /\ newest'.login = newest.login
        /\ newest'.key = newest.key /\ newest'.enrolment = e
    BY <2>1, SsoIds DEF NewestIds
  <2>3. e \in 1..e /\ 1..newest.enrolment \subseteq 1..e
    BY SsoIds
  <2> HIDE DEF e
  <2>4. CallsCounted(ssoCalls', newest.connection)
    BY <1>3, <2>1, SameIdsCounted
  <2> QED BY <2>1, <2>2, <2>3, <2>4 DEF SsoCounted
<1>10. CASE ReadConnection(r) \/ CompleteSSOLogin(r)
  <2>1. PICK pc \in {"complete", "finish"} : ssoCalls' = [ssoCalls EXCEPT ![r].pc = pc]
    BY <1>10 DEF ReadConnection, CompleteSSOLogin, SsoGoto
  <2>2. f \in LoginFrame
    BY <1>1, <1>10, FrameKinds DEF ReadConnection, CompleteSSOLogin, SsoAt
  <2>3. [f EXCEPT !.pc = pc].pc = pc
    BY <2>2 DEF LoginFrame
  <2>4. ssoCalls' = [ssoCalls EXCEPT ![r] = [f EXCEPT !.pc = pc]]
    BY <2>1
  <2>5. UNCHANGED <<SsoTables, newest>>
    BY <1>10 DEF ReadConnection, CompleteSSOLogin
  <2>6. pc \notin ConnectionSaves
    BY DEF ConnectionSaves
  <2> PICK g : g = [f EXCEPT !.pc = pc]
    OBVIOUS
  <2> QED BY <2>3, <2>4, <2>5, <2>6, FrameCounted
<1>11. CASE DeleteLogin(r)
  <2>1. /\ ssoCalls' = [ssoCalls EXCEPT ![r] = NoSso]
        /\ DOMAIN logins' \subseteq DOMAIN logins
        /\ UNCHANGED <<connections, escrowKeys, enrolments, newest>>
    BY <1>11 DEF DeleteLogin, SsoEnd, DropRows
  <2>2. CallsCounted(ssoCalls', newest.connection)
    BY <1>3, <2>1, SameIdsCounted
  <2> QED BY <2>1, <2>2 DEF SsoCounted
<1>12. CASE FailSso(r)
  <2>1. UNCHANGED <<SsoTables, newest>> /\ ssoCalls' = [ssoCalls EXCEPT ![r] = NoSso]
    BY <1>12 DEF FailSso, SsoEnd
  <2> QED BY <1>3, <2>1, FrameCounted
<1> QED BY <1>4, <1>5, <1>6, <1>7, <1>8, <1>9, <1>10, <1>11, <1>12 DEF DoSso

LEMMA RestCounted ==
    ASSUME SsoInv, SsoCounted,
           \/ \E c \in DOMAIN connections : DeleteConnection(c) \/ InitiateLogin(c)
           \/ \E o \in SsoOrgs : RevokeUser(o)
           \/ \E l \in DOMAIN logins : ExpireLogin(l) \/ DropLogin(l)
    PROVE  SsoCounted'
<1>1. UNCHANGED <<ssoCalls, escrowKeys>>
  BY DEF DeleteConnection, InitiateLogin, RevokeUser, ExpireLogin, DropLogin
<1>2. ASSUME NEW c \in DOMAIN connections, InitiateLogin(c)
      PROVE  SsoCounted'
  <2> DEFINE l == newest.login + 1
  <2>1. /\ newest' = [newest EXCEPT !.login = l]
        /\ DOMAIN logins' = DOMAIN logins \cup {l}
        /\ UNCHANGED <<connections, enrolments>>
    BY <1>2 DEF InitiateLogin, PutRow
  <2>2. /\ newest'.connection = newest.connection /\ newest'.login = l
        /\ newest'.key = newest.key /\ newest'.enrolment = newest.enrolment
    BY <2>1, SsoIds DEF NewestIds
  <2>3. l \in 1..l /\ 1..newest.login \subseteq 1..l
    BY SsoIds
  <2> HIDE DEF l
  <2> QED BY <1>1, <2>1, <2>2, <2>3 DEF SsoCounted
<1>3. CASE /\ UNCHANGED newest /\ DOMAIN connections' \subseteq DOMAIN connections
           /\ DOMAIN logins' \subseteq DOMAIN logins
           /\ DOMAIN enrolments' \subseteq DOMAIN enrolments
  BY <1>1, <1>3 DEF SsoCounted
<1> QED BY <1>2, <1>3 DEF DeleteConnection, RevokeUser, ExpireLogin, DropLogin, DropRows

LEMMA SsoTyped == SsoSpec => []SsoTypeOK
<1>1. SsoInit => SsoCounted
  <2> SUFFICES ASSUME SsoInit PROVE SsoCounted
    OBVIOUS
  <2>1. \A r \in SsoRequests : ssoCalls[r].pc \notin ConnectionSaves
    BY DEF SsoInit, NoSso, ConnectionSaves
  <2>2. /\ DOMAIN connections = {} /\ DOMAIN logins = {} /\ DOMAIN enrolments = {}
        /\ newest.key = 0 /\ \A o \in SsoOrgs : escrowKeys[o] = 0
    BY DEF SsoInit
  <2> QED BY <2>1, <2>2 DEF SsoCounted, CallsCounted
<1>2. SsoInv /\ SsoCounted /\ [SsoNext]_ssoVars => SsoCounted'
  <2>1. SsoCounted /\ UNCHANGED ssoVars => SsoCounted'
    BY DEF SsoCounted, ssoVars
  <2> QED BY <2>1, AskCounted, DoCounted, RestCounted DEF SsoNext
<1>3. SsoInv /\ SsoCounted => SsoTypeOK
  <2> SUFFICES ASSUME SsoInv, SsoCounted PROVE SsoTypeOK
    OBVIOUS
  <2>1. escrowKeys \in [SsoOrgs -> 0..newest.key]
    BY DEF SsoInv, TablesTyped, SsoCounted
  <2> QED BY <2>1 DEF SsoInv, TablesTyped, CallsTyped, SsoCounted, SsoTypeOK
<1> QED BY <1>1, <1>2, <1>3, SsoInitInv, SsoStep, PTL DEF SsoSpec
=============================================================================

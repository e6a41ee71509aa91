-------------------------- MODULE RecoveryConsent --------------------------
(***************************************************************************)
(* What emergency access promises: the vault is opened only after its      *)
(* owner consented to a request made by the contact he had confirmed, who  *)
(* had accepted his invitation.  The promise is a causal order of events;  *)
(* each may happen again once it has happened.                             *)
(***************************************************************************)
VARIABLE past  \* the events that have happened

(* The events a new one needs. *)
Needs(event) ==
    CASE event = "invite"  -> {}
      [] event = "accept"  -> {"invite"}
      [] event = "confirm" -> {"accept"}
      [] event = "ask"     -> {"confirm"}
      [] event = "consent" -> {"ask"}
      [] event = "open"    -> {"consent"}

Events == {"invite", "accept", "confirm", "ask", "consent", "open"}

ConsentInit == past = {}

Happen(event) ==
    /\ Needs(event) \subseteq past
    /\ past' = past \cup {event}

ConsentNext == \E event \in Events : Happen(event)

ConsentSpec == ConsentInit /\ [][ConsentNext]_past
=============================================================================

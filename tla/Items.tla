------------------------------- MODULE Items -------------------------------
(***************************************************************************)
(* The items of one user's own vault, in a schema of their own             *)
(* (service/item_service.go, gormrepo/item.go).  A change reads the item   *)
(* in one transaction and saves the whole row in another; what a request   *)
(* does not name stays as it was read.                                     *)
(***************************************************************************)
EXTENDS Integers, Sequences

CONSTANTS
    ItemRequests,  \* concurrent changes
    MaxItems       \* bound on the items ever created

ASSUME ItemsAssumption == MaxItems \in Nat

VARIABLES
    ownItems,  \* the items in the order of their ids
    ownCalls,  \* request |-> the row it is about to save
    asked,     \* history: the items as the requests wanted them
    ownCalm    \* history: no change overlapped another write

ownVars == <<ownItems, ownCalls, asked, ownCalm>>

(* What a request may name.  The column of autoFill has the default TRUE.  *)
ItemFields == {"data", "autoFill"}

OwnItem == [deleted: BOOLEAN, fields: [ItemFields -> BOOLEAN]]

NoSave == [id |-> 0]

Patches == UNION {[named -> BOOLEAN] : named \in SUBSET ItemFields}

ItemsTypeOK ==
    /\ Len(ownItems) <= MaxItems
    /\ DOMAIN asked = DOMAIN ownItems
    /\ \A id \in DOMAIN ownItems : {ownItems[id], asked[id]} \subseteq OwnItem
    /\ ownCalls \in [ItemRequests -> [id: 1..MaxItems, row: OwnItem, patch: Patches]
                                     \cup {NoSave}]
    /\ ownCalm \in BOOLEAN

ItemsInit ==
    /\ ownItems = <<>>
    /\ ownCalls = [r \in ItemRequests |-> NoSave]
    /\ asked = <<>>
    /\ ownCalm = TRUE

-----------------------------------------------------------------------------
NobodySaves == \A r \in ItemRequests : ownCalls[r] = NoSave

With(fields, patch) ==
    [f \in ItemFields |-> IF f \in DOMAIN patch THEN patch[f] ELSE fields[f]]

(* A new item has what is asked for, and fills in forms whether it is asked *)
(* to or not: FALSE is left to the column's default.                        *)
CreateOwnItem(fields) ==
    /\ Len(ownItems) < MaxItems
    /\ LET item == [deleted |-> FALSE, fields |-> [fields EXCEPT !["autoFill"] = TRUE]]
       IN  /\ ownItems' = Append(ownItems, item)
           /\ asked' = Append(asked, item)
    /\ UNCHANGED <<ownCalls, ownCalm>>

FindOwnItem(id) == id \in DOMAIN ownItems /\ ~ownItems[id].deleted

(* Mutant: what is not named is cleared. *)
ReplaceOwnItem(r, id, patch) ==
    /\ ownCalls[r] = NoSave
    /\ FindOwnItem(id)
    /\ ownCalls' = [ownCalls EXCEPT ![r] =
         [id |-> id, patch |-> patch,
          row |-> [deleted |-> FALSE, fields |-> With([f \in ItemFields |-> FALSE], patch)]]]
    /\ ownCalm' = (ownCalm /\ NobodySaves)
    /\ UNCHANGED <<ownItems, asked>>

UpdateOwnItem(r, id, patch) ==
    /\ ownCalls[r] = NoSave
    /\ FindOwnItem(id)
    /\ ownCalls' = [ownCalls EXCEPT ![r] =
         [id |-> id, patch |-> patch,
          row |-> [ownItems[id] EXCEPT !.fields = With(@, patch)]]]
    /\ ownCalm' = (ownCalm /\ NobodySaves)
    /\ UNCHANGED <<ownItems, asked>>

(* The whole row, its deleted_at included, so an item deleted meanwhile is *)
(* back.                                                                   *)
SaveOwnItem(r) ==
    /\ ownCalls[r] # NoSave
    /\ LET w == ownCalls[r]
       IN  /\ ownItems' = [ownItems EXCEPT ![w.id] = w.row]
           /\ asked' = [asked EXCEPT ![w.id].fields = With(@, w.patch)]
    /\ ownCalls' = [ownCalls EXCEPT ![r] = NoSave]
    /\ UNCHANGED ownCalm

FailOwnItem(r) ==
    /\ ownCalls[r] # NoSave
    /\ ownCalls' = [ownCalls EXCEPT ![r] = NoSave]
    /\ UNCHANGED <<ownItems, asked, ownCalm>>

(* Deleting marks the row, in one statement, deleted already or not. *)
DeleteOwnItem(id) ==
    /\ id \in DOMAIN ownItems
    /\ ownItems' = [ownItems EXCEPT ![id].deleted = TRUE]
    /\ asked' = [asked EXCEPT ![id].deleted = TRUE]
    /\ ownCalm' = (ownCalm /\ NobodySaves)
    /\ UNCHANGED ownCalls

OwnItemRequest(r) ==
    \E id \in DOMAIN ownItems, patch \in Patches : UpdateOwnItem(r, id, patch)

ItemsNext ==
    \/ \E fields \in [ItemFields -> BOOLEAN] : CreateOwnItem(fields)
    \/ \E id \in DOMAIN ownItems : DeleteOwnItem(id)
    \/ \E r \in ItemRequests : OwnItemRequest(r) \/ SaveOwnItem(r) \/ FailOwnItem(r)

ItemsSpec == ItemsInit /\ [][ItemsNext]_ownVars

-----------------------------------------------------------------------------
(* While changes come one by one, every item is what the requests so far   *)
(* made of it: what a request does not name it leaves alone, and a deleted *)
(* item stays deleted (item_service.go:178).                               *)
ItemsAsAsked == ownCalm => ownItems = asked
=============================================================================

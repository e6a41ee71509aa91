------------------------------ MODULE OrgItems ------------------------------
(***************************************************************************)
(* The vault of one organization: its collections, folders, items and the  *)
(* shares of items with single users (service/collection_service.go,       *)
(* organization_item_service.go, organization_folder_service.go,           *)
(* item_share_service.go).                                                 *)
(*                                                                         *)
(* Every operation reads rows, checks them, and writes in a statement of   *)
(* its own; a row is saved whole, as it was read.  Whether the requester   *)
(* may do what he asks is CollectionAccess's question: a request refused   *)
(* changes nothing here.                                                   *)
(***************************************************************************)
EXTENDS Integers, Sequences, SequencesExt

CONSTANTS
    VaultRequests,    \* concurrent requests
    Names,            \* names of collections and folders
    DefaultName,      \* name of the default collection
    PlanCollections,  \* how many collections the plan has room for
    MaxRows           \* bound: table |-> how many rows it gets

ASSUME VaultAssumption ==
    /\ DefaultName \in Names
    /\ PlanCollections \in Nat
    /\ MaxRows \in [{"collection", "folder", "item", "share"} -> Nat]
    /\ MaxRows["collection"] # 0

VARIABLES
    rows,       \* table |-> its rows in the order of their ids
    vaultCalls, \* request |-> what it is about to write
    dropped,    \* history: the rows that were deleted
    vaultCalm   \* history: no requests overlapped, no failed read ignored

vaultVars == <<rows, vaultCalls, dropped, vaultCalm>>

Tables == {"collection", "folder", "item", "share"}

(* live: the row was not deleted (softly, or, a share or a folder, for     *)
(* good).  An item names its collection and its folder, a share its item.  *)
Collection == [live: BOOLEAN, name: Names, isDefault: BOOLEAN]
Folder == [live: BOOLEAN, name: Names]
Item == [live: BOOLEAN, collection: Nat, folder: Nat]
Share == [live: BOOLEAN, item: Nat, canEdit: BOOLEAN, canShare: BOOLEAN,
          expired: BOOLEAN]

VaultRow(t) == CASE t = "collection" -> Collection
                 [] t = "folder" -> Folder
                 [] t = "item" -> Item
                 [] t = "share" -> Share

NoWrite == [op |-> "none"]
Inserting(t, row) == [op |-> "insert", table |-> t, row |-> row]
Saving(t, id, row) == [op |-> "save", table |-> t, id |-> id, row |-> row]
Dropping(t, id) == [op |-> "drop", table |-> t, id |-> id]
Moving(from, to) == [op |-> "move", from |-> from, to |-> to]

IsVaultWrite(w) ==
    \/ w = NoWrite
    \/ \E t \in Tables :
          \/ w.op = "insert" /\ w.table = t /\ w.row \in VaultRow(t)
          \/ w.op = "save" /\ w.table = t /\ w.id \in 1..MaxRows[t]
                           /\ w.row \in VaultRow(t)
          \/ w.op = "drop" /\ w.table = t /\ w.id \in 1..MaxRows[t]
    \/ w.op = "move" /\ {w.from, w.to} \subseteq 1..MaxRows["collection"]

OrgItemsTypeOK ==
    /\ DOMAIN rows = Tables
    /\ \A t \in Tables :
          /\ Len(rows[t]) <= MaxRows[t]
          /\ \A id \in DOMAIN rows[t] : rows[t][id] \in VaultRow(t)
    /\ DOMAIN vaultCalls = VaultRequests
    /\ \A r \in VaultRequests : IsVaultWrite(vaultCalls[r])
    /\ dropped \subseteq Tables \X Nat
    /\ vaultCalm \in BOOLEAN

(* An organization starts with its default collection. *)
OrgItemsInit ==
    /\ rows = [t \in Tables |->
                 IF t = "collection"
                 THEN <<[live |-> TRUE, name |-> DefaultName, isDefault |-> TRUE]>>
                 ELSE <<>>]
    /\ vaultCalls = [r \in VaultRequests |-> NoWrite]
    /\ dropped = {}
    /\ vaultCalm = TRUE

-----------------------------------------------------------------------------
Live(t) == {id \in DOMAIN rows[t] : rows[t][id].live}

Defaults == {id \in Live("collection") : rows["collection"][id].isDefault}

NameFree(t, name) == \A id \in Live(t) : rows[t][id].name # name

NobodyWrites == \A r \in VaultRequests : vaultCalls[r] = NoWrite

(* The reads and checks of a request: it goes on with what it will write.  *)
WillWrite(r, write) ==
    /\ vaultCalls[r] = NoWrite
    /\ vaultCalls' = [vaultCalls EXCEPT ![r] = write]
    /\ vaultCalm' = (vaultCalm /\ NobodyWrites)
    /\ UNCHANGED <<rows, dropped>>

CreateCollection(r, name) ==
    /\ Cardinality(Live("collection")) < PlanCollections
    /\ NameFree("collection", name)
    /\ WillWrite(r, Inserting("collection", [live |-> TRUE, name |-> name,
                                             isDefault |-> FALSE]))

UpdateCollection(r, id, name) ==
    /\ id \in Live("collection")
    /\ \A other \in Live("collection") \ {id} : rows["collection"][other].name # name
    /\ WillWrite(r, Saving("collection", id,
                           [rows["collection"][id] EXCEPT !.name = name]))

(* Mutant: the items stay where they are. *)
DeleteCollectionOnly(r, id) ==
    /\ id \in Live("collection") \ Defaults
    /\ Defaults # {}
    /\ WillWrite(r, Dropping("collection", id))

(* The items move to the default collection first, then the row is marked  *)
(* deleted: "Enforce no orphan items".                                     *)
DeleteCollection(r, id) ==
    /\ id \in Live("collection") \ Defaults
    /\ \E def \in Defaults : WillWrite(r, Moving(id, def))

CreateFolder(r, name) ==
    /\ NameFree("folder", name)
    /\ WillWrite(r, Inserting("folder", [live |-> TRUE, name |-> name]))

(* Another name is not looked up. *)
UpdateFolder(r, id, name) ==
    /\ id \in Live("folder")
    /\ WillWrite(r, Saving("folder", id, [rows["folder"][id] EXCEPT !.name = name]))

DeleteFolder(r, id) ==
    /\ id \in Live("folder")
    /\ \A i \in Live("item") : rows["item"][i].folder # id
    /\ WillWrite(r, Dropping("folder", id))

-----------------------------------------------------------------------------
(* An item goes to the collection asked for, or to the default one.  Its   *)
(* folder is not looked up.                                                *)
CreateItem(r, collection, folder) ==
    /\ collection \in Live("collection")
    /\ WillWrite(r, Inserting("item", [live |-> TRUE, collection |-> collection,
                                       folder |-> folder]))

(* Any error of reading the default collection is taken for its absence:   *)
(* another one is inserted.                                                *)
CreateSecondDefault(r) ==
    /\ vaultCalls[r] = NoWrite
    /\ Len(rows["collection"]) < MaxRows["collection"]
    /\ rows' = [rows EXCEPT !["collection"] =
                  Append(@, [live |-> TRUE, name |-> DefaultName, isDefault |-> TRUE])]
    /\ vaultCalls' = [vaultCalls EXCEPT ![r] =
                        Inserting("item", [live |-> TRUE, folder |-> 0,
                                           collection |-> Len(rows'["collection"])])]
    /\ vaultCalm' = FALSE
    /\ UNCHANGED dropped

UpdateItem(r, id, collection, folder) ==
    /\ id \in Live("item")
    /\ collection = rows["item"][id].collection \/ collection \in Live("collection")
    /\ WillWrite(r, Saving("item", id, [live |-> TRUE, collection |-> collection,
                                        folder |-> folder]))

DeleteItem(r, id) ==
    /\ id \in Live("item")
    /\ WillWrite(r, Dropping("item", id))

-----------------------------------------------------------------------------
NewShare(r, item, canEdit, canShare) ==
    /\ item \in Live("item")
    /\ WillWrite(r, Inserting("share", [live |-> TRUE, item |-> item, expired |-> FALSE,
                                        canEdit |-> canEdit, canShare |-> canShare]))

(* A share the recipient may use: not revoked and not expired. *)
UsableShare(id) == id \in Live("share") /\ ~rows["share"][id].expired

CreateShare(r, item, canEdit, canShare) == NewShare(r, item, canEdit, canShare)

ReShare(r, id, canEdit, canShare) ==
    /\ UsableShare(id)
    /\ rows["share"][id].canShare
    /\ NewShare(r, rows["share"][id].item, canEdit, canShare)

(* The recipient edits the item itself, saved whole as it was read. *)
UpdateSharedItem(r, id) ==
    /\ UsableShare(id)
    /\ rows["share"][id].canEdit
    /\ rows["share"][id].item \in Live("item")
    /\ LET item == rows["share"][id].item
       IN  WillWrite(r, Saving("item", item, rows["item"][item]))

(* Other rights, and perhaps a later end or none. *)
UpdatePermissions(r, id, canEdit, canShare, renewed) ==
    /\ id \in Live("share")
    /\ WillWrite(r, Saving("share", id,
                           [rows["share"][id] EXCEPT !.canEdit = canEdit,
                                                     !.canShare = canShare,
                                                     !.expired = @ /\ ~renewed]))

RevokeShare(r, id) ==
    /\ id \in Live("share")
    /\ WillWrite(r, Dropping("share", id))

(* The end of a share passes. *)
ExpireShare(id) ==
    /\ UsableShare(id)
    /\ rows' = [rows EXCEPT !["share"][id].expired = TRUE]
    /\ UNCHANGED <<vaultCalls, dropped, vaultCalm>>

-----------------------------------------------------------------------------
EndVaultCall(r) == vaultCalls' = [vaultCalls EXCEPT ![r] = NoWrite]

InsertVaultRow(r) ==
    /\ vaultCalls[r].op = "insert"
    /\ LET t == vaultCalls[r].table
       IN  /\ Len(rows[t]) < MaxRows[t]
           /\ rows' = [rows EXCEPT ![t] = Append(@, vaultCalls[r].row)]
    /\ EndVaultCall(r)
    /\ UNCHANGED <<dropped, vaultCalm>>

(* A whole row is written back, a deleted one too; of a folder only what   *)
(* is still there.                                                         *)
SaveVaultRow(r) ==
    /\ vaultCalls[r].op = "save"
    /\ LET w == vaultCalls[r]
       IN  rows' = IF w.table = "folder" /\ w.id \notin Live("folder") THEN rows
                   ELSE [rows EXCEPT ![w.table][w.id] = w.row]
    /\ EndVaultCall(r)
    /\ UNCHANGED <<dropped, vaultCalm>>

MoveItemsToCollection(r) ==
    /\ vaultCalls[r].op = "move"
    /\ LET w == vaultCalls[r]
       IN  /\ rows' = [rows EXCEPT !["item"] =
                         [i \in DOMAIN @ |->
                            IF @[i].live /\ @[i].collection = w.from
                            THEN [@[i] EXCEPT !.collection = w.to] ELSE @[i]]]
           /\ vaultCalls' = [vaultCalls EXCEPT ![r] = Dropping("collection", w.from)]
    /\ UNCHANGED <<dropped, vaultCalm>>

DropVaultRow(r) ==
    /\ vaultCalls[r].op = "drop"
    /\ LET w == vaultCalls[r]
       IN  /\ rows' = [rows EXCEPT ![w.table][w.id].live = FALSE]
           /\ dropped' = dropped \cup {<<w.table, w.id>>}
    /\ EndVaultCall(r)
    /\ UNCHANGED vaultCalm

(* A write the database refuses ends its request; a collection whose items *)
(* were moved stays.                                                       *)
FailVaultWrite(r) ==
    /\ vaultCalls[r] # NoWrite
    /\ EndVaultCall(r)
    /\ UNCHANGED <<rows, dropped, vaultCalm>>

CollectionCreation(r) == \E name \in Names : CreateCollection(r, name)

CollectionRequest(r) ==
    \E id \in Live("collection") :
       \/ DeleteCollection(r, id)
       \/ \E name \in Names : UpdateCollection(r, id, name)

FolderRequest(r) ==
    \/ \E name \in Names :
          \/ CreateFolder(r, name)
          \/ \E id \in Live("folder") : UpdateFolder(r, id, name)
    \/ \E id \in Live("folder") : DeleteFolder(r, id)

Placements == (DOMAIN rows["collection"]) \X (0..MaxRows["folder"])

ItemCreation(r) ==
    \/ \E p \in Placements : CreateItem(r, p[1], p[2])
    \/ CreateSecondDefault(r)

ItemRequest(r) ==
    \E id \in Live("item") :
       \/ DeleteItem(r, id)
       \/ \E p \in Placements : UpdateItem(r, id, p[1], p[2])

ShareCreation(r) ==
    \E i \in Live("item"), e, s \in BOOLEAN : CreateShare(r, i, e, s)

ShareChange(r) ==
    \E id \in Live("share") :
       \/ UpdateSharedItem(r, id)
       \/ \E e, s, renewed \in BOOLEAN : UpdatePermissions(r, id, e, s, renewed)

ShareRequest(r) ==
    \E id \in Live("share") :
       \/ RevokeShare(r, id)
       \/ \E e, s \in BOOLEAN : ReShare(r, id, e, s)

VaultWrite(r) ==
    \/ InsertVaultRow(r) \/ SaveVaultRow(r) \/ MoveItemsToCollection(r)
    \/ DropVaultRow(r) \/ FailVaultWrite(r)

OrgItemsNext ==
    \/ \E r \in VaultRequests :
          \/ CollectionCreation(r) \/ CollectionRequest(r) \/ FolderRequest(r)
          \/ ItemCreation(r) \/ ItemRequest(r)
          \/ ShareCreation(r) \/ ShareChange(r) \/ ShareRequest(r)
          \/ VaultWrite(r)
    \/ \E id \in Live("share") : ExpireShare(id)

OrgItemsSpec == OrgItemsInit /\ [][OrgItemsNext]_vaultVars

-----------------------------------------------------------------------------
(* While requests come one by one, every live item is in a live collection *)
(* of the organization, also while the deletion of a collection is under   *)
(* way or has failed half-way, and there is one default collection         *)
(* (collection_service.go:229).                                            *)
NothingOrphaned ==
    vaultCalm =>
        /\ \A i \in Live("item") : rows["item"][i].collection \in Live("collection")
        /\ Cardinality(Defaults) = 1

(* While requests come one by one, a row that was deleted is not written   *)
(* back (collection.go:161, organization_item.go:204, item_share.go:134).  *)
VaultStaysDeleted ==
    vaultCalm => \A d \in dropped : d[2] \notin Live(d[1])
=============================================================================

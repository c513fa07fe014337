--------------------------- MODULE ResourceStore ---------------------------
(***************************************************************************)
(* The managed_resources table of internal/storage/sqlite.go, as operators *)
(* on a function rows from a resource key to its row (or to NoRow).        *)
(*                                                                         *)
(* The table has a UNIQUE(resource_type, hostname, record_type) constraint *)
(* and the upsert of SaveResource never changes the id of the row it hits, *)
(* so the unique key identifies a row exactly as well as its id does: the  *)
(* statements of the code that select a row "WHERE id = ?" are written     *)
(* here with the key.                                                      *)
(*                                                                         *)
(* The column updated_at is kept as the row's age, the time since the last *)
(* write: a write sets it to 0, a tick of the clock adds one up to a cap   *)
(* above which the two delays of the reconciler cannot tell ages apart.    *)
(* The statuses pending_cleanup and deleted are declared by storage.go and *)
(* written by no operator, so a row has one of the three below.            *)
(***************************************************************************)
EXTENDS Naturals

CONSTANTS
    NoRow       \* "no such row"

Statuses == {"active", "error", "orphaned"}

(* INSERT ... ON CONFLICT DO UPDATE: the row is what the caller holds in   *)
(* memory, written now.                                                    *)
SaveResource(rows, k, row) == [rows EXCEPT ![k] = [row EXCEPT !.age = 0]]

(* Mutant: the status changes and updated_at does not.                     *)
UpdateResourceStatus_KeepsAge(rows, k, status) ==
    [rows EXCEPT ![k].status = status]

UpdateResourceStatus(rows, k, status) ==
    SaveResource(rows, k, [rows[k] EXCEPT !.status = status])

(* The text of last_error is abstracted: it is set exactly when the status *)
(* becomes "error" and cleared when it becomes "active".                   *)
UpdateResourceError(rows, k, status) == UpdateResourceStatus(rows, k, status)

DeleteResource(rows, k) == [rows EXCEPT ![k] = NoRow]

HasStatus(rows, k, status) == rows[k] # NoRow /\ rows[k].status = status

(* "updated_at < cutoff" with cutoff = now - delay.                        *)
OlderThan(rows, k, delay) == rows[k].age > delay

(* Mutant: "status = 'orphaned'" is missing from the WHERE clause.         *)
ListOrphanedForCleanup_AnyStatus(rows, delay) ==
    {k \in DOMAIN rows : /\ rows[k] # NoRow
                         /\ rows[k].cleanup
                         /\ OlderThan(rows, k, delay)}

ListOrphanedForCleanup(rows, delay) ==
    {k \in DOMAIN rows : /\ HasStatus(rows, k, "orphaned")
                         /\ rows[k].cleanup
                         /\ OlderThan(rows, k, delay)}

ListExpiredOrphans(rows, ttl) ==
    {k \in DOMAIN rows : /\ HasStatus(rows, k, "orphaned")
                         /\ ~rows[k].cleanup
                         /\ OlderThan(rows, k, ttl)}

(* One unit of time passes for every row.                                  *)
NextAge(age, cap) == IF age < cap THEN age + 1 ELSE age

AgeRows(rows, cap) ==
    [k \in DOMAIN rows |->
        IF rows[k] = NoRow THEN NoRow
        ELSE [rows[k] EXCEPT !.age = NextAge(rows[k].age, cap)]]
=============================================================================

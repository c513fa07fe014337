----------------------- MODULE AccessReconcile_proofs -----------------------
(***************************************************************************)
(* Theorems about AccessReconcile, for every number of hostnames and       *)
(* policies, both delays, and every combination of faults that a theorem   *)
(* does not exclude.                                                       *)
(***************************************************************************)
EXTENDS AccessReconcile, TLAPS

Rows == [Hosts -> Row \cup {NoRow}]

----------------------------------------------------------------------------
(* Lemmas about the table's statements.                                    *)

LEMMA ZeroIsAnAge == AgeCap \in Nat /\ 0 \in 0 .. AgeCap
BY AccessDelaysAreNaturals DEF AgeCap

(* Writing a row that is in memory leaves every other row alone.           *)
LEMMA RowSaved ==
    ASSUME NEW table \in Rows, NEW h \in Hosts, NEW row \in Row
    PROVE  /\ SaveResource(table, h, row) \in Rows
           /\ SaveResource(table, h, row)[h] # NoRow
           /\ SaveResource(table, h, row)[h].status = row.status
           /\ SaveResource(table, h, row)[h].app = row.app
           /\ \A j \in Hosts \ {h} : SaveResource(table, h, row)[j] = table[j]
<1> DEFINE written == [row EXCEPT !.age = 0]
<1>1. written \in Row /\ written.app = row.app /\ written.status = row.status
  BY ZeroIsAnAge DEF Row
<1>2. /\ SaveResource(table, h, row) \in Rows
      /\ SaveResource(table, h, row)[h] = written
      /\ \A j \in Hosts \ {h} : SaveResource(table, h, row)[j] = table[j]
  BY <1>1 DEF Rows, SaveResource
<1> QED
  <2> HIDE DEF written
  <2> QED  BY <1>1, <1>2, NothingIsNoRowOrApp

(* Writing a new status into a row keeps the application it names.         *)
LEMMA RowMarked ==
    ASSUME NEW table \in Rows, NEW h \in Hosts, table[h] # NoRow, NEW status \in Statuses
    PROVE  /\ UpdateResourceStatus(table, h, status) \in Rows
           /\ UpdateResourceStatus(table, h, status)[h] # NoRow
           /\ UpdateResourceStatus(table, h, status)[h].status = status
           /\ UpdateResourceStatus(table, h, status)[h].app = table[h].app
           /\ \A j \in Hosts \ {h} : UpdateResourceStatus(table, h, status)[j] = table[j]
<1> DEFINE row == [table[h] EXCEPT !.status = status]
<1>1. table[h] \in Row
  BY DEF Rows
<1>2. row \in Row /\ row.status = status /\ row.app = table[h].app
  BY <1>1 DEF Row
<1> QED
  <2> HIDE DEF row
  <2>1. UpdateResourceStatus(table, h, status) = SaveResource(table, h, row)
    BY DEF UpdateResourceStatus, row
  <2> QED  BY <1>2, <2>1, RowSaved

(* A tick: every row stays, as it was but for its age.                     *)
LEMMA RowsAged ==
    ASSUME NEW table \in Rows
    PROVE  /\ AgeRows(table, AgeCap) \in Rows
           /\ \A h \in Hosts :
                 /\ table[h] = NoRow => AgeRows(table, AgeCap)[h] = NoRow
                 /\ table[h] # NoRow =>
                       /\ AgeRows(table, AgeCap)[h] # NoRow
                       /\ AgeRows(table, AgeCap)[h].status = table[h].status
                       /\ AgeRows(table, AgeCap)[h].app = table[h].app
<1>1. ASSUME NEW row \in Row
      PROVE  LET aged == [row EXCEPT !.age = NextAge(row.age, AgeCap)]
             IN  aged \in Row /\ aged.status = row.status /\ aged.app = row.app
  <2>1. NextAge(row.age, AgeCap) \in 0 .. AgeCap
    BY ZeroIsAnAge DEF Row, NextAge
  <2> QED
    BY <2>1 DEF Row
<1>2. AgeRows(table, AgeCap) \in Rows
  BY <1>1 DEF Rows, AgeRows
<1>3. ASSUME NEW h \in Hosts, table[h] = NoRow PROVE AgeRows(table, AgeCap)[h] = NoRow
  BY <1>3 DEF Rows, AgeRows
<1>4. ASSUME NEW h \in Hosts, table[h] # NoRow
      PROVE  /\ AgeRows(table, AgeCap)[h] # NoRow
             /\ AgeRows(table, AgeCap)[h].status = table[h].status
             /\ AgeRows(table, AgeCap)[h].app = table[h].app
  <2>1. table[h] \in Row
    BY <1>4 DEF Rows
  <2>2. AgeRows(table, AgeCap)[h] = [table[h] EXCEPT !.age = NextAge(table[h].age, AgeCap)]
    BY <1>4 DEF Rows, AgeRows
  <2> QED
    BY <1>1, <2>1, <2>2, NothingIsNoRowOrApp
<1> QED
  BY <1>2, <1>3, <1>4

LEMMA NoRowsType == NoRows \in Rows /\ AgeRows(NoRows, AgeCap) = NoRows
BY DEF NoRows, Rows, AgeRows

----------------------------------------------------------------------------
(* The inductive invariants.                                               *)

AtHost == {"policy", "app", "tidy", "save", "activate", "failed"}
Pass == AtHost \cup {"bindings"}
Cleaning == {"cleanup", "unlink", "removed"}

(* What the goroutine holds between two calls.                             *)
PhaseInv ==
    /\ pc = "idle" => todo = {}
    /\ pc \in AtHost => cur \in Hosts \ todo /\ Wanted(cur)
    /\ pc \in {"unlink", "removed"} => cur \in Hosts \ todo
    /\ pc \in Pass => \A h \in todo : Wanted(h)
    /\ pc \notin Pass => listed = NoRows
    /\ pc \notin AtHost => appID = NoId

AtWork(h) == h \in todo \/ (pc \in AtHost /\ h = cur)

(* A row of the list is still in the table; until the goroutine comes to   *)
(* its hostname it names the same application; and when the goroutine has  *)
(* dealt with a wanted hostname, it is off the list.                       *)
ListedInv ==
    \A h \in Hosts : listed[h] # NoRow =>
        /\ rows[h] # NoRow
        /\ h \in todo => rows[h].app = listed[h].app
        /\ pc = "activate" /\ h = cur => rows[h].status = listed[h].status
        /\ Wanted(h) => AtWork(h)

ActivateInv == pc = "activate" => listed[cur] # NoRow

(* A row the cleanup has still to visit is still an orphan.                *)
OrphanInv == pc \in Cleaning => \A h \in todo : HasStatus(rows, h, "orphaned")

ControlInv == TypeOK /\ PhaseInv /\ ListedInv /\ ActivateInv /\ OrphanInv

(* A wanted hostname the cycle has dealt with has no orphaned row.         *)
PassInv ==
    clean /\ pc \in Pass =>
        \A h \in Hosts : Wanted(h) => AtWork(h) \/ ~HasStatus(rows, h, "orphaned")

CleanupInv == clean /\ pc \in Cleaning => \A h \in todo : ~Wanted(h)

(* Nothing labelgate remembers is the id of an application made by hand.   *)
HandInv ==
    \A h \in Hosts : apps[h] # NoApp /\ ~apps[h].ours =>
        /\ rows[h] # NoRow => rows[h].app # apps[h].id
        /\ cur = h => appID # apps[h].id

SafeInv == ControlInv /\ PassInv /\ CleanupInv /\ HandInv

----------------------------------------------------------------------------
(* Without faults, and with orphans that do not expire.                    *)

(* The row of a hostname names its application, and there is one exactly   *)
(* if there is the other, but for the hostname the goroutine is at.        *)
Paired(h) ==
    /\ rows[h] # NoRow <=> apps[h] # NoApp
    /\ rows[h] # NoRow => rows[h].app = apps[h].id

PairInv ==
    \A h \in Hosts : Paired(h) \/ (pc \in {"tidy", "save", "unlink", "removed"} /\ h = cur)

WorkInv ==
    /\ pc # "failed"
    /\ pc = "expire" => todo = {}
    /\ pc \in Pass => \A h \in todo : rows[h] # NoRow => listed[h] # NoRow
    /\ pc \in {"policy", "app"} =>
          IF listed[cur] # NoRow
          THEN apps[cur] # NoApp /\ appID = apps[cur].id /\ old = apps[cur].policy
          ELSE apps[cur] = NoApp /\ appID = NoId
    /\ pc \in {"tidy", "save"} => apps[cur] # NoApp /\ appID = apps[cur].id
    /\ pc = "tidy" => apps[cur].policy = link
    /\ pc \in {"unlink", "removed"} => apps[cur] = NoApp

(* A policy without an application is one the goroutine is about to link   *)
(* or to delete.                                                           *)
StrayInv ==
    \A p \in policies :
        \/ InUse(p)
        \/ pc = "app" /\ p = link
        \/ pc \in {"tidy", "unlink"} /\ p = old

TidyInv == ControlInv /\ PairInv /\ WorkInv /\ StrayInv

----------------------------------------------------------------------------
(* What the writes of the table do.                                        *)

(* The step wrote h's row with this status and application, or marked the  *)
(* cycle because it could not.                                             *)
Wrote(h, status, app) ==
    /\ rows' \in Rows
    /\ \A j \in Hosts \ {h} : rows'[j] = rows[j]
    /\ \/ /\ rows'[h] # NoRow /\ rows'[h].status = status /\ rows'[h].app = app
          /\ clean' = clean
       \/ rows' = rows /\ clean' = FALSE

LEMMA StoreSaves ==
    ASSUME TypeOK, NEW h \in Hosts, NEW row \in Row, Store(SaveResource(rows, h, row))
    PROVE  Wrote(h, row.status, row.app)
<1>1. rows \in Rows
  BY DEF TypeOK, Rows
<1> QED
  BY <1>1, RowSaved DEF Store, Wrote

LEMMA StoreMarks ==
    ASSUME TypeOK, NEW h \in Hosts, rows[h] # NoRow, NEW status \in Statuses,
           Store(UpdateResourceStatus(rows, h, status))
    PROVE  Wrote(h, status, rows[h].app)
<1>1. rows \in Rows
  BY DEF TypeOK, Rows
<1> QED
  BY <1>1, RowMarked DEF Store, Wrote

LEMMA StoreDeletes ==
    ASSUME TypeOK, NEW h \in Hosts, Store(DeleteResource(rows, h))
    PROVE  /\ rows' \in Rows /\ clean' \in BOOLEAN
           /\ \A j \in Hosts \ {h} : rows'[j] = rows[j]
           /\ \/ rows'[h] = NoRow /\ clean' = clean
              \/ rows' = rows /\ clean' = FALSE
<1>1. rows \in Rows /\ clean \in BOOLEAN
  BY DEF TypeOK, Rows
<1>2. /\ DeleteResource(rows, h) \in Rows
      /\ DeleteResource(rows, h)[h] = NoRow
      /\ \A j \in Hosts \ {h} : DeleteResource(rows, h)[j] = rows[j]
  BY <1>1 DEF Rows, DeleteResource
<1>3. \/ rows' = DeleteResource(rows, h) /\ clean' = clean
      \/ rows' = rows /\ clean' = FALSE
  BY DEF Store
<1>4. CASE rows' = DeleteResource(rows, h) /\ clean' = clean
  BY <1>1, <1>2, <1>4
<1>5. CASE rows' = rows /\ clean' = FALSE
  BY <1>1, <1>5
<1> QED
  BY <1>3, <1>4, <1>5

LEMMA SavedRowType ==
    ASSUME ControlInv, pc = "save"
    PROVE  /\ SavedRow \in Row /\ SavedRow.app = appID
           /\ listed[cur] = NoRow => SavedRow.status = "active"
           /\ listed[cur] # NoRow => SavedRow.status = listed[cur].status
<1>1. cur \in Hosts /\ desired[cur] \in Bindings /\ TypeOK
  BY DEF ControlInv, TypeOK, PhaseInv, AtHost, Wanted, Views
<1>2. listed[cur] # NoRow => listed[cur] \in Row
  BY <1>1 DEF TypeOK
<1> QED
  BY <1>1, <1>2, ZeroIsAnAge DEF SavedRow, Row, Bindings, Statuses, TypeOK

(* SaveBinding: the row of the hostname names the application at hand, or  *)
(* nothing was written.                                                    *)
LEMMA SaveBindingWrites ==
    ASSUME ControlInv, SaveBinding
    PROVE  /\ cur \in Hosts /\ cur \notin todo
           /\ \A j \in Hosts \ {cur} : rows'[j] = rows[j]
           /\ \/ /\ rows' \in Rows /\ rows'[cur] # NoRow /\ rows'[cur].app = appID
                 /\ rows'[cur].status =
                       IF listed[cur] = NoRow THEN "active" ELSE listed[cur].status
                 /\ clean' = clean
                 /\ pc' = IF listed[cur] = NoRow THEN "bindings" ELSE "activate"
                 /\ cur' = IF listed[cur] = NoRow THEN Nobody ELSE cur
              \/ /\ pc' = "failed" /\ cur' = cur
                 /\ rows' = rows /\ clean' = FALSE
                 /\ May("storage")
<1>1. rows \in Rows /\ cur \in Hosts /\ cur \notin todo
  BY DEF ControlInv, TypeOK, PhaseInv, AtHost, Rows, SaveBinding
<1>2. CASE rows' = SaveResource(rows, cur, SavedRow) /\ clean' = clean
           /\ pc' = (IF listed[cur] = NoRow THEN "bindings" ELSE "activate")
           /\ cur' = (IF listed[cur] = NoRow THEN Nobody ELSE cur)
  <2>1. /\ SavedRow \in Row /\ SavedRow.app = appID
        /\ listed[cur] = NoRow => SavedRow.status = "active"
        /\ listed[cur] # NoRow => SavedRow.status = listed[cur].status
    BY SavedRowType DEF SaveBinding
  <2> HIDE DEF SavedRow
  <2> QED
    BY <1>1, <1>2, <2>1, RowSaved
<1>3. CASE pc' = "failed" /\ cur' = cur /\ rows' = rows /\ clean' = FALSE /\ May("storage")
  BY <1>1, <1>3
<1> QED
  BY <1>2, <1>3 DEF SaveBinding

(* Activate and RecordFailure leave the row active, or with an error, and  *)
(* the hostname off the list.                                              *)
LEMMA LeavingWrites ==
    ASSUME ControlInv, Activate \/ RecordFailure
    PROVE  /\ cur \in Hosts /\ cur \notin todo
           /\ \E status \in {"active", "error"}, app \in Ids \cup {NoId} :
                 /\ app = NoId \/ (rows[cur] # NoRow /\ app = rows[cur].app)
                 /\ Wrote(cur, status, app)
<1>1. /\ TypeOK /\ ListedInv /\ rows \in Rows /\ cur \in Hosts /\ cur \notin todo
      /\ desired[cur] \in Bindings
      /\ "active" \in Statuses /\ "error" \in Statuses
  BY DEF ControlInv, TypeOK, PhaseInv, AtHost, Rows, Activate, RecordFailure,
         Wanted, Views, Statuses
<1>2. rows[cur] # NoRow => rows[cur].app \in Ids \cup {NoId}
  BY <1>1 DEF TypeOK, Row
<1>3. CASE Activate
  <2>1. listed[cur] # NoRow /\ rows[cur] # NoRow /\ rows[cur].status = listed[cur].status
    BY <1>1, <1>3 DEF ControlInv, ActivateInv, ListedInv, Activate
  <2>2. Wrote(cur, "active", rows[cur].app)
    <3>1. CASE listed[cur].status # "active"
      BY <1>1, <1>3, <2>1, <3>1, StoreMarks DEF Activate, UpdateResourceError
    <3>2. CASE listed[cur].status = "active"
      BY <1>1, <1>3, <2>1, <3>2 DEF Activate, Wrote
    <3> QED
      BY <3>1, <3>2
  <2> QED
    BY <1>1, <1>2, <2>1, <2>2
<1>4. CASE RecordFailure
  <2>1. CASE listed[cur] # NoRow
    <3>1. rows[cur] # NoRow
      BY <1>1, <2>1 DEF ListedInv
    <3>2. Wrote(cur, "error", rows[cur].app)
      BY <1>1, <1>4, <2>1, <3>1, StoreMarks DEF RecordFailure, UpdateResourceError
    <3> QED
      BY <1>1, <1>2, <3>1, <3>2
  <2>2. CASE listed[cur] = NoRow
    <3> DEFINE row == [status |-> "error", app |-> NoId,
                       cleanup |-> desired[cur].cleanup, age |-> 0]
    <3>1. row \in Row /\ row.status = "error" /\ row.app = NoId
      BY <1>1, ZeroIsAnAge DEF Row, Bindings
    <3>2. Store(SaveResource(rows, cur, row))
      BY <1>4, <2>2 DEF RecordFailure
    <3> HIDE DEF row
    <3>3. Wrote(cur, "error", NoId)
      BY <1>1, <3>1, <3>2, StoreSaves
    <3> QED
      BY <1>1, <3>3
  <2> QED
    BY <2>1, <2>2
<1> QED
  BY <1>3, <1>4

LEMMA MarkOrphanedWrites ==
    ASSUME ControlInv, NEW h \in Hosts, MarkOrphaned(h)
    PROVE  /\ rows[h] # NoRow /\ ~Wanted(h)
           /\ Wrote(h, "orphaned", rows[h].app) \/ UNCHANGED <<rows, clean>>
<1>1. /\ TypeOK /\ ListedInv /\ PhaseInv /\ "orphaned" \in Statuses
      /\ listed[h] # NoRow /\ todo = {} /\ pc = "bindings"
  BY DEF ControlInv, Statuses, MarkOrphaned
<1>2. rows[h] # NoRow /\ ~Wanted(h)
  BY <1>1 DEF ListedInv, AtWork, AtHost
<1> QED
  BY <1>1, <1>2, StoreMarks DEF MarkOrphaned

(* A fresh id is an id the hostname's row and the goroutine do not hold.   *)
LEMMA FreshIdIsFresh ==
    ASSUME NEW h \in Hosts
    PROVE  FreshId(h) \in Ids /\ FreshId(h) \notin IdsHeld(h)
<1>1. \A a, b : \E i \in Ids : i # a /\ i # b
  BY DEF Ids
<1>2. \E i \in Ids : i \notin IdsHeld(h)
  <2>1. PICK a, b : IdsHeld(h) \subseteq {a, b}
    BY DEF IdsHeld
  <2> QED
    BY <1>1, <2>1
<1> QED
  BY <1>2 DEF FreshId

----------------------------------------------------------------------------
(* What the goroutine holds is what it takes it for, whatever fails.       *)

LEMMA InitSafe == Init => SafeInv
<1> SUFFICES ASSUME Init PROVE SafeInv
  OBVIOUS
<1>1. TypeOK
  BY NoRowsType DEF Init, TypeOK, Views, Phases, Rows
<1> QED
  BY <1>1
  DEF Init, NoRows, SafeInv, ControlInv, PhaseInv, ListedInv, ActivateInv, OrphanInv,
      PassInv, CleanupInv, HandInv, AtHost, Pass, Cleaning

(* The steps between two writes of the table, while the goroutine is at a  *)
(* hostname.                                                               *)
AtCloudflare ==
    \/ \E p \in Policies : FindPolicy(p)
    \/ CreatePolicy \/ PolicyFails
    \/ UpdateApplication \/ UpdateFails
    \/ CreateApplication \/ CreateFails
    \/ Tidy

LEMMA LinkedType ==
    ASSUME TypeOK, cur \in Hosts
    PROVE  /\ Created \in [Hosts -> Apps \cup {NoApp}]
           /\ Created[cur].ours /\ Created[cur].id = FreshId(cur) /\ Created[cur].policy = link
           /\ Created[cur] # NoApp
           /\ \A h \in Hosts \ {cur} : Created[h] = apps[h]
           /\ apps[cur] # NoApp =>
                 /\ Linked \in [Hosts -> Apps \cup {NoApp}]
                 /\ Linked[cur].ours = apps[cur].ours /\ Linked[cur].id = apps[cur].id
                 /\ Linked[cur].policy = link /\ Linked[cur] # NoApp
                 /\ \A h \in Hosts \ {cur} : Linked[h] = apps[h]
<1> DEFINE app == [id |-> FreshId(cur), policy |-> link, ours |-> TRUE]
<1>1. app \in Apps /\ app.ours /\ app.id = FreshId(cur) /\ app.policy = link
  BY FreshIdIsFresh DEF TypeOK, Apps
<1>2. /\ Created \in [Hosts -> Apps \cup {NoApp}]
      /\ Created[cur] = app
      /\ \A h \in Hosts \ {cur} : Created[h] = apps[h]
  <2>1. Created = [apps EXCEPT ![cur] = app]
    BY DEF Created
  <2> HIDE DEF app
  <2> QED
    BY <1>1, <2>1 DEF TypeOK
<1>3. ASSUME apps[cur] # NoApp
      PROVE  /\ Linked \in [Hosts -> Apps \cup {NoApp}]
             /\ Linked[cur].ours = apps[cur].ours /\ Linked[cur].id = apps[cur].id
             /\ Linked[cur].policy = link /\ Linked[cur] # NoApp
             /\ \A h \in Hosts \ {cur} : Linked[h] = apps[h]
  <2> DEFINE linked == [apps[cur] EXCEPT !.policy = link]
  <2>1. linked \in Apps /\ linked.ours = apps[cur].ours /\ linked.id = apps[cur].id
        /\ linked.policy = link
    BY <1>3 DEF TypeOK, Apps
  <2>2. Linked = [apps EXCEPT ![cur] = linked]
    BY DEF Linked
  <2> HIDE DEF linked
  <2> QED
    BY <2>1, <2>2, NothingIsNoRowOrApp DEF TypeOK
<1> QED
  <2> HIDE DEF app
  <2> QED  BY <1>1, <1>2, <1>3, NothingIsNoRowOrApp

LEMMA AtCloudflareStep ==
    ASSUME ControlInv, AtCloudflare
    PROVE  /\ pc \in AtHost \ {"activate"} /\ pc' \in AtHost \ {"activate"}
           /\ UNCHANGED <<desired, rows, cur, todo, listed, quiet, clean>>
           /\ apps' = apps \/ (apps' = Linked /\ IsApp(cur, appID) /\ appID # NoId)
                           \/ (apps' = Created /\ apps[cur] = NoApp)
           /\ appID' \in {appID, NoId, FreshId(cur)}
           /\ appID' = FreshId(cur) => appID' = appID \/ apps' = Created
           /\ policies' \subseteq policies \cup {desired[cur].policy}
           /\ old' \in {old, NoPolicy}
           /\ link' \in policies \cup {desired[cur].policy, link, NoPolicy}
<1> USE DEF AtHost
<1>1. ASSUME NEW p \in Policies, FindPolicy(p) PROVE link' \in policies
  BY <1>1 DEF FindPolicy
<1>2. FreshId(cur) \in Ids /\ NoId \notin Ids /\ cur \in Hosts
  <2>1. cur \in Hosts
    BY DEF ControlInv, PhaseInv, AtCloudflare, FindPolicy, CreatePolicy, PolicyFails,
           UpdateApplication, UpdateFails, CreateApplication, CreateFails, Tidy
  <2> QED  BY <2>1, FreshIdIsFresh DEF NoId, Ids
<1>3. CASE \E p \in Policies : FindPolicy(p)
  BY <1>3 DEF FindPolicy
<1>4. CASE CreatePolicy \/ PolicyFails
  BY <1>2, <1>4 DEF CreatePolicy, PolicyFails, Fail
<1>5. CASE UpdateApplication \/ UpdateFails
  BY <1>2, <1>5 DEF UpdateApplication, UpdateFails, Fail
<1>6. CASE CreateApplication \/ CreateFails
  BY <1>2, <1>6 DEF CreateApplication, CreateFails, Fail
<1>7. CASE Tidy
  BY <1>2, <1>7 DEF Tidy, TryDeleteReusablePolicy
<1> QED
  BY <1>3, <1>4, <1>5, <1>6, <1>7 DEF AtCloudflare

LEMMA AtCloudflareControl ==
    ASSUME ControlInv, AtCloudflare
    PROVE  ControlInv'
<1> USE DEF AtHost, Pass, Cleaning
<1>1. TypeOK /\ PhaseInv /\ ListedInv
  BY DEF ControlInv
<1>2. /\ pc \in AtHost \ {"activate"} /\ pc' \in AtHost \ {"activate"}
      /\ UNCHANGED <<desired, rows, cur, todo, listed, quiet, clean>>
  BY AtCloudflareStep
<1>3. cur \in Hosts /\ desired[cur] \in Bindings /\ desired[cur].policy \in Policies
  BY <1>1, <1>2 DEF PhaseInv, TypeOK, Wanted, Views, Bindings
<1>4. apps' \in [Hosts -> Apps \cup {NoApp}]
  BY <1>1, <1>3, AtCloudflareStep, LinkedType DEF TypeOK, IsApp
<1>5. appID' \in Ids \cup {NoId}
  BY <1>1, <1>3, AtCloudflareStep, FreshIdIsFresh DEF TypeOK
<1>6. /\ policies' \subseteq Policies
      /\ old' \in Policies \cup {NoPolicy} /\ link' \in Policies \cup {NoPolicy}
  BY <1>1, <1>3, AtCloudflareStep DEF TypeOK
<1>7. TypeOK'
  BY <1>1, <1>2, <1>4, <1>5, <1>6 DEF TypeOK, Phases
<1>8. PhaseInv' /\ ListedInv' /\ ActivateInv' /\ OrphanInv'
  BY <1>1, <1>2 DEF PhaseInv, ListedInv, ActivateInv, OrphanInv, AtWork, Wanted
<1> QED
  BY <1>7, <1>8 DEF ControlInv

(* The steps that write the table while the goroutine is at a hostname.    *)
LEMMA WritingControl ==
    ASSUME ControlInv, SaveBinding \/ Activate \/ RecordFailure
    PROVE  ControlInv'
<1> USE DEF AtHost, Pass, Cleaning
<1>1. TypeOK /\ PhaseInv /\ ListedInv /\ NoId \in Ids \cup {NoId}
  BY DEF ControlInv
<1>2. CASE SaveBinding
  <2>1. /\ pc = "save" /\ appID' = NoId /\ old' = NoPolicy /\ link' = NoPolicy
        /\ UNCHANGED <<desired, apps, policies, todo, listed, quiet>>
    BY <1>2 DEF SaveBinding
  <2>2. /\ rows' \in Rows /\ clean' \in BOOLEAN
        /\ \A j \in Hosts \ {cur} : rows'[j] = rows[j]
        /\ cur \in Hosts /\ cur \notin todo
        /\ rows[cur] # NoRow => rows'[cur] # NoRow
        /\ pc' \in {"bindings", "activate", "failed"} /\ cur' \in {cur, Nobody}
        /\ pc' # "bindings" => cur' = cur
        /\ pc' = "bindings" => listed[cur] = NoRow
        /\ pc' = "activate" => listed[cur] # NoRow /\ rows'[cur].status = listed[cur].status
    <3>1. clean \in BOOLEAN /\ rows \in Rows
      BY <1>1 DEF TypeOK, Rows
    <3> QED
      BY <1>2, <3>1, SaveBindingWrites
  <2>3. TypeOK'
    BY <1>1, <2>1, <2>2 DEF TypeOK, Phases, Rows
  <2>4. PhaseInv' /\ ActivateInv' /\ OrphanInv'
    BY <1>1, <2>1, <2>2 DEF PhaseInv, ActivateInv, OrphanInv, Wanted
  <2>5. ListedInv'
    BY <1>1, <2>1, <2>2 DEF ListedInv, AtWork, Wanted
  <2> QED  BY <2>3, <2>4, <2>5 DEF ControlInv
<1>3. CASE Activate \/ RecordFailure
  <2>1. /\ pc \in {"activate", "failed"} /\ pc' = "bindings" /\ cur' = Nobody
        /\ appID' = NoId /\ old' = NoPolicy /\ link' = NoPolicy
        /\ listed' = [listed EXCEPT ![cur] = NoRow]
        /\ UNCHANGED <<desired, apps, policies, todo, quiet>>
    BY <1>3 DEF Activate, RecordFailure, Leave
  <2>2. /\ rows' \in Rows /\ clean' \in BOOLEAN
        /\ \A j \in Hosts \ {cur} : rows'[j] = rows[j]
        /\ cur \in Hosts /\ cur \notin todo
    <3>1. clean \in BOOLEAN /\ rows \in Rows
      BY <1>1 DEF TypeOK, Rows
    <3> QED
      BY <1>3, <3>1, LeavingWrites DEF Wrote
  <2>3. TypeOK'
    BY <1>1, <2>1, <2>2 DEF TypeOK, Phases, Rows
  <2>4. PhaseInv' /\ ActivateInv' /\ OrphanInv'
    BY <1>1, <2>1, <2>2 DEF PhaseInv, ActivateInv, OrphanInv, Wanted
  <2>5. ASSUME NEW h \in Hosts, listed'[h] # NoRow PROVE h # cur /\ listed'[h] = listed[h]
    BY <1>1, <2>1, <2>2, <2>5 DEF TypeOK
  <2>6. ListedInv'
    BY <1>1, <2>1, <2>2, <2>5 DEF ListedInv, AtWork, Wanted
  <2> QED  BY <2>3, <2>4, <2>6 DEF ControlInv
<1> QED
  BY <1>2, <1>3

LEMMA ReconcilingControl == ControlInv /\ Reconciling => ControlInv'
<1> SUFFICES ASSUME ControlInv, Reconciling PROVE ControlInv'
  OBVIOUS
<1> USE DEF AtHost, Pass, Cleaning
<1>1. /\ TypeOK /\ PhaseInv /\ ListedInv /\ ActivateInv /\ OrphanInv
      /\ rows \in Rows /\ listed \in Rows
  BY DEF ControlInv, TypeOK, Rows
<1>2. ASSUME NEW view \in Views, StartReconcile(view) PROVE ControlInv'
  <2>1. TypeOK'
    BY <1>1, <1>2 DEF TypeOK, StartReconcile, Phases
  <2>2. PhaseInv' /\ ActivateInv' /\ OrphanInv'
    BY <1>1, <1>2 DEF PhaseInv, ActivateInv, OrphanInv, StartReconcile, Wanted
  <2>3. ListedInv'
    BY <1>1, <1>2 DEF PhaseInv, ListedInv, StartReconcile, AtWork, Wanted, NoRows
  <2> QED  BY <2>1, <2>2, <2>3 DEF ControlInv
<1>3. ASSUME NEW h \in Hosts, BeginUpdate(h) \/ BeginCreate(h) PROVE ControlInv'
  <2>1. /\ pc = "bindings" /\ h \in todo /\ todo' = todo \ {h} /\ cur' = h
        /\ pc' \in {"policy", "failed"}
        /\ UNCHANGED <<desired, rows, apps, policies, listed, link, quiet, clean>>
    BY <1>3 DEF BeginUpdate, BeginCreate
  <2>2. appID' \in Ids \cup {NoId} /\ old' \in Policies \cup {NoPolicy}
    <3>1. CASE BeginCreate(h)
      BY <1>1, <3>1 DEF TypeOK, BeginCreate
    <3>2. CASE BeginUpdate(h)
      <4>1. listed[h].app \in Ids \cup {NoId}
        BY <1>1, <3>2 DEF TypeOK, BeginUpdate, Row
      <4>2. PolicyOf(h, listed[h].app) \in Policies \cup {NoPolicy}
        BY <1>1 DEF TypeOK, PolicyOf, IsApp, Apps
      <4> QED
        BY <3>2, <4>1, <4>2 DEF BeginUpdate
    <3> QED
      BY <1>3, <3>1, <3>2
  <2>3. TypeOK'
    BY <1>1, <2>1, <2>2 DEF TypeOK, Phases
  <2>4. PhaseInv' /\ ActivateInv' /\ OrphanInv'
    BY <1>1, <2>1 DEF PhaseInv, ActivateInv, OrphanInv, Wanted
  <2>5. ListedInv'
    BY <1>1, <2>1 DEF ListedInv, AtWork, Wanted
  <2> QED  BY <2>3, <2>4, <2>5 DEF ControlInv
<1>4. ASSUME NEW h \in Hosts, MarkOrphaned(h) PROVE ControlInv'
  <2>1. /\ pc = "bindings" /\ todo = {}
        /\ listed' = [listed EXCEPT ![h] = NoRow]
        /\ UNCHANGED <<desired, apps, policies, pc, cur, todo, appID, old, link, quiet>>
    BY <1>4 DEF MarkOrphaned
  <2>2. /\ rows' \in Rows /\ clean' \in BOOLEAN
        /\ \A j \in Hosts \ {h} : rows'[j] = rows[j]
    <3>1. clean \in BOOLEAN
      BY <1>1 DEF TypeOK
    <3> QED
      BY <1>1, <1>4, <3>1, MarkOrphanedWrites DEF Wrote
  <2>3. TypeOK'
    BY <1>1, <2>1, <2>2 DEF TypeOK, Rows
  <2>4. PhaseInv' /\ ActivateInv' /\ OrphanInv'
    BY <1>1, <2>1 DEF PhaseInv, ActivateInv, OrphanInv, Wanted
  <2>5. ASSUME NEW j \in Hosts, listed'[j] # NoRow PROVE j # h /\ listed'[j] = listed[j]
    BY <1>1, <2>1, <2>5 DEF TypeOK
  <2>6. ListedInv'
    BY <1>1, <2>1, <2>2, <2>5 DEF ListedInv, AtWork, Wanted
  <2> QED  BY <2>3, <2>4, <2>6 DEF ControlInv
<1>5. ASSUME ListForCleanup PROVE ControlInv'
  <2>1. todo' \subseteq Hosts /\ \A h \in todo' : HasStatus(rows, h, "orphaned")
    <3>1. ListOrphanedForCleanup(rows, RemoveDelay) \subseteq Hosts
      BY <1>1 DEF Rows, ListOrphanedForCleanup, ListExpiredOrphans
    <3>2. \A h \in ListOrphanedForCleanup(rows, RemoveDelay) : HasStatus(rows, h, "orphaned")
      BY <1>1 DEF Rows, ListOrphanedForCleanup, ListExpiredOrphans
    <3> QED  BY <1>5, <3>1, <3>2 DEF ListForCleanup
  <2>2. /\ pc = "bindings" /\ pc' = "cleanup" /\ listed = NoRows /\ clean' \in BOOLEAN
        /\ UNCHANGED <<desired, rows, apps, policies, cur, listed, appID, old, link, quiet>>
    BY <1>1, <1>5 DEF ListForCleanup, TypeOK
  <2>3. TypeOK'
    BY <1>1, <2>1, <2>2 DEF TypeOK, Phases
  <2>4. PhaseInv' /\ ActivateInv' /\ OrphanInv' /\ ListedInv'
    BY <1>1, <2>1, <2>2 DEF PhaseInv, ActivateInv, OrphanInv, ListedInv, HasStatus, NoRows
  <2> QED  BY <2>3, <2>4 DEF ControlInv
<1>6. ASSUME NEW h \in Hosts, DeleteApplication(h) \/ DeleteFails(h) PROVE ControlInv'
  <2>1. /\ pc = "cleanup" /\ h \in todo /\ todo' = todo \ {h}
        /\ pc' \in {"cleanup", "unlink", "removed"}
        /\ pc' # "cleanup" => cur' = h
        /\ cur' \in {cur, h}
        /\ apps' \in {apps, [apps EXCEPT ![h] = NoApp]}
        /\ UNCHANGED <<desired, rows, policies, listed, appID, link, quiet, clean>>
    BY <1>6 DEF DeleteApplication, DeleteFails
  <2>2. old' \in Policies \cup {NoPolicy}
    BY <1>1, <1>6 DEF DeleteApplication, DeleteFails, IsApp, TypeOK, Apps
  <2>3. TypeOK'
    BY <1>1, <2>1, <2>2 DEF TypeOK, Phases
  <2>4. PhaseInv' /\ ActivateInv' /\ OrphanInv' /\ ListedInv'
    BY <1>1, <2>1 DEF PhaseInv, ActivateInv, OrphanInv, ListedInv, HasStatus, NoRows
  <2> QED  BY <2>3, <2>4 DEF ControlInv
<1>7. ASSUME UnlinkPolicy PROVE ControlInv'
  <2>1. TypeOK'
    BY <1>1, <1>7 DEF TypeOK, UnlinkPolicy, TryDeleteReusablePolicy, Phases
  <2>2. PhaseInv' /\ ActivateInv' /\ OrphanInv' /\ ListedInv'
    BY <1>1, <1>7
    DEF UnlinkPolicy, PhaseInv, ActivateInv, OrphanInv, ListedInv, HasStatus, NoRows
  <2> QED  BY <2>1, <2>2 DEF ControlInv
<1>8. ASSUME DeleteRow PROVE ControlInv'
  <2>1. /\ pc = "removed" /\ pc' = "cleanup" /\ cur' = Nobody /\ appID' = NoId
        /\ old' = NoPolicy /\ link' = NoPolicy
        /\ UNCHANGED <<desired, apps, policies, todo, listed, quiet>>
        /\ Store(DeleteResource(rows, cur))
    BY <1>8 DEF DeleteRow, Leave
  <2>2. cur \in Hosts \ todo
    BY <1>1, <2>1 DEF PhaseInv
  <2>3. /\ rows' \in Rows /\ clean' \in BOOLEAN
        /\ \A j \in Hosts \ {cur} : rows'[j] = rows[j]
    BY <1>1, <2>1, <2>2, StoreDeletes
  <2>4. TypeOK'
    BY <1>1, <2>1, <2>3 DEF TypeOK, Phases, Rows
  <2>5. PhaseInv' /\ ActivateInv' /\ ListedInv'
    BY <1>1, <2>1 DEF PhaseInv, ActivateInv, ListedInv, NoRows
  <2>6. OrphanInv'
    BY <1>1, <2>1, <2>2, <2>3 DEF TypeOK, OrphanInv, HasStatus
  <2> QED  BY <2>4, <2>5, <2>6 DEF ControlInv
<1>9. ASSUME NEW h \in Hosts, ExpireRow(h) PROVE ControlInv'
  <2>1. /\ pc = "expire" /\ todo' = todo \ {h}
        /\ UNCHANGED <<desired, apps, policies, pc, cur, listed, appID, old, link, quiet>>
        /\ Store(DeleteResource(rows, h))
    BY <1>9 DEF ExpireRow
  <2>2. rows' \in Rows /\ clean' \in BOOLEAN
    BY <1>1, <2>1, StoreDeletes
  <2>3. TypeOK'
    BY <1>1, <2>1, <2>2 DEF TypeOK, Rows
  <2>4. PhaseInv' /\ ActivateInv' /\ ListedInv' /\ OrphanInv'
    BY <1>1, <2>1 DEF PhaseInv, ActivateInv, ListedInv, OrphanInv, NoRows
  <2> QED  BY <2>3, <2>4 DEF ControlInv
<1>10. ASSUME ListExpired \/ FinishReconcile PROVE ControlInv'
  <2>1. /\ pc' \in {"expire", "idle"} /\ todo' \subseteq Hosts /\ clean' \in BOOLEAN
        /\ pc' = "idle" => todo' = {}
        /\ pc \in {"cleanup", "expire"}
        /\ UNCHANGED <<desired, rows, apps, policies, cur, listed, appID, old, link, quiet>>
    <3>1. ListExpiredOrphans(rows, OrphanTTL) \subseteq Hosts
      BY <1>1 DEF Rows, ListOrphanedForCleanup, ListExpiredOrphans
    <3> QED
      BY <1>1, <1>10, <3>1 DEF ListExpired, FinishReconcile, TypeOK
  <2>2. TypeOK'
    BY <1>1, <2>1 DEF TypeOK, Phases
  <2>3. PhaseInv' /\ ActivateInv' /\ ListedInv' /\ OrphanInv'
    BY <1>1, <2>1 DEF PhaseInv, ActivateInv, ListedInv, OrphanInv, NoRows
  <2> QED  BY <2>2, <2>3 DEF ControlInv
<1> QED
  BY <1>2, <1>3, <1>4, <1>5, <1>6, <1>7, <1>8, <1>9, <1>10,
     AtCloudflareControl, WritingControl
  DEF Reconciling, AtCloudflare

LEMMA EnvironmentControl == ControlInv /\ Environment => ControlInv'
<1> SUFFICES ASSUME ControlInv, Environment PROVE ControlInv'
  OBVIOUS
<1> USE DEF AtHost, Pass, Cleaning
<1>1. /\ TypeOK /\ PhaseInv /\ ListedInv /\ ActivateInv /\ OrphanInv
      /\ rows \in Rows /\ listed \in Rows
  BY DEF ControlInv, TypeOK, Rows
<1>2. ASSUME Crash PROVE ControlInv'
  <2>1. TypeOK'
    BY <1>1, <1>2, NoRowsType DEF TypeOK, Crash, Leave, Phases, Rows
  <2>2. PhaseInv' /\ ActivateInv' /\ ListedInv' /\ OrphanInv'
    BY <1>1, <1>2 DEF PhaseInv, ActivateInv, ListedInv, OrphanInv, NoRows, Crash, Leave
  <2> QED  BY <2>1, <2>2 DEF ControlInv
<1>3. ASSUME BecomeQuiet \/ \E h \in Hosts : UserDeletes(h) \/ UserCreates(h)
      PROVE  ControlInv'
  <2>1. UNCHANGED <<desired, rows, policies, cycle, clean>> /\ quiet' \in BOOLEAN
    BY <1>1, <1>3 DEF BecomeQuiet, UserDeletes, UserCreates, TypeOK
  <2>2. apps' \in [Hosts -> Apps \cup {NoApp}]
    <3>1. ASSUME NEW h \in Hosts, UserCreates(h)
          PROVE  apps' \in [Hosts -> Apps \cup {NoApp}]
      <4>1. [id |-> FreshId(h), policy |-> NoPolicy, ours |-> FALSE] \in Apps
        BY FreshIdIsFresh DEF Apps
      <4> QED
        BY <1>1, <3>1, <4>1 DEF TypeOK, UserCreates
    <3> QED
      BY <1>1, <1>3, <3>1 DEF TypeOK, BecomeQuiet, UserDeletes
  <2>3. TypeOK'
    BY <1>1, <2>1, <2>2 DEF TypeOK, cycle
  <2>4. PhaseInv' /\ ActivateInv' /\ ListedInv' /\ OrphanInv'
    BY <1>1, <2>1
    DEF cycle, PhaseInv, ActivateInv, ListedInv, OrphanInv, AtWork, Wanted, HasStatus
  <2> QED  BY <2>3, <2>4 DEF ControlInv
<1>4. ASSUME Tick PROVE ControlInv'
  <2>1. /\ rows' = AgeRows(rows, AgeCap) /\ listed' = AgeRows(listed, AgeCap)
        /\ UNCHANGED <<desired, apps, policies, pc, cur, todo, appID, old, link, quiet, clean>>
    BY <1>4 DEF Tick
  <2>2. TypeOK'
    BY <1>1, <2>1, RowsAged DEF TypeOK, Rows
  <2>3. PhaseInv'
    BY <1>1, <2>1, NoRowsType DEF PhaseInv, Wanted, NoRows
  <2>4. /\ \A h \in Hosts :
              /\ rows[h] # NoRow =>
                    /\ rows'[h] # NoRow
                    /\ rows'[h].status = rows[h].status /\ rows'[h].app = rows[h].app
              /\ listed'[h] # NoRow <=> listed[h] # NoRow
              /\ listed[h] # NoRow =>
                    /\ listed'[h].status = listed[h].status /\ listed'[h].app = listed[h].app
    BY <1>1, <2>1, RowsAged
  <2>5. ListedInv'
    BY <1>1, <2>1, <2>4 DEF ListedInv, AtWork, Wanted
  <2>6. ActivateInv' /\ OrphanInv'
    BY <1>1, <2>1, <2>4 DEF ActivateInv, OrphanInv, PhaseInv, TypeOK, HasStatus
  <2> QED  BY <2>2, <2>3, <2>5, <2>6 DEF ControlInv
<1> QED
  BY <1>2, <1>3, <1>4 DEF Environment

LEMMA ControlInvIsInvariant == Spec => []ControlInv
<1>1. ControlInv /\ [Next]_vars => ControlInv'
  <2> SUFFICES ASSUME ControlInv, [Next]_vars PROVE ControlInv'
    OBVIOUS
  <2>1. CASE UNCHANGED vars
    BY <2>1
    DEF vars, cycle, ControlInv, TypeOK, PhaseInv, ListedInv, ActivateInv, OrphanInv,
        AtWork, Wanted, HasStatus
  <2> QED
    BY <2>1, ReconcilingControl, EnvironmentControl DEF Next
<1>2. Init => ControlInv
  BY InitSafe DEF SafeInv
<1> QED
  BY <1>1, <1>2, PTL DEF Spec

(* The operator never works on a row, an application or a binding that is  *)
(* not there, whatever fails or is deleted meanwhile.                      *)
THEOREM TypeCorrect == Spec => []TypeOK
<1>1. ControlInv => TypeOK
  BY DEF ControlInv
<1> QED
  BY <1>1, ControlInvIsInvariant, PTL

----------------------------------------------------------------------------
(* The cleanup and the hostnames a cycle wants.                            *)

LEMMA ReconcilingWanted ==
    ControlInv /\ PassInv /\ CleanupInv /\ Reconciling => PassInv' /\ CleanupInv'
<1> SUFFICES ASSUME ControlInv, PassInv, CleanupInv, Reconciling
             PROVE  PassInv' /\ CleanupInv'
  OBVIOUS
<1> USE DEF AtHost, Pass, Cleaning
<1>1. /\ TypeOK /\ PhaseInv /\ ListedInv /\ OrphanInv
      /\ rows \in Rows /\ clean \in BOOLEAN
  BY DEF ControlInv, TypeOK, Rows
<1>2. ASSUME NEW view \in Views, StartReconcile(view) PROVE PassInv' /\ CleanupInv'
  BY <1>2 DEF StartReconcile, PassInv, CleanupInv, AtWork, Wanted
<1>3. ASSUME NEW h \in Hosts, BeginUpdate(h) \/ BeginCreate(h) PROVE PassInv' /\ CleanupInv'
  <2>1. /\ pc = "bindings" /\ h \in todo /\ todo' = todo \ {h} /\ cur' = h
        /\ pc' \in {"policy", "failed"}
        /\ UNCHANGED <<desired, rows, clean>>
    BY <1>3 DEF BeginUpdate, BeginCreate
  <2> QED
    BY <2>1 DEF PassInv, CleanupInv, AtWork, Wanted, HasStatus
<1>4. CASE AtCloudflare
  <2>1. /\ pc \in AtHost /\ pc' \in AtHost
        /\ UNCHANGED <<desired, rows, cur, todo, clean>>
    BY <1>4, AtCloudflareStep
  <2> QED
    BY <2>1 DEF PassInv, CleanupInv, AtWork, Wanted, HasStatus
<1>5. CASE SaveBinding
  <2>1. /\ pc = "save" /\ pc' \in {"bindings", "activate", "failed"}
        /\ UNCHANGED <<desired, todo>>
        /\ cur \in Hosts /\ \A j \in Hosts \ {cur} : rows'[j] = rows[j]
        /\ clean' => clean /\ rows'[cur] # NoRow
        /\ clean' /\ pc' = "bindings" => rows'[cur].status = "active"
        /\ pc' # "bindings" => cur' = cur
    <3>1. pc = "save" /\ UNCHANGED <<desired, todo>> /\ cur \in Hosts
          /\ \A j \in Hosts \ {cur} : rows'[j] = rows[j]
      BY <1>5, SaveBindingWrites DEF SaveBinding
    <3>2. CASE /\ rows'[cur] # NoRow /\ clean' = clean
               /\ rows'[cur].status =
                     IF listed[cur] = NoRow THEN "active" ELSE listed[cur].status
               /\ pc' = IF listed[cur] = NoRow THEN "bindings" ELSE "activate"
               /\ cur' = IF listed[cur] = NoRow THEN Nobody ELSE cur
      BY <1>1, <3>1, <3>2
    <3>3. CASE pc' = "failed" /\ cur' = cur /\ clean' = FALSE
      BY <3>1, <3>3
    <3> QED
      BY <1>5, <3>2, <3>3, SaveBindingWrites
  <2> QED
    BY <2>1 DEF PassInv, CleanupInv, AtWork, Wanted, HasStatus
<1>6. CASE Activate \/ RecordFailure
  <2>1. /\ pc \in AtHost /\ pc' = "bindings"
        /\ UNCHANGED <<desired, todo>>
    BY <1>6 DEF Activate, RecordFailure, Leave
  <2>2. /\ cur \in Hosts /\ \A j \in Hosts \ {cur} : rows'[j] = rows[j]
        /\ clean' => clean /\ rows'[cur].status # "orphaned"
    <3>1. PICK status \in {"active", "error"}, app \in Ids \cup {NoId} : Wrote(cur, status, app)
      BY <1>6, LeavingWrites
    <3>2. cur \in Hosts
      BY <1>6, LeavingWrites
    <3> QED
      BY <1>1, <3>1, <3>2 DEF Wrote
  <2> QED
    BY <2>1, <2>2 DEF PassInv, CleanupInv, AtWork, Wanted, HasStatus
<1>7. ASSUME NEW h \in Hosts, MarkOrphaned(h) PROVE PassInv' /\ CleanupInv'
  <2>1. /\ pc = "bindings" /\ UNCHANGED <<desired, pc, cur, todo>>
    BY <1>7 DEF MarkOrphaned
  <2>2. /\ ~Wanted(h) /\ \A j \in Hosts \ {h} : rows'[j] = rows[j]
        /\ clean' => clean
    BY <1>1, <1>7, MarkOrphanedWrites DEF Wrote
  <2> QED
    BY <2>1, <2>2 DEF PassInv, CleanupInv, AtWork, Wanted, HasStatus
<1>8. CASE ListForCleanup
  <2>1. ASSUME clean', NEW h \in todo' PROVE h \in Hosts /\ ~Wanted(h)
    <3>1. clean /\ todo = {} /\ pc = "bindings"
          /\ h \in ListOrphanedForCleanup(rows, RemoveDelay)
      BY <1>8, <2>1 DEF ListForCleanup
    <3>2. h \in Hosts /\ HasStatus(rows, h, "orphaned")
      BY <1>1, <3>1 DEF Rows, ListOrphanedForCleanup, ListExpiredOrphans
    <3> QED
      BY <3>1, <3>2 DEF PassInv, AtWork
  <2> QED
    BY <1>8, <2>1 DEF ListForCleanup, PassInv, CleanupInv, Wanted
<1>9. CASE \/ \E h \in Hosts : DeleteApplication(h) \/ DeleteFails(h)
           \/ UnlinkPolicy \/ DeleteRow
  <2>1. /\ pc \in Cleaning /\ pc' \in Cleaning /\ todo' \subseteq todo
        /\ UNCHANGED desired
        /\ clean' => clean
    <3>1. ASSUME DeleteRow, clean' PROVE clean
      BY <3>1 DEF DeleteRow, Store
    <3> QED
      BY <1>9, <3>1 DEF DeleteApplication, DeleteFails, UnlinkPolicy, DeleteRow, Leave
  <2> QED
    BY <2>1 DEF PassInv, CleanupInv, Wanted
<1>10. CASE ListExpired \/ FinishReconcile \/ \E h \in Hosts : ExpireRow(h)
  BY <1>10 DEF ListExpired, FinishReconcile, ExpireRow, PassInv, CleanupInv
<1> QED
  BY <1>2, <1>3, <1>4, <1>5, <1>6, <1>7, <1>8, <1>9, <1>10 DEF Reconciling, AtCloudflare

LEMMA EnvironmentWanted ==
    ControlInv /\ PassInv /\ CleanupInv /\ Environment => PassInv' /\ CleanupInv'
<1> SUFFICES ASSUME ControlInv, PassInv, CleanupInv, Environment
             PROVE  PassInv' /\ CleanupInv'
  OBVIOUS
<1> USE DEF AtHost, Pass, Cleaning
<1>1. rows \in Rows
  BY DEF ControlInv, TypeOK, Rows
<1>2. CASE Crash
  BY <1>2 DEF Crash, Leave, PassInv, CleanupInv
<1>3. CASE BecomeQuiet \/ \E h \in Hosts : UserDeletes(h) \/ UserCreates(h)
  BY <1>3
  DEF BecomeQuiet, UserDeletes, UserCreates, cycle, PassInv, CleanupInv, AtWork, Wanted,
      HasStatus
<1>4. CASE Tick
  <2>1. ASSUME NEW h \in Hosts, HasStatus(rows, h, "orphaned")'
        PROVE  HasStatus(rows, h, "orphaned")
    BY <1>1, <1>4, <2>1, RowsAged DEF Tick, HasStatus
  <2> QED
    BY <1>4, <2>1 DEF Tick, PassInv, CleanupInv, AtWork, Wanted
<1> QED
  BY <1>2, <1>3, <1>4 DEF Environment

----------------------------------------------------------------------------
(* The applications made by hand.                                          *)

LEMMA ReconcilingHands ==
    ControlInv /\ HandInv /\ Reconciling =>
        /\ HandInv'
        /\ \A h \in Hosts : apps[h] # NoApp /\ ~apps[h].ours => apps'[h] = apps[h]
<1> SUFFICES ASSUME ControlInv, HandInv, Reconciling
             PROVE  /\ HandInv'
                    /\ \A h \in Hosts :
                          apps[h] # NoApp /\ ~apps[h].ours => apps'[h] = apps[h]
  OBVIOUS
<1> DEFINE Kept == \A h \in Hosts : apps[h] # NoApp /\ ~apps[h].ours => apps'[h] = apps[h]
<1> USE DEF AtHost, Pass, Cleaning
<1>1. /\ TypeOK /\ PhaseInv /\ ListedInv /\ OrphanInv
      /\ rows \in Rows
      /\ \A h \in Hosts : apps[h] # NoApp => apps[h] \in Apps /\ apps[h].id # NoId
  BY DEF ControlInv, TypeOK, Rows, Apps, NoId, Ids
<1>2. ASSUME NEW view \in Views, StartReconcile(view) PROVE HandInv' /\ Kept
  BY <1>2 DEF StartReconcile, HandInv
<1>3. ASSUME NEW h \in Hosts, BeginUpdate(h) PROVE HandInv' /\ Kept
  BY <1>1, <1>3 DEF BeginUpdate, HandInv, ListedInv
<1>4. ASSUME NEW h \in Hosts, BeginCreate(h) PROVE HandInv' /\ Kept
  <2>1. appID' = NoId /\ UNCHANGED <<apps, rows>>
    BY <1>1, <1>4 DEF BeginCreate, PhaseInv
  <2> QED
    BY <1>1, <2>1 DEF HandInv
<1>5. CASE AtCloudflare
  <2>1. /\ pc \in AtHost /\ cur \in Hosts
        /\ UNCHANGED <<rows, cur>>
        /\ apps' = apps \/ (apps' = Linked /\ IsApp(cur, appID))
                        \/ (apps' = Created /\ apps[cur] = NoApp)
        /\ appID' \in {appID, NoId, FreshId(cur)}
        /\ appID' = FreshId(cur) => appID' = appID \/ apps' = Created
    BY <1>1, <1>5, AtCloudflareStep DEF PhaseInv
  <2>2. ASSUME NEW h \in Hosts, apps'[h] # NoApp, ~apps'[h].ours
        PROVE  /\ apps[h] # NoApp /\ ~apps[h].ours /\ apps'[h].id = apps[h].id
               /\ cur = h => appID' \in {appID, NoId}
    BY <1>1, <2>1, <2>2, LinkedType DEF IsApp
  <2>3. HandInv'
    BY <1>1, <2>1, <2>2 DEF HandInv
  <2>4. Kept
    BY <1>1, <2>1, LinkedType DEF HandInv, IsApp
  <2> QED  BY <2>3, <2>4
<1>6. CASE SaveBinding
  <2>1. /\ appID' = NoId /\ UNCHANGED apps
        /\ cur \in Hosts /\ \A j \in Hosts \ {cur} : rows'[j] = rows[j]
        /\ rows'[cur].app = appID \/ rows' = rows
    BY <1>6, SaveBindingWrites DEF SaveBinding
  <2> QED
    BY <1>1, <2>1 DEF HandInv
<1>7. CASE Activate \/ RecordFailure
  <2>1. appID' = NoId /\ UNCHANGED apps
    BY <1>7 DEF Activate, RecordFailure, Leave
  <2>2. /\ cur \in Hosts /\ \A j \in Hosts \ {cur} : rows'[j] = rows[j]
        /\ \/ rows' = rows
           \/ rows'[cur].app = NoId
           \/ rows[cur] # NoRow /\ rows'[cur].app = rows[cur].app
    BY <1>7, LeavingWrites DEF Wrote
  <2> QED
    BY <1>1, <2>1, <2>2 DEF HandInv
<1>8. ASSUME NEW h \in Hosts, MarkOrphaned(h) PROVE HandInv' /\ Kept
  <2>1. UNCHANGED <<apps, cur, appID>>
    BY <1>8 DEF MarkOrphaned
  <2>2. /\ \A j \in Hosts \ {h} : rows'[j] = rows[j]
        /\ rows[h] # NoRow /\ (rows' = rows \/ rows'[h].app = rows[h].app)
    BY <1>8, MarkOrphanedWrites DEF Wrote
  <2> QED
    BY <2>1, <2>2 DEF HandInv
<1>9. CASE ListForCleanup \/ ListExpired \/ FinishReconcile
  BY <1>9 DEF ListForCleanup, ListExpired, FinishReconcile, HandInv
<1>10. ASSUME NEW h \in Hosts, DeleteApplication(h) \/ DeleteFails(h) PROVE HandInv' /\ Kept
  <2>1. /\ rows[h] # NoRow /\ appID = NoId
    BY <1>1, <1>10 DEF DeleteApplication, DeleteFails, OrphanInv, PhaseInv, HasStatus
  <2>2. /\ UNCHANGED <<rows, appID>>
        /\ \/ UNCHANGED apps
           \/ apps' = [apps EXCEPT ![h] = NoApp] /\ IsApp(h, rows[h].app)
    BY <1>10 DEF DeleteApplication, DeleteFails
  <2> QED
    BY <1>1, <2>1, <2>2 DEF HandInv, IsApp, TypeOK
<1>11. CASE UnlinkPolicy
  BY <1>11 DEF UnlinkPolicy, HandInv
<1>12. CASE DeleteRow
  <2>1. /\ appID' = NoId /\ UNCHANGED apps /\ cur \in Hosts /\ Store(DeleteResource(rows, cur))
    BY <1>1, <1>12 DEF DeleteRow, Leave, PhaseInv
  <2>2. \A j \in Hosts : rows'[j] = NoRow \/ rows'[j] = rows[j]
    BY <1>1, <2>1, StoreDeletes
  <2> QED
    BY <1>1, <2>1, <2>2 DEF HandInv
<1>13. ASSUME NEW h \in Hosts, ExpireRow(h) PROVE HandInv' /\ Kept
  <2>1. UNCHANGED <<apps, cur, appID>> /\ Store(DeleteResource(rows, h))
    BY <1>13 DEF ExpireRow
  <2>2. \A j \in Hosts : rows'[j] = NoRow \/ rows'[j] = rows[j]
    BY <1>1, <2>1, StoreDeletes
  <2> QED
    BY <2>1, <2>2 DEF HandInv
<1> QED
  BY <1>2, <1>3, <1>4, <1>5, <1>6, <1>7, <1>8, <1>9, <1>10, <1>11, <1>12, <1>13
  DEF Reconciling, AtCloudflare

(* An application somebody makes by hand gets an id nobody holds.          *)
LEMMA EnvironmentHands == ControlInv /\ HandInv /\ Environment => HandInv'
<1> SUFFICES ASSUME ControlInv, HandInv, Environment PROVE HandInv'
  OBVIOUS
<1>1. /\ TypeOK /\ rows \in Rows
      /\ \A h \in Hosts : apps[h] # NoApp => apps[h].id # NoId
  BY DEF ControlInv, TypeOK, Rows, Apps, NoId, Ids
<1>2. CASE Crash
  BY <1>1, <1>2 DEF Crash, Leave, HandInv
<1>3. CASE BecomeQuiet \/ \E h \in Hosts : UserDeletes(h)
  BY <1>1, <1>3 DEF BecomeQuiet, UserDeletes, cycle, HandInv, TypeOK
<1>4. ASSUME NEW h \in Hosts, UserCreates(h) PROVE HandInv'
  <2> DEFINE app == [id |-> FreshId(h), policy |-> NoPolicy, ours |-> FALSE]
  <2>1. /\ apps' = [apps EXCEPT ![h] = app]
        /\ UNCHANGED <<rows, cur, appID>>
    BY <1>4 DEF UserCreates, cycle
  <2>2. /\ rows[h] # NoRow => rows[h].app # FreshId(h)
        /\ cur = h => appID # FreshId(h)
    BY FreshIdIsFresh DEF IdsHeld
  <2>3. app.id = FreshId(h)
    OBVIOUS
  <2> HIDE DEF app
  <2> QED
    BY <1>1, <2>1, <2>2, <2>3 DEF HandInv, TypeOK
<1>5. CASE Tick
  <2>1. UNCHANGED <<apps, cur, appID>> /\ rows' = AgeRows(rows, AgeCap)
    BY <1>5 DEF Tick
  <2>2. \A h \in Hosts :
           rows'[h] # NoRow => rows[h] # NoRow /\ rows'[h].app = rows[h].app
    BY <1>1, <2>1, RowsAged
  <2> QED
    BY <2>1, <2>2 DEF HandInv
<1> QED
  BY <1>2, <1>3, <1>4, <1>5 DEF Environment

LEMMA SafeInvIsInvariant == Spec => []SafeInv
<1>1. SafeInv /\ [Next]_vars => SafeInv'
  <2> SUFFICES ASSUME SafeInv, [Next]_vars PROVE SafeInv'
    OBVIOUS
  <2>1. CASE UNCHANGED vars
    BY <2>1
    DEF vars, cycle, SafeInv, ControlInv, TypeOK, PhaseInv, ListedInv, ActivateInv,
        OrphanInv, PassInv, CleanupInv, HandInv, AtWork, Wanted, HasStatus
  <2> QED
    BY <2>1, ReconcilingControl, EnvironmentControl, ReconcilingWanted, EnvironmentWanted,
       ReconcilingHands, EnvironmentHands
    DEF SafeInv, Next
<1> QED
  BY <1>1, InitSafe, PTL DEF Spec

(* Whatever fails, however long a cycle takes and whoever else creates and *)
(* deletes applications, the cleanup of a cycle without a storage failure  *)
(* takes the protection of no hostname the same cycle wants protected.     *)
THEOREM OnlyUnwantedRemovedHolds == Spec => OnlyUnwantedRemoved
<1>1. SafeInv => [\A h \in Hosts : clean /\ DeleteApplication(h) => ~Wanted(h)]_vars
  BY DEF SafeInv, CleanupInv, Cleaning, DeleteApplication
<1> QED
  BY <1>1, SafeInvIsInvariant, PTL DEF OnlyUnwantedRemoved

(* Labelgate changes and deletes no application somebody made by hand:     *)
(* nothing it holds in a row or in memory is ever the id of one.           *)
THEOREM HandMadeAppsKeptHolds == Spec => HandMadeAppsKept
<1>1. SafeInv =>
        [Reconciling => \A h \in Hosts :
            apps[h] # NoApp /\ ~apps[h].ours => apps'[h] = apps[h]]_vars
  BY ReconcilingHands DEF SafeInv
<1> QED
  BY <1>1, SafeInvIsInvariant, PTL DEF HandMadeAppsKept

----------------------------------------------------------------------------
(* The policies, when no call fails and orphans do not expire.             *)

LEMMA InitTidy == Init => TidyInv
<1> SUFFICES ASSUME Init PROVE TidyInv
  OBVIOUS
<1>1. ControlInv
  BY InitSafe DEF SafeInv
<1> QED
  BY <1>1 DEF Init, NoRows, TidyInv, PairInv, Paired, WorkInv, StrayInv, AtHost

(* The steps between two writes of the table.                              *)
LEMMA AtCloudflareTidy ==
    ASSUME Faults \subseteq {"slow"}, TidyInv, AtCloudflare
    PROVE  PairInv' /\ WorkInv' /\ StrayInv'
<1> USE DEF AtHost, Pass, May
<1>1. /\ TypeOK /\ PhaseInv /\ ListedInv /\ PairInv /\ WorkInv /\ StrayInv
      /\ ControlInv
      /\ \A h \in Hosts : apps[h] # NoApp => apps[h].id # NoId
  BY DEF TidyInv, ControlInv, TypeOK, Apps, Ids, NoId
<1>2. /\ pc \in AtHost /\ cur \in Hosts /\ cur \notin todo /\ FreshId(cur) # NoId
      /\ UNCHANGED <<desired, rows, cur, todo, listed>>
  <2>1. /\ pc \in AtHost /\ pc' \in AtHost
        /\ UNCHANGED <<desired, rows, cur, todo, listed>>
    BY <1>1, AtCloudflareStep
  <2>2. cur \in Hosts /\ cur \notin todo
    BY <1>1, <2>1 DEF PhaseInv
  <2> QED
    BY <2>1, <2>2, FreshIdIsFresh DEF Ids, NoId
<1>3. CASE (\E p \in Policies : FindPolicy(p)) \/ CreatePolicy
  <2>1. /\ pc = "policy" /\ pc' = "app" /\ UNCHANGED <<apps, appID, old>>
        /\ policies' \subseteq policies \cup {link'}
    BY <1>3 DEF FindPolicy, CreatePolicy
  <2>2. PairInv' /\ WorkInv'
    BY <1>1, <1>2, <2>1 DEF PairInv, Paired, WorkInv
  <2>3. StrayInv'
    BY <1>1, <2>1 DEF StrayInv, InUse
  <2> QED  BY <2>2, <2>3
<1>4. ~PolicyFails
  BY DEF PolicyFails
<1>5. CASE UpdateApplication
  <2>1. /\ pc = "app" /\ pc' = "tidy" /\ appID # NoId /\ apps[cur] # NoApp
        /\ apps' = Linked /\ UNCHANGED <<policies, appID, old, link>>
    BY <1>5 DEF UpdateApplication, IsApp
  <2>2. /\ apps'[cur] # NoApp /\ apps'[cur].id = apps[cur].id /\ apps'[cur].policy = link
        /\ \A h \in Hosts \ {cur} : apps'[h] = apps[h]
    BY <1>1, <1>2, <2>1, LinkedType
  <2>3. appID = apps[cur].id /\ old = apps[cur].policy
    BY <1>1, <2>1 DEF WorkInv
  <2>4. PairInv' /\ WorkInv'
    BY <1>1, <1>2, <2>1, <2>2, <2>3 DEF PairInv, Paired, WorkInv
  <2>5. StrayInv'
    BY <1>1, <1>2, <2>1, <2>2, <2>3 DEF StrayInv, InUse
  <2> QED  BY <2>4, <2>5
<1>6. ~UpdateFails
  BY <1>1, <1>2 DEF UpdateFails, WorkInv, IsApp
<1>7. CASE CreateApplication
  <2>1. /\ pc = "app" /\ pc' = "tidy" /\ appID = NoId /\ apps[cur] = NoApp
        /\ apps' = Created /\ UNCHANGED <<policies, old, link>>
    BY <1>7 DEF CreateApplication
  <2>2. listed[cur] = NoRow
    BY <1>1, <1>2, <2>1 DEF WorkInv
  <2>3. appID' = FreshId(cur)
    BY <1>7, <2>2 DEF CreateApplication
  <2>4. /\ apps'[cur] # NoApp /\ apps'[cur].id = FreshId(cur) /\ apps'[cur].policy = link
        /\ \A h \in Hosts \ {cur} : apps'[h] = apps[h]
    BY <1>1, <1>2, <2>1, LinkedType
  <2>5. PairInv' /\ WorkInv'
    BY <1>1, <1>2, <2>1, <2>3, <2>4 DEF PairInv, Paired, WorkInv
  <2>6. StrayInv'
    BY <1>1, <1>2, <2>1, <2>4 DEF StrayInv, InUse
  <2> QED  BY <2>5, <2>6
<1>8. ~CreateFails
  BY <1>1, <1>2 DEF CreateFails, WorkInv
<1>9. CASE Tidy
  <2>1. /\ pc = "tidy" /\ pc' = "save" /\ UNCHANGED <<apps, appID, old, link>>
        /\ policies' \subseteq policies
        /\ old # link => policies' = policies \ {p \in {old} : ~InUse(p)}
    BY <1>9 DEF Tidy, TryDeleteReusablePolicy
  <2>2. apps[cur] # NoApp /\ apps[cur].policy = link
    BY <1>1, <2>1 DEF WorkInv
  <2>3. PairInv' /\ WorkInv'
    BY <1>1, <1>2, <2>1 DEF PairInv, Paired, WorkInv
  <2>4. StrayInv'
    BY <1>1, <1>2, <2>1, <2>2 DEF StrayInv, InUse
  <2> QED  BY <2>3, <2>4
<1> QED
  BY <1>3, <1>4, <1>5, <1>6, <1>7, <1>8, <1>9 DEF AtCloudflare

(* The steps that change no application and no policy and keep which row   *)
(* names which application.                                                *)
LEMMA BookkeepingTidy ==
    ASSUME PairInv, StrayInv, UNCHANGED <<apps, policies>>,
           pc \notin {"app", "tidy", "save", "unlink", "removed"},
           \A h \in Hosts : /\ rows'[h] # NoRow <=> rows[h] # NoRow
                            /\ rows[h] # NoRow => rows'[h].app = rows[h].app
    PROVE  PairInv' /\ StrayInv'
BY DEF PairInv, Paired, StrayInv, InUse

LEMMA ReconcilingTidy ==
    ASSUME Faults \subseteq {"slow"}, OrphanTTL = 0, TidyInv, Reconciling
    PROVE  PairInv' /\ WorkInv' /\ StrayInv'
<1> USE DEF AtHost, Pass, Cleaning, May
<1>1. /\ TypeOK /\ PhaseInv /\ ListedInv /\ PairInv /\ WorkInv /\ StrayInv
      /\ ActivateInv /\ OrphanInv /\ ControlInv /\ rows \in Rows
  BY DEF TidyInv, ControlInv, TypeOK, Rows
<1>2. ASSUME NEW view \in Views, StartReconcile(view) PROVE PairInv' /\ WorkInv' /\ StrayInv'
  BY <1>1, <1>2, BookkeepingTidy DEF StartReconcile, WorkInv
<1>3. ASSUME NEW h \in Hosts, BeginUpdate(h) PROVE PairInv' /\ WorkInv' /\ StrayInv'
  <2>1. /\ pc = "bindings" /\ pc' = "policy" /\ h \in todo /\ listed[h] # NoRow
        /\ cur' = h /\ todo' = todo \ {h}
        /\ appID' = listed[h].app /\ old' = PolicyOf(h, listed[h].app)
        /\ UNCHANGED <<desired, rows, apps, policies, listed>>
    BY <1>3 DEF BeginUpdate
  <2>2. PairInv' /\ StrayInv'
    BY <1>1, <2>1, BookkeepingTidy
  <2>3. apps[h] # NoApp /\ listed[h].app = apps[h].id
    BY <1>1, <2>1 DEF ListedInv, PairInv, Paired
  <2>4. WorkInv'
    BY <1>1, <2>1, <2>3 DEF WorkInv, PolicyOf, IsApp
  <2> QED  BY <2>2, <2>4
<1>4. ASSUME NEW h \in Hosts, BeginCreate(h) PROVE PairInv' /\ WorkInv' /\ StrayInv'
  <2>1. /\ pc = "bindings" /\ h \in todo /\ listed[h] = NoRow
        /\ cur' = h /\ todo' = todo \ {h}
        /\ pc' = IF apps[h] = NoApp THEN "policy" ELSE "failed"
        /\ UNCHANGED <<desired, rows, apps, policies, listed, appID>>
    BY <1>4 DEF BeginCreate
  <2>2. rows[h] = NoRow /\ apps[h] = NoApp
    BY <1>1, <2>1 DEF WorkInv, PairInv, Paired
  <2>3. PairInv' /\ StrayInv'
    BY <1>1, <2>1, BookkeepingTidy
  <2>4. WorkInv'
    BY <1>1, <2>1, <2>2 DEF WorkInv, PhaseInv
  <2> QED  BY <2>3, <2>4
<1>5. CASE AtCloudflare
  BY <1>5, AtCloudflareTidy
<1>6. CASE SaveBinding
  <2>1. /\ pc = "save" /\ cur \in Hosts
        /\ \A j \in Hosts \ {cur} : rows'[j] = rows[j]
        /\ rows'[cur] # NoRow /\ rows'[cur].app = appID
        /\ pc' = IF listed[cur] = NoRow THEN "bindings" ELSE "activate"
        /\ cur' = IF listed[cur] = NoRow THEN Nobody ELSE cur
        /\ UNCHANGED <<desired, apps, policies, todo, listed>>
    BY <1>1, <1>6, SaveBindingWrites DEF SaveBinding
  <2>2. apps[cur] # NoApp /\ appID = apps[cur].id
    BY <1>1, <2>1 DEF WorkInv
  <2>3. PairInv' /\ StrayInv'
    BY <1>1, <2>1, <2>2 DEF PairInv, Paired, StrayInv, InUse
  <2>4. cur \notin todo
    BY <1>1, <2>1 DEF PhaseInv
  <2>5. WorkInv'
    BY <1>1, <2>1, <2>4 DEF WorkInv, TypeOK
  <2> QED  BY <2>3, <2>5
<1>7. CASE Activate
  <2>1. /\ pc = "activate" /\ pc' = "bindings" /\ cur' = Nobody
        /\ listed' = [listed EXCEPT ![cur] = NoRow]
        /\ UNCHANGED <<desired, apps, policies, todo>>
        /\ cur \in Hosts /\ cur \notin todo /\ rows[cur] # NoRow
    BY <1>1, <1>7 DEF Activate, Leave, PhaseInv, ActivateInv, ListedInv
  <2>2. /\ \A j \in Hosts \ {cur} : rows'[j] = rows[j]
        /\ rows'[cur] # NoRow /\ rows'[cur].app = rows[cur].app
    <3>1. CASE listed[cur].status # "active"
      BY <1>1, <1>7, <2>1, <3>1, RowMarked
      DEF Activate, Store, UpdateResourceError, Statuses
    <3>2. CASE listed[cur].status = "active"
      BY <1>7, <2>1, <3>2 DEF Activate
    <3> QED
      BY <3>1, <3>2
  <2>3. PairInv' /\ StrayInv'
    BY <1>1, <2>1, <2>2, BookkeepingTidy
  <2>4. WorkInv'
    BY <1>1, <2>1, <2>2 DEF WorkInv, TypeOK
  <2> QED  BY <2>3, <2>4
<1>8. ~RecordFailure
  BY <1>1 DEF RecordFailure, WorkInv
<1>9. ASSUME NEW h \in Hosts, MarkOrphaned(h) PROVE PairInv' /\ WorkInv' /\ StrayInv'
  <2>1. /\ pc = "bindings" /\ todo = {}
        /\ UNCHANGED <<apps, policies, pc, todo>>
    BY <1>9 DEF MarkOrphaned
  <2>2. /\ \A j \in Hosts \ {h} : rows'[j] = rows[j]
        /\ rows[h] # NoRow
        /\ rows'[h] # NoRow /\ rows'[h].app = rows[h].app
    BY <1>1, <1>9, MarkOrphanedWrites DEF Wrote
  <2>3. PairInv' /\ StrayInv'
    BY <1>1, <2>1, <2>2, BookkeepingTidy
  <2>4. WorkInv'
    BY <1>1, <2>1 DEF WorkInv
  <2> QED  BY <2>3, <2>4
<1>10. CASE ListForCleanup \/ ListExpired \/ FinishReconcile
  <2>1. /\ pc \in {"bindings", "cleanup", "expire"} /\ pc' \in {"cleanup", "expire", "idle"}
        /\ pc' = "expire" => todo' = {}
        /\ UNCHANGED <<rows, apps, policies>>
    BY <1>10 DEF ListForCleanup, ListExpired, FinishReconcile
  <2>2. PairInv' /\ StrayInv'
    BY <1>1, <2>1, BookkeepingTidy
  <2>3. WorkInv'
    BY <2>1 DEF WorkInv
  <2> QED  BY <2>2, <2>3
<1>11. ASSUME NEW h \in Hosts, DeleteApplication(h) PROVE PairInv' /\ WorkInv' /\ StrayInv'
  <2>1. /\ pc = "cleanup" /\ h \in todo /\ rows[h] # NoRow
        /\ apps[h] # NoApp /\ rows[h].app = apps[h].id
    BY <1>1, <1>11 DEF DeleteApplication, OrphanInv, HasStatus, PairInv, Paired
  <2>2. /\ pc' = "unlink" /\ cur' = h /\ old' = apps[h].policy
        /\ apps' = [apps EXCEPT ![h] = NoApp]
        /\ UNCHANGED <<rows, policies>>
    BY <1>11, <2>1 DEF DeleteApplication, IsApp
  <2>3. apps'[h] = NoApp /\ \A j \in Hosts \ {h} : apps'[j] = apps[j]
    BY <1>1, <2>2 DEF TypeOK
  <2>4. PairInv' /\ WorkInv'
    BY <1>1, <2>1, <2>2, <2>3 DEF PairInv, Paired, WorkInv
  <2>5. StrayInv'
    BY <1>1, <2>1, <2>2, <2>3 DEF StrayInv, InUse
  <2> QED  BY <2>4, <2>5
<1>12. ASSUME NEW h \in Hosts, DeleteFails(h) PROVE FALSE
  <2>1. ~May("lost") /\ ~May("delete")
    OBVIOUS
  <2> QED
    BY <1>12, <2>1 DEF DeleteFails
<1>13. CASE UnlinkPolicy
  <2>1. /\ pc = "unlink" /\ pc' = "removed" /\ UNCHANGED <<rows, apps, cur, todo>>
        /\ policies' = policies \ {p \in {old} : ~InUse(p)}
    BY <1>13 DEF UnlinkPolicy, TryDeleteReusablePolicy
  <2>2. PairInv' /\ WorkInv'
    BY <1>1, <2>1 DEF PairInv, Paired, WorkInv
  <2>3. StrayInv'
    BY <1>1, <2>1 DEF StrayInv, InUse
  <2> QED  BY <2>2, <2>3
<1>14. CASE DeleteRow
  <2>1. /\ pc = "removed" /\ pc' = "cleanup" /\ cur \in Hosts
        /\ apps[cur] = NoApp /\ UNCHANGED <<apps, policies>>
        /\ Store(DeleteResource(rows, cur)) /\ rows' = DeleteResource(rows, cur)
    BY <1>1, <1>14 DEF DeleteRow, Leave, PhaseInv, WorkInv, Store
  <2>2. /\ \A j \in Hosts \ {cur} : rows'[j] = rows[j]
        /\ rows'[cur] = NoRow
    BY <1>1, <2>1 DEF Rows, DeleteResource
  <2>3. PairInv' /\ StrayInv' /\ WorkInv'
    BY <1>1, <2>1, <2>2 DEF PairInv, Paired, StrayInv, InUse, WorkInv
  <2> QED  BY <2>3
<1>15. ASSUME NEW h \in Hosts, ExpireRow(h) PROVE FALSE
  BY <1>1, <1>15 DEF ExpireRow, WorkInv
<1> QED
  BY <1>2, <1>3, <1>4, <1>5, <1>6, <1>7, <1>8, <1>9, <1>10, <1>11, <1>12, <1>13, <1>14, <1>15
  DEF Reconciling, AtCloudflare

LEMMA EnvironmentTidy ==
    ASSUME Faults \subseteq {"slow"}, TidyInv, Environment
    PROVE  PairInv' /\ WorkInv' /\ StrayInv'
<1>1. TypeOK /\ PhaseInv /\ PairInv /\ WorkInv /\ StrayInv /\ rows \in Rows
  BY DEF TidyInv, ControlInv, TypeOK, Rows
<1>2. CASE BecomeQuiet
  BY <1>1, <1>2
  DEF BecomeQuiet, cycle, PairInv, Paired, WorkInv, StrayInv, InUse
<1>3. CASE Tick
  <2>1. /\ rows' = AgeRows(rows, AgeCap) /\ listed' = AgeRows(listed, AgeCap)
        /\ UNCHANGED <<apps, policies, pc, cur, todo, appID, old, link>>
    BY <1>3 DEF Tick
  <2>2. \A h \in Hosts : /\ rows'[h] # NoRow <=> rows[h] # NoRow
                         /\ rows[h] # NoRow => rows'[h].app = rows[h].app
    BY <1>1, <2>1, RowsAged
  <2>3. \A h \in Hosts : listed'[h] # NoRow <=> listed[h] # NoRow
    <3>1. listed \in Rows
      BY <1>1 DEF TypeOK, Rows
    <3> QED
      BY <2>1, <3>1, RowsAged
  <2>4. PairInv'
    BY <1>1, <2>1, <2>2 DEF PairInv, Paired
  <2>5. StrayInv'
    BY <1>1, <2>1 DEF StrayInv, InUse
  <2>6. WorkInv'
    <3>1. pc \in AtHost => cur \in Hosts
      BY <1>1 DEF PhaseInv
    <3>2. todo \subseteq Hosts
      BY <1>1 DEF TypeOK
    <3> QED
      BY <1>1, <2>1, <2>2, <2>3, <3>1, <3>2 DEF WorkInv, AtHost
  <2> QED  BY <2>4, <2>5, <2>6
<1> QED
  BY <1>2, <1>3 DEF Environment, Crash, UserDeletes, UserCreates, May

(* When no call fails, nobody else works on the account and orphans do not *)
(* expire, no reusable policy is left without an application at the end of *)
(* a cycle, however long that took, whatever hostnames shared it and in    *)
(* whatever order they left it.                                            *)
THEOREM PoliciesTidyHolds ==
    ASSUME Faults \subseteq {"slow"}, OrphanTTL = 0
    PROVE  Spec => []PoliciesTidy
<1>1. TidyInv /\ [Next]_vars => TidyInv'
  <2> SUFFICES ASSUME TidyInv, [Next]_vars PROVE TidyInv'
    OBVIOUS
  <2>1. ControlInv'
    <3>1. CASE UNCHANGED vars
      BY <3>1
      DEF vars, cycle, TidyInv, ControlInv, TypeOK, PhaseInv, ListedInv, ActivateInv,
          OrphanInv, AtWork, Wanted, HasStatus
    <3> QED
      BY <3>1, ReconcilingControl, EnvironmentControl DEF TidyInv, Next
  <2>2. PairInv' /\ WorkInv' /\ StrayInv'
    <3>1. CASE UNCHANGED vars
      BY <3>1 DEF vars, cycle, TidyInv, PairInv, Paired, WorkInv, StrayInv, InUse
    <3> QED
      BY <3>1, ReconcilingTidy, EnvironmentTidy DEF Next
  <2> QED  BY <2>1, <2>2 DEF TidyInv
<1>2. TidyInv => PoliciesTidy
  BY DEF TidyInv, ControlInv, StrayInv, PoliciesTidy, NoStrayPolicies
<1> QED
  BY <1>1, <1>2, InitTidy, PTL DEF Spec

----------------------------------------------------------------------------
(* The table implements ManagedRecord as long as SQLite works.             *)

(* Only a crash makes a cycle unclean; the row of a hostname still on the  *)
(* list has the status the list has, and is written with it; rows that are *)
(* about to be deleted are orphans; and from the end of the pass on, no    *)
(* hostname the labels ask for is an orphan.                               *)
LifeInv ==
    /\ clean \/ pc = "idle"
    /\ \A h \in Hosts : listed[h] # NoRow => rows[h].status = listed[h].status
    /\ pc \in {"unlink", "removed"} => HasStatus(rows, cur, "orphaned")
    /\ pc = "expire" => \A h \in todo : HasStatus(rows, h, "orphaned")
    /\ pc \in Cleaning \cup {"expire"} =>
          \A h \in Hosts : Wanted(h) => ~HasStatus(rows, h, "orphaned")

LifeStep ==
    \/ Lifecycle!Next
    \/ UNCHANGED desired /\ \A h \in Hosts : LifeOf(h)' = LifeOf(h)

(* One hostname moves on, the others stay.                                 *)
LEMMA OneHostMoves ==
    ASSUME UNCHANGED desired, NEW h \in Hosts,
           \A j \in Hosts \ {h} : rows'[j] = rows[j],
           \/ LifeOf(h)' = LifeOf(h)
           \/ Wanted(h) /\ LifeOf(h) \in {"none", "orphan"} /\ LifeOf(h)' = "claimed"
           \/ ~Wanted(h) /\ LifeOf(h) = "claimed" /\ LifeOf(h)' = "orphan"
           \/ ~Wanted(h) /\ LifeOf(h) = "orphan" /\ LifeOf(h)' = "none"
    PROVE  LifeStep
<1>1. \A j \in Hosts \ {h} : LifeOf(j)' = LifeOf(j)
  BY DEF LifeOf
<1> DEFINE life == [j \in Hosts |-> LifeOf(j)]
<1>2. ASSUME NEW to, LifeOf(h)' = to
      PROVE  life' = [life EXCEPT ![h] = to]
  BY <1>1, <1>2
<1>3. CASE LifeOf(h)' = LifeOf(h)
  BY <1>1, <1>3 DEF LifeStep
<1>4. CASE Wanted(h) /\ LifeOf(h) \in {"none", "orphan"} /\ LifeOf(h)' = "claimed"
  <2>1. Lifecycle!Claim(h)
    BY <1>2, <1>4 DEF Lifecycle!Claim, Wanted
  <2> QED
    BY <2>1 DEF LifeStep, Lifecycle!Next
<1>5. CASE ~Wanted(h) /\ LifeOf(h) = "claimed" /\ LifeOf(h)' = "orphan"
  <2>1. Lifecycle!Abandon(h)
    BY <1>2, <1>5 DEF Lifecycle!Abandon, Wanted
  <2> QED
    BY <2>1 DEF LifeStep, Lifecycle!Next
<1>6. CASE ~Wanted(h) /\ LifeOf(h) = "orphan" /\ LifeOf(h)' = "none"
  <2>1. Lifecycle!Drop(h)
    BY <1>2, <1>6 DEF Lifecycle!Drop, Wanted
  <2> QED
    BY <2>1 DEF LifeStep, Lifecycle!Next
<1> QED
  BY <1>3, <1>4, <1>5, <1>6

(* A row is written: with its status kept, or as its hostname deserves.    *)
LEMMA WritingIsALifeStep ==
    ASSUME UNCHANGED desired, NEW h \in Hosts, NEW status,
           \A j \in Hosts \ {h} : rows'[j] = rows[j],
           rows'[h] # NoRow, rows'[h].status = status,
           \/ rows[h] # NoRow /\ rows[h].status = status
           \/ Wanted(h) /\ status # "orphaned"
           \/ ~Wanted(h) /\ status = "orphaned" /\ rows[h] # NoRow
    PROVE  LifeStep
<1>1. LifeOf(h)' = IF status = "orphaned" THEN "orphan" ELSE "claimed"
  BY DEF LifeOf
<1>2. /\ LifeOf(h) \in {"none", "claimed", "orphan"}
      /\ rows[h] # NoRow => LifeOf(h) # "none"
      /\ rows[h] # NoRow /\ rows[h].status = status => LifeOf(h)' = LifeOf(h)
  BY <1>1 DEF LifeOf
<1> QED
  BY <1>1, <1>2, OneHostMoves

(* An orphan that no label asks for is deleted.                            *)
LEMMA DeletingIsALifeStep ==
    ASSUME TypeOK, LifeInv, "storage" \notin Faults, UNCHANGED desired,
           NEW h \in Hosts, HasStatus(rows, h, "orphaned"),
           pc \in Cleaning \cup {"expire"}, Store(DeleteResource(rows, h))
    PROVE  /\ LifeStep /\ clean' = clean
           /\ rows'[h] = NoRow /\ \A j \in Hosts \ {h} : rows'[j] = rows[j]
<1>1. /\ rows'[h] = NoRow /\ \A j \in Hosts \ {h} : rows'[j] = rows[j]
      /\ clean' = clean
  <2>1. rows' = DeleteResource(rows, h) /\ clean' = clean
    BY DEF Store, May
  <2> QED
    BY <2>1 DEF TypeOK, DeleteResource
<1>2. ~Wanted(h)
  BY DEF LifeInv
<1>3. LifeOf(h) = "orphan" /\ LifeOf(h)' = "none"
  BY <1>1 DEF LifeOf, HasStatus
<1> QED
  BY <1>1, <1>2, <1>3, OneHostMoves

LEMMA ReconcilingIsALifeStep ==
    ASSUME SafeInv, LifeInv, "storage" \notin Faults, Reconciling
    PROVE  LifeInv' /\ LifeStep
<1> USE DEF AtHost, Pass, Cleaning
<1>1. /\ ControlInv /\ TypeOK /\ PhaseInv /\ ListedInv /\ ActivateInv /\ OrphanInv
      /\ PassInv
      /\ rows \in Rows /\ listed \in Rows
  BY DEF SafeInv, ControlInv, TypeOK, Rows
<1>2. ~May("storage")
  BY DEF May
<1>3. ASSUME UNCHANGED <<desired, rows>> PROVE LifeStep
  BY <1>3 DEF LifeStep, LifeOf
<1>4. ASSUME NEW view \in Views, StartReconcile(view) PROVE LifeInv' /\ LifeStep
  <2>1. LifeStep
    BY <1>4 DEF StartReconcile, LifeStep, Lifecycle!Next, Lifecycle!Look, Views, LifeOf
  <2>2. LifeInv'
    BY <1>2, <1>4 DEF StartReconcile, LifeInv
  <2> QED  BY <2>1, <2>2
<1>5. ASSUME NEW h \in Hosts, BeginUpdate(h) \/ BeginCreate(h) PROVE LifeInv' /\ LifeStep
  <2>1. /\ pc = "bindings" /\ pc' \in {"policy", "failed"}
        /\ UNCHANGED <<desired, rows, listed, clean>>
    BY <1>5 DEF BeginUpdate, BeginCreate
  <2> QED
    BY <1>3, <2>1 DEF LifeInv
<1>6. CASE AtCloudflare
  <2>1. /\ pc \in AtHost /\ pc' \in AtHost
        /\ UNCHANGED <<desired, rows, listed, clean>>
    BY <1>1, <1>6, AtCloudflareStep
  <2> QED
    BY <1>3, <2>1 DEF LifeInv
(* A step of the pass writes the row of one hostname.                      *)
<1>7. ASSUME NEW h \in Hosts, UNCHANGED desired, pc \in Pass, pc' \in Pass,
             \A j \in Hosts \ {h} : rows'[j] = rows[j] /\ listed'[j] = listed[j],
             listed'[h] # NoRow => rows'[h].status = listed'[h].status,
             clean' = clean
      PROVE  LifeInv'
  BY <1>7 DEF LifeInv
<1>8. CASE SaveBinding
  <2>1. /\ cur \in Hosts /\ Wanted(cur) /\ pc = "save" /\ pc' \in Pass /\ clean' = clean
        /\ UNCHANGED <<desired, listed>>
        /\ \A j \in Hosts \ {cur} : rows'[j] = rows[j]
        /\ rows'[cur] # NoRow
        /\ rows'[cur].status = IF listed[cur] = NoRow THEN "active" ELSE listed[cur].status
    BY <1>1, <1>2, <1>8, SaveBindingWrites DEF SaveBinding, PhaseInv
  <2>2. LifeInv'
    BY <1>7, <2>1
  <2>3. listed[cur] # NoRow => rows[cur] # NoRow /\ rows[cur].status = listed[cur].status
    BY <1>1, <2>1 DEF ListedInv, LifeInv
  <2>4. LifeStep
    BY <2>1, <2>3, WritingIsALifeStep
  <2> QED  BY <2>2, <2>4
<1>9. CASE Activate \/ RecordFailure
  <2>1. /\ Wanted(cur) /\ pc \in Pass /\ pc' \in Pass /\ UNCHANGED desired
        /\ listed' = [listed EXCEPT ![cur] = NoRow]
        /\ clean' = clean
    BY <1>1, <1>2, <1>9 DEF Activate, RecordFailure, Leave, PhaseInv, Store
  <2>2. PICK status \in {"active", "error"}, app \in Ids \cup {NoId} : Wrote(cur, status, app)
    BY <1>1, <1>9, LeavingWrites
  <2>3. cur \in Hosts /\ clean
    BY <1>1, <1>9, LeavingWrites DEF LifeInv, Activate, RecordFailure
  <2>4. LifeInv'
    BY <1>1, <1>7, <2>1, <2>2, <2>3 DEF Wrote, Rows
  <2>5. LifeStep
    BY <2>1, <2>2, <2>3, WritingIsALifeStep DEF Wrote
  <2> QED  BY <2>4, <2>5
<1>10. ASSUME NEW h \in Hosts, MarkOrphaned(h) PROVE LifeInv' /\ LifeStep
  <2>1. /\ pc = "bindings" /\ UNCHANGED <<desired, pc>> /\ clean /\ clean' = clean
        /\ listed' = [listed EXCEPT ![h] = NoRow]
    BY <1>2, <1>10 DEF MarkOrphaned, Store, LifeInv
  <2>2. /\ rows[h] # NoRow /\ ~Wanted(h)
        /\ Wrote(h, "orphaned", rows[h].app) \/ UNCHANGED <<rows, clean>>
    BY <1>1, <1>10, MarkOrphanedWrites
  <2>3. LifeInv'
    BY <1>1, <1>7, <2>1, <2>2 DEF Wrote, Rows
  <2>4. LifeStep
    BY <1>3, <2>1, <2>2, WritingIsALifeStep DEF Wrote
  <2> QED  BY <2>3, <2>4
<1>11. CASE ListForCleanup
  <2>1. \A h \in Hosts : Wanted(h) => ~HasStatus(rows, h, "orphaned")
    BY <1>1, <1>11 DEF ListForCleanup, PassInv, LifeInv, AtWork
  <2>2. UNCHANGED <<desired, rows, listed, clean>> /\ pc = "bindings" /\ pc' = "cleanup"
    BY <1>2, <1>11 DEF ListForCleanup
  <2> QED
    BY <1>3, <2>1, <2>2 DEF LifeInv, Wanted
<1>12. ASSUME NEW h \in Hosts, DeleteApplication(h) \/ DeleteFails(h) PROVE LifeInv' /\ LifeStep
  <2>1. HasStatus(rows, h, "orphaned")
    BY <1>1, <1>12 DEF DeleteApplication, DeleteFails, OrphanInv
  <2>2. /\ UNCHANGED <<desired, rows, listed, clean>> /\ pc = "cleanup"
        /\ pc' \in Cleaning /\ (pc' \in {"unlink", "removed"} => cur' = h)
    BY <1>12 DEF DeleteApplication, DeleteFails
  <2> QED
    BY <1>3, <2>1, <2>2 DEF LifeInv, Wanted, HasStatus
<1>13. CASE UnlinkPolicy
  <2>1. /\ UNCHANGED <<desired, rows, listed, cur, clean>> /\ pc = "unlink"
        /\ pc' = "removed"
    BY <1>13 DEF UnlinkPolicy
  <2> QED
    BY <1>3, <2>1 DEF LifeInv, Wanted, HasStatus
<1>14. CASE DeleteRow
  <2>1. /\ cur \in Hosts /\ HasStatus(rows, cur, "orphaned") /\ pc = "removed"
        /\ pc' = "cleanup" /\ UNCHANGED <<desired, listed>> /\ listed = NoRows
        /\ Store(DeleteResource(rows, cur))
    BY <1>1, <1>14 DEF DeleteRow, Leave, PhaseInv, LifeInv
  <2>2. /\ LifeStep /\ clean' = clean
        /\ rows'[cur] = NoRow /\ \A j \in Hosts \ {cur} : rows'[j] = rows[j]
    BY <1>1, <2>1, DeletingIsALifeStep
  <2>3. LifeInv'
    BY <2>1, <2>2 DEF LifeInv, Wanted, HasStatus, NoRows
  <2> QED  BY <2>2, <2>3
<1>15. CASE ListExpired
  <2>1. /\ UNCHANGED <<desired, rows, listed, clean>> /\ pc = "cleanup" /\ pc' = "expire"
        /\ \A h \in todo' : HasStatus(rows, h, "orphaned")
    BY <1>1, <1>2, <1>15 DEF ListExpired, ListExpiredOrphans, Rows
  <2> QED
    BY <1>3, <2>1 DEF LifeInv, Wanted, HasStatus
<1>16. ASSUME NEW h \in Hosts, ExpireRow(h) PROVE LifeInv' /\ LifeStep
  <2>1. /\ HasStatus(rows, h, "orphaned") /\ pc = "expire" /\ todo' = todo \ {h}
        /\ UNCHANGED <<desired, pc, listed>> /\ listed = NoRows
        /\ Store(DeleteResource(rows, h))
    BY <1>1, <1>16 DEF ExpireRow, PhaseInv, LifeInv
  <2>2. /\ LifeStep /\ clean' = clean
        /\ rows'[h] = NoRow /\ \A j \in Hosts \ {h} : rows'[j] = rows[j]
    BY <1>1, <2>1, DeletingIsALifeStep
  <2>3. LifeInv'
    BY <1>1, <2>1, <2>2 DEF LifeInv, Wanted, HasStatus, NoRows, TypeOK
  <2> QED  BY <2>2, <2>3
<1>17. CASE FinishReconcile
  BY <1>3, <1>17 DEF FinishReconcile, LifeInv
<1> QED
  BY <1>4, <1>5, <1>6, <1>8, <1>9, <1>10, <1>11, <1>12, <1>13, <1>14, <1>15, <1>16, <1>17
  DEF Reconciling, AtCloudflare

LEMMA EnvironmentIsALifeStep ==
    ASSUME ControlInv, LifeInv, Environment
    PROVE  LifeInv' /\ LifeStep
<1> USE DEF Cleaning
<1>1. rows \in Rows /\ listed \in Rows /\ ListedInv
  BY DEF ControlInv, TypeOK, Rows
<1>2. CASE Tick
  <2>1. /\ rows' = AgeRows(rows, AgeCap) /\ listed' = AgeRows(listed, AgeCap)
        /\ UNCHANGED <<desired, pc, cur, todo, clean>>
    BY <1>2 DEF Tick
  <2>2. \A h \in Hosts :
           /\ rows[h] = NoRow <=> rows'[h] = NoRow
           /\ rows[h] # NoRow => rows'[h].status = rows[h].status
           /\ listed[h] = NoRow <=> listed'[h] = NoRow
           /\ listed[h] # NoRow => listed'[h].status = listed[h].status
    BY <1>1, <2>1, RowsAged
  <2>3. \A h \in Hosts : HasStatus(rows, h, "orphaned")' <=> HasStatus(rows, h, "orphaned")
    BY <2>2 DEF HasStatus
  <2>4. LifeStep
    BY <2>1, <2>2 DEF LifeStep, LifeOf
  <2>5. /\ todo \subseteq Hosts
        /\ pc \in {"unlink", "removed"} => cur \in Hosts
    BY DEF ControlInv, TypeOK, PhaseInv
  <2>6. LifeInv'
    BY <1>1, <2>1, <2>2, <2>3, <2>5 DEF LifeInv, ListedInv, Wanted
  <2> QED  BY <2>4, <2>6
<1>3. CASE Crash
  BY <1>3 DEF Crash, Leave, LifeInv, LifeStep, LifeOf, NoRows
<1>4. CASE BecomeQuiet \/ \E h \in Hosts : UserDeletes(h) \/ UserCreates(h)
  BY <1>4
  DEF BecomeQuiet, UserDeletes, UserCreates, cycle, LifeInv, LifeStep, LifeOf, Wanted,
      HasStatus
<1> QED
  BY <1>2, <1>3, <1>4 DEF Environment

(* While SQLite works the table of applications shows only what            *)
(* ManagedRecord allows: crashes, failed calls, lost replies, other        *)
(* people's applications and cycles of any length never make it claim,     *)
(* abandon or drop a hostname against the labels, although an orphan that  *)
(* is wanted again is saved as an orphan before it is made active.         *)
THEOREM LifecycleImplemented ==
    ASSUME "storage" \notin Faults
    PROVE  Spec => ImplementsLifecycle
<1>1. Init => Lifecycle!Init /\ LifeInv
  BY DEF Init, Lifecycle!Init, LifeOf, LifeInv, NoRows, Cleaning
<1>2. SafeInv /\ LifeInv /\ [Next]_vars =>
        LifeInv' /\ [Lifecycle!Next]_(Lifecycle!vars)
  <2> SUFFICES ASSUME SafeInv, LifeInv, [Next]_vars
               PROVE  LifeInv' /\ [Lifecycle!Next]_(Lifecycle!vars)
    OBVIOUS
  <2>1. LifeInv' /\ LifeStep
    <3>1. CASE Next
      BY <3>1, ReconcilingIsALifeStep, EnvironmentIsALifeStep DEF Next, SafeInv
    <3>2. CASE UNCHANGED vars
      BY <3>2 DEF vars, cycle, LifeInv, LifeStep, LifeOf, Wanted, HasStatus
    <3> QED  BY <3>1, <3>2
  <2>2. CASE UNCHANGED desired /\ \A h \in Hosts : LifeOf(h)' = LifeOf(h)
    BY <2>1, <2>2 DEF Lifecycle!vars
  <2> QED
    BY <2>1, <2>2 DEF LifeStep
<1> QED
  BY <1>1, <1>2, SafeInvIsInvariant, PTL DEF Spec, ImplementsLifecycle, Lifecycle!Spec
=============================================================================

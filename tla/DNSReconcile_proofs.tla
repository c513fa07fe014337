------------------------ MODULE DNSReconcile_proofs -------------------------
(***************************************************************************)
(* Theorems about DNSReconcile, for every number of keys, records, targets *)
(* and agents, every delay, and every combination of faults that a theorem *)
(* does not exclude.                                                       *)
(***************************************************************************)
EXTENDS DNSReconcile, TLAPS

----------------------------------------------------------------------------
(* Lemmas about the table's statements.                                    *)

Rows == [Keys -> Row \cup {NoRow}]

LEMMA RowIsARecord ==
    ASSUME NEW row \in Row
    PROVE  row # NoRow
BY ConstantsAreApart

LEMMA ZeroIsAnAge == 0 \in Ages
BY DelaysAreNaturals DEF Ages, AgeCap

LEMMA SaveResourceType ==
    ASSUME NEW table \in Rows, NEW k \in Keys, NEW row \in Row
    PROVE  /\ SaveResource(table, k, row) \in Rows
           /\ SaveResource(table, k, row)[k] \in Row
<1>1. [row EXCEPT !.age = 0] \in Row
  BY ZeroIsAnAge DEF Row
<1> QED
  BY <1>1 DEF SaveResource, Rows

LEMMA UpdateResourceStatusType ==
    ASSUME NEW table \in Rows, NEW k \in Keys, NEW status \in Statuses, table[k] # NoRow
    PROVE  UpdateResourceStatus(table, k, status) \in Rows
<1>1. table[k] \in Row
  BY DEF Rows
<1>2. [table[k] EXCEPT !.status = status] \in Row
  BY <1>1 DEF Row
<1> QED
  BY <1>2, SaveResourceType DEF UpdateResourceStatus

LEMMA DeleteResourceType ==
    ASSUME NEW table \in Rows, NEW k \in Keys
    PROVE  DeleteResource(table, k) \in Rows
BY DEF DeleteResource, Rows

LEMMA NextAgeType ==
    ASSUME NEW age \in Ages
    PROVE  NextAge(age, AgeCap) \in Ages
BY DelaysAreNaturals DEF NextAge, Ages, AgeCap

LEMMA AgeRowsType ==
    ASSUME NEW table \in Rows
    PROVE  AgeRows(table, AgeCap) \in Rows
<1>1. ASSUME NEW k \in Keys, table[k] # NoRow
      PROVE  [table[k] EXCEPT !.age = NextAge(table[k].age, AgeCap)] \in Row
  <2>1. table[k] \in Row /\ table[k].age \in Ages
    BY <1>1 DEF Rows, Row
  <2> QED
    BY <2>1, NextAgeType DEF Row
<1> QED
  BY <1>1 DEF AgeRows, Rows

----------------------------------------------------------------------------
(* Type correctness.                                                       *)

LEMMA StoreType ==
    ASSUME TypeOK, NEW table \in Rows, Store(table)
    PROVE  rows' \in Rows /\ clean' \in BOOLEAN
BY DEF TypeOK, Store, Rows

LEMMA ErrorRowType ==
    ASSUME TypeOK, NEW k \in Keys, Wanted(k)
    PROVE  ErrorRow(k) \in Row
<1>1. desired[k] \in Specs
  BY DEF TypeOK, Wanted, Views
<1> QED
  BY <1>1, DelaysAreNaturals
  DEF ErrorRow, Row, Specs, Statuses, Ages, AgeCap, Contents

LEMMA ResolveType ==
    ASSUME NEW target \in Targets
    PROVE  Resolve(target) \in Contents
BY DEF Resolve, Contents

LEMMA CreatedRowType ==
    ASSUME TypeOK, NEW k \in Keys, Wanted(k)
    PROVE  CreatedRow(k) \in Row
<1>1. desired[k] \in Specs
  BY DEF TypeOK, Wanted, Views
<1>2. Resolve(desired[k].target) \in Targets \cup {ContainerIP}
  BY <1>1, ResolveType DEF Specs, Contents
<1> QED
  BY <1>1, <1>2, ConstantsAreApart, DelaysAreNaturals
  DEF TypeOK, CreatedRow, Row, Specs, Statuses, Ages, AgeCap

(* A row of the table with the agent of the label, and, once pushed, with  *)
(* everything else the label says.                                         *)
LEMMA PatchedRowTypes ==
    ASSUME TypeOK, NEW k \in Keys, Wanted(k), rows[k] # NoRow
    PROVE  /\ [rows[k] EXCEPT !.agent = desired[k].agent] \in Row
           /\ PushedRow(k) \in Row
<1>1. rows[k] \in Row /\ desired[k] \in Specs
  BY DEF TypeOK, Wanted, Views
<1>2. [rows[k] EXCEPT !.agent = desired[k].agent] \in Row
  BY <1>1 DEF Row, Specs
<1>3. PushedRow(k) \in Row
  <2> DEFINE r1 == [rows[k] EXCEPT !.cfid = curId]
             r2 == [r1 EXCEPT !.content = desired[k].target]
             r3 == [r2 EXCEPT !.cleanup = desired[k].cleanup]
             r4 == [r3 EXCEPT !.agent = desired[k].agent]
  <2>1. r1 \in Row
    BY <1>1 DEF TypeOK, Row
  <2>2. r2 \in Row
    <3> HIDE DEF r1
    <3> QED  BY <1>1, <2>1 DEF Row, Specs
  <2>3. r3 \in Row
    <3> HIDE DEF r2
    <3> QED  BY <1>1, <2>2 DEF Row, Specs
  <2>4. r4 \in Row
    <3> HIDE DEF r3
    <3> QED  BY <1>1, <2>3 DEF Row, Specs
  <2> QED
    BY <2>4 DEF PushedRow
<1> QED
  BY <1>2, <1>3

LEMMA PublishType ==
    ASSUME TypeOK, NEW id \in RecordIds, NEW k \in Keys, NEW content \in Contents,
           Publish(id, k, content)
    PROVE  zone' \in [RecordIds -> ZoneRecord \cup {NoRecord}]
BY DEF TypeOK, Publish, ZoneRecord

LEMMA UnpublishType ==
    ASSUME TypeOK, NEW id \in RecordIds, Unpublish(id)
    PROVE  zone' \in [RecordIds -> ZoneRecord \cup {NoRecord}]
BY DEF TypeOK, Unpublish

(* TypeOK needs to know, between two calls, what the code holds in memory. *)
AtKey == {"created", "patch", "rollback", "update", "pushed", "activate"}
InPass == AtKey \cup {"dns"}

PhaseInv ==
    /\ pc \in AtKey => cur \in todo /\ Wanted(cur)
    /\ pc \in {"created", "rollback"} => rows[cur] = NoRow
    /\ pc \in {"patch", "update", "pushed", "activate"} => rows[cur] # NoRow
    /\ pc \in {"created", "rollback", "pushed"} => curId \in RecordIds
    /\ pc = "deleted" => cur \in todo
    /\ pc = "idle" => todo = {}

(* What the loops of a cycle have still to visit deserves the visit.       *)
PassInv ==
    pc \in InPass => \A k \in todo : Wanted(k) \/ rows[k] # NoRow

CleanupInv ==
    pc \in {"cleanup", "deleted"} =>
        \A k \in todo : /\ HasStatus(rows, k, "orphaned")
                        /\ OlderThan(rows, k, RemoveDelay)

ExpireInv ==
    pc = "expire" => \A k \in todo : HasStatus(rows, k, "orphaned")

ControlInv == TypeOK /\ PhaseInv /\ PassInv /\ CleanupInv /\ ExpireInv

LEMMA InitControl == Init => ControlInv
<1> SUFFICES ASSUME Init PROVE ControlInv
  OBVIOUS
<1>1. TypeOK
  BY ZeroIsAnAge DEF Init, TypeOK, Views, Phases
<1> QED
  BY <1>1 DEF Init, ControlInv, PhaseInv, PassInv, CleanupInv, ExpireInv, AtKey, InPass

(* A step of the reconciler keeps the types.                               *)
LEMMA ReconcilingType == ControlInv /\ Reconciling => TypeOK'
<1> SUFFICES ASSUME ControlInv, Reconciling PROVE TypeOK'
  OBVIOUS
<1> USE DEF Rows
<1>1. TypeOK /\ PhaseInv /\ PassInv /\ CleanupInv /\ ExpireInv
  BY DEF ControlInv
<1>2. ASSUME NEW view \in Views, StartReconcile(view) PROVE TypeOK'
  BY <1>1, <1>2 DEF TypeOK, StartReconcile, Phases
<1>3. ASSUME NEW k \in Keys, CreateRecord(k) PROVE TypeOK'
  <2>1. Wanted(k) /\ desired[k].target \in Targets
    BY <1>1, <1>3 DEF CreateRecord, Creating, Wanted, TypeOK, Views, Specs
  <2>2. /\ zone' \in [RecordIds -> ZoneRecord \cup {NoRecord}]
        /\ curId' \in RecordIds
    <3>1. CASE AlreadyExists(k, Resolve(desired[k].target))
      BY <1>1, <1>3, <3>1 DEF TypeOK, CreateRecord, RecordsOf
    <3>2. CASE ~AlreadyExists(k, Resolve(desired[k].target))
      <4>1. PICK id \in FreshIds : curId' = id /\ Publish(id, k, Resolve(desired[k].target))
        BY <1>3, <3>2 DEF CreateRecord
      <4> QED
        BY <1>1, <2>1, <4>1, ResolveType, PublishType DEF FreshIds
    <3> QED
      BY <3>1, <3>2
  <2> QED
    BY <1>1, <1>3, <2>2 DEF TypeOK, CreateRecord, Phases
<1>4. ASSUME NEW k \in Keys, CreateFails(k) PROVE TypeOK'
  <2>1. Wanted(k) /\ desired[k].target \in Targets
    BY <1>1, <1>4 DEF CreateFails, Creating, Wanted, TypeOK, Views, Specs
  <2>2. zone' \in [RecordIds -> ZoneRecord \cup {NoRecord}]
    <3>1. CASE UNCHANGED zone
      BY <1>1, <3>1 DEF TypeOK
    <3>2. CASE \E id \in FreshIds : Publish(id, k, Resolve(desired[k].target))
      BY <1>1, <2>1, <3>2, ResolveType, PublishType DEF FreshIds
    <3> QED
      BY <1>4, <3>1, <3>2 DEF CreateFails
  <2>3. rows' \in Rows /\ clean' \in BOOLEAN
    BY <1>1, <1>4, <2>1, ErrorRowType, SaveResourceType, StoreType DEF CreateFails, TypeOK
  <2> QED
    BY <1>1, <1>4, <2>2, <2>3 DEF TypeOK, CreateFails, Done, Rest
<1>5. ASSUME SaveCreated PROVE TypeOK'
  <2>1. cur \in Keys /\ Wanted(cur)
    BY <1>1, <1>5 DEF SaveCreated, PhaseInv, AtKey, TypeOK
  <2>2. rows' \in Rows
    BY <1>1, <1>5, <2>1, CreatedRowType, SaveResourceType DEF SaveCreated, TypeOK
  <2> QED
    BY <1>1, <1>5, <2>2 DEF TypeOK, SaveCreated, Done, Rest, Phases
<1>6. ASSUME PatchAgent PROVE TypeOK'
  <2>1. cur \in Keys /\ Wanted(cur) /\ rows[cur] # NoRow
    BY <1>1, <1>6 DEF PatchAgent, PhaseInv, AtKey, TypeOK
  <2>2. rows' \in Rows /\ clean' \in BOOLEAN
    BY <1>1, <1>6, <2>1, PatchedRowTypes, SaveResourceType, StoreType DEF PatchAgent, TypeOK
  <2> QED
    BY <1>1, <1>6, <2>2 DEF TypeOK, PatchAgent, Done, Rest, Phases
<1>7. ASSUME SaveCreatedFails PROVE TypeOK'
  BY <1>1, <1>7 DEF TypeOK, SaveCreatedFails, Phases
<1>8. ASSUME Rollback PROVE TypeOK'
  <2>1. cur \in Keys /\ Wanted(cur) /\ curId \in RecordIds
    BY <1>1, <1>8 DEF Rollback, PhaseInv, AtKey, TypeOK
  <2>2. zone' \in [RecordIds -> ZoneRecord \cup {NoRecord}]
    BY <1>1, <1>8, <2>1, UnpublishType DEF Rollback, TypeOK
  <2>3. rows' \in Rows /\ clean' \in BOOLEAN
    BY <1>1, <1>8, <2>1, ErrorRowType, SaveResourceType, StoreType DEF Rollback, TypeOK
  <2> QED
    BY <1>1, <1>8, <2>2, <2>3 DEF TypeOK, Rollback, Done, Rest, Phases
<1>9. ASSUME NEW k \in Keys, TakeAgent(k) PROVE TypeOK'
  <2>1. rows' \in Rows /\ clean' \in BOOLEAN
    BY <1>1, <1>9, PatchedRowTypes, SaveResourceType, StoreType DEF TakeAgent, TypeOK
  <2> QED
    BY <1>1, <1>9, <2>1 DEF TypeOK, TakeAgent, Phases
<1>10. ASSUME KeepRecord PROVE TypeOK'
  BY <1>1, <1>10 DEF TypeOK, KeepRecord, Done, Rest, Phases
<1>11. ASSUME PushRecord \/ PushFails PROVE TypeOK'
  <2>1. /\ cur \in Keys /\ Wanted(cur) /\ rows[cur] # NoRow
        /\ rows[cur] \in Row
    BY <1>1, <1>11 DEF PushRecord, PushFails, PhaseInv, AtKey, TypeOK
  <2>2. PushableIds(cur) \subseteq RecordIds
    BY <2>1 DEF PushableIds, RecordsOf, Row
  <2>3. ASSUME Acceptable(desired[cur].target),
               NEW id \in PushableIds(cur), Publish(id, cur, desired[cur].target)
        PROVE  zone' \in [RecordIds -> ZoneRecord \cup {NoRecord}]
    BY <1>1, <2>1, <2>2, <2>3, PublishType DEF Acceptable
  <2>4. CASE PushRecord
    BY <1>1, <2>2, <2>3, <2>4 DEF TypeOK, PushRecord, Phases
  <2>5. CASE PushFails
    <3>1. zone' \in [RecordIds -> ZoneRecord \cup {NoRecord}]
      BY <1>1, <2>3, <2>5 DEF TypeOK, PushFails
    <3>2. UpdateResourceError(rows, cur, "error") \in Rows
      BY <1>1, <2>1, UpdateResourceStatusType DEF TypeOK, UpdateResourceError, Statuses
    <3> QED
      BY <1>1, <2>5, <3>1, <3>2, StoreType DEF TypeOK, PushFails, Done, Rest, Phases
  <2> QED
    BY <1>11, <2>4, <2>5
<1>12. ASSUME SavePushed PROVE TypeOK'
  <2>1. cur \in Keys /\ Wanted(cur) /\ rows[cur] # NoRow
    BY <1>1, <1>12 DEF SavePushed, PhaseInv, AtKey, TypeOK
  <2>2. rows' \in Rows
    BY <1>1, <1>12, <2>1, PatchedRowTypes, SaveResourceType DEF SavePushed, TypeOK
  <2> QED
    BY <1>1, <1>12, <2>2 DEF TypeOK, SavePushed, Done, Rest, Phases
<1>13. ASSUME SavePushedFails PROVE TypeOK'
  <2>1. cur \in Keys /\ rows[cur] # NoRow
    BY <1>1, <1>13 DEF SavePushedFails, PhaseInv, AtKey, TypeOK
  <2>2. rows' \in Rows
    BY <1>1, <1>13, <2>1, UpdateResourceStatusType
    DEF SavePushedFails, TypeOK, UpdateResourceError, Statuses
  <2> QED
    BY <1>1, <1>13, <2>2 DEF TypeOK, SavePushedFails, Done, Rest, Phases
<1>14. ASSUME Activate PROVE TypeOK'
  <2>1. cur \in Keys /\ rows[cur] # NoRow
    BY <1>1, <1>14 DEF Activate, PhaseInv, AtKey, TypeOK
  <2>2. UpdateResourceError(rows, cur, "active") \in Rows
    BY <1>1, <2>1, UpdateResourceStatusType DEF TypeOK, UpdateResourceError, Statuses
  <2> QED
    BY <1>1, <1>14, <2>2, StoreType DEF TypeOK, Activate, Done, Rest, Phases
<1>15. ASSUME NEW k \in Keys, MarkOrphaned(k) PROVE TypeOK'
  <2>1. rows[k] # NoRow
    BY <1>1, <1>15 DEF MarkOrphaned, PassInv, InPass
  <2>2. UpdateResourceStatus(rows, k, "orphaned") \in Rows
    BY <1>1, <2>1, UpdateResourceStatusType DEF TypeOK, Statuses
  <2> QED
    BY <1>1, <1>15, <2>2, StoreType DEF TypeOK, MarkOrphaned, Done, Rest
<1>16. ASSUME ListForCleanup PROVE TypeOK'
  BY <1>1, <1>16, ZeroIsAnAge
  DEF TypeOK, ListForCleanup, ListOrphanedForCleanup, Phases
<1>17. ASSUME NEW k \in Keys, DeleteRecord(k) PROVE TypeOK'
  <2>1. rows[k].cfid \in RecordIds
    BY <1>1, <1>17 DEF DeleteRecord, CleanupInv, HasStatus, TypeOK, Row
  <2> QED
    BY <1>1, <1>17, <2>1, UnpublishType DEF TypeOK, DeleteRecord, Phases
<1>18. ASSUME NEW k \in Keys, DeleteFails(k) PROVE TypeOK'
  <2>1. rows[k].cfid \in RecordIds \cup {NoId}
    BY <1>1, <1>18 DEF DeleteFails, CleanupInv, HasStatus, TypeOK, Row
  <2>2. zone' \in [RecordIds -> ZoneRecord \cup {NoRecord}]
    BY <1>1, <1>18, <2>1, UnpublishType DEF TypeOK, DeleteFails
  <2> QED
    BY <1>1, <1>18, <2>2 DEF TypeOK, DeleteFails, Done, Rest
<1>19. ASSUME DeleteRow PROVE TypeOK'
  <2>1. cur \in Keys
    BY <1>1, <1>19 DEF DeleteRow, PhaseInv, TypeOK
  <2> QED
    BY <1>1, <1>19, <2>1, DeleteResourceType, StoreType DEF TypeOK, DeleteRow, Done, Rest, Phases
<1>20. ASSUME ListExpired PROVE TypeOK'
  BY <1>1, <1>20 DEF TypeOK, ListExpired, ListExpiredOrphans, Phases
<1>21. ASSUME NEW k \in Keys, ExpireRow(k) PROVE TypeOK'
  BY <1>1, <1>21, DeleteResourceType, StoreType DEF TypeOK, ExpireRow, Done, Rest
<1>22. ASSUME FinishReconcile PROVE TypeOK'
  BY <1>1, <1>22 DEF TypeOK, FinishReconcile, Phases
<1> QED
  BY <1>2, <1>3, <1>4, <1>5, <1>6, <1>7, <1>8, <1>9, <1>10, <1>11, <1>12, <1>13, <1>14,
     <1>15, <1>16, <1>17, <1>18, <1>19, <1>20, <1>21, <1>22 DEF Reconciling

LEMMA EnvironmentType == ControlInv /\ Environment => TypeOK'
<1> SUFFICES ASSUME ControlInv, Environment PROVE TypeOK'
  OBVIOUS
<1>1. TypeOK /\ PhaseInv
  BY DEF ControlInv
<1>2. CASE Crash
  BY <1>1, <1>2 DEF TypeOK, Crash, Rest, Phases
<1>3. ASSUME NEW id \in RecordIds, UserCreates(id) PROVE TypeOK'
  BY <1>1, <1>3, PublishType DEF TypeOK, UserCreates
<1>4. ASSUME NEW id \in RecordIds, UserEdits(id) PROVE TypeOK'
  <2>1. zone[id].key \in Keys
    BY <1>1, <1>4 DEF TypeOK, UserEdits, ZoneRecord
  <2> QED
    BY <1>1, <1>4, <2>1, PublishType DEF TypeOK, UserEdits
<1>5. ASSUME NEW id \in RecordIds, UserDeletes(id) PROVE TypeOK'
  BY <1>1, <1>5, UnpublishType DEF TypeOK, UserDeletes
<1>6. CASE Tick
  <2>1. rows' \in Rows
    BY <1>1, <1>6, AgeRowsType DEF TypeOK, Tick, Rows
  <2>2. unwanted' \in [Keys -> Ages]
    BY <1>1, <1>6, NextAgeType DEF TypeOK, Tick
  <2> QED
    BY <1>1, <1>6, <2>1, <2>2 DEF TypeOK, Tick, Rows
<1>7. CASE BecomeQuiet
  BY <1>1, <1>7 DEF TypeOK, BecomeQuiet
<1> QED
  BY <1>2, <1>3, <1>4, <1>5, <1>6, <1>7 DEF Environment

(* A write for one key leaves the rows of the others alone.                *)
LEMMA SaveResourceEffect ==
    ASSUME NEW table \in Rows, NEW k \in Keys, NEW row \in Row
    PROVE  /\ SaveResource(table, k, row)[k] # NoRow
           /\ SaveResource(table, k, row)[k].age = 0
           /\ SaveResource(table, k, row)[k].status = row.status
           /\ SaveResource(table, k, row)[k].agent = row.agent
           /\ \A j \in Keys \ {k} : SaveResource(table, k, row)[j] = table[j]
<1>1. [row EXCEPT !.age = 0] \in Row
  BY ZeroIsAnAge DEF Row
<1> QED
  BY <1>1, RowIsARecord DEF SaveResource, Rows, Row

LEMMA UpdateResourceStatusEffect ==
    ASSUME NEW table \in Rows, NEW k \in Keys, NEW status \in Statuses, table[k] # NoRow
    PROVE  /\ UpdateResourceStatus(table, k, status)[k] # NoRow
           /\ UpdateResourceStatus(table, k, status)[k].age = 0
           /\ UpdateResourceStatus(table, k, status)[k].status = status
           /\ UpdateResourceStatus(table, k, status)[k].agent = table[k].agent
           /\ \A j \in Keys \ {k} : UpdateResourceStatus(table, k, status)[j] = table[j]
<1> DEFINE row == [table[k] EXCEPT !.status = status]
<1>1. table[k] \in Row
  BY DEF Rows
<1>2. row \in Row /\ row.status = status /\ row.agent = table[k].agent
  BY <1>1 DEF Row
<1>3. UpdateResourceStatus(table, k, status) = SaveResource(table, k, row)
  BY DEF UpdateResourceStatus
<1> HIDE DEF row
<1> QED
  BY <1>2, <1>3, SaveResourceEffect

----------------------------------------------------------------------------
(* The control part: what each phase knows of the keys it has to visit.    *)

ControlParts == PhaseInv /\ PassInv /\ CleanupInv /\ ExpireInv

(* During the pass, a step that ends the visit of k and touches no other   *)
(* row leaves the rest of the pass as it was.                              *)
LEMMA VisitEnds ==
    ASSUME ControlInv, pc \in InPass, pc' = "dns", NEW k \in Keys, Done(k),
           UNCHANGED desired,
           \A j \in Keys \ {k} : rows'[j] = rows[j]
    PROVE  ControlParts'
<1>1. todo' = todo \ {k} /\ todo \subseteq Keys
  BY DEF Done, ControlInv, TypeOK
<1>2. \A j \in todo' : Wanted(j)' \/ rows'[j] # NoRow
  BY <1>1 DEF ControlInv, PassInv, Wanted
<1> QED
  BY <1>2 DEF ControlParts, PhaseInv, PassInv, CleanupInv, ExpireInv, AtKey

LEMMA StoreElsewhere ==
    ASSUME NEW k \in Keys, NEW table,
           \A j \in Keys \ {k} : table[j] = rows[j], Store(table)
    PROVE  \A j \in Keys \ {k} : rows'[j] = rows[j]
BY DEF Store

LEMMA ReconcilingControl == ControlInv /\ Reconciling => ControlParts'
<1> SUFFICES ASSUME ControlInv, Reconciling PROVE ControlParts'
  OBVIOUS
<1> USE DEF ControlParts, Rows
<1>1. TypeOK /\ PhaseInv /\ PassInv /\ CleanupInv /\ ExpireInv
  BY DEF ControlInv
<1>2. ASSUME NEW view \in Views, StartReconcile(view) PROVE ControlParts'
  BY <1>1, <1>2
  DEF StartReconcile, PhaseInv, PassInv, CleanupInv, ExpireInv, AtKey, Wanted
<1>3. ASSUME NEW k \in Keys, CreateRecord(k) PROVE ControlParts'
  <2>1. curId' \in RecordIds
    BY <1>1, <1>3 DEF CreateRecord, RecordsOf, FreshIds
  <2> QED
    BY <1>1, <1>3, <2>1
    DEF CreateRecord, Creating, PhaseInv, PassInv, CleanupInv, ExpireInv, InPass, AtKey, Wanted
<1>4. ASSUME NEW k \in Keys, CreateFails(k) PROVE ControlParts'
  <2>1. \A j \in Keys \ {k} : rows'[j] = rows[j]
    BY <1>1, <1>4, StoreElsewhere DEF CreateFails, SaveResource, TypeOK
  <2> QED
    BY <1>4, <2>1, VisitEnds DEF CreateFails, Creating, InPass
<1>5. ASSUME SaveCreated PROVE ControlParts'
  <2>1. cur \in Keys /\ Wanted(cur) /\ CreatedRow(cur) \in Row
    BY <1>1, <1>5, CreatedRowType DEF SaveCreated, PhaseInv, AtKey, TypeOK
  <2>2. rows'[cur] # NoRow /\ \A j \in Keys \ {cur} : rows'[j] = rows[j]
    BY <1>1, <1>5, <2>1, SaveResourceEffect DEF SaveCreated, TypeOK
  <2>3. CASE desired[cur].agent = LocalAgent
    BY <1>5, <2>1, <2>2, <2>3, VisitEnds DEF SaveCreated, InPass, AtKey
  <2>4. CASE desired[cur].agent # LocalAgent
    BY <1>1, <1>5, <2>1, <2>2, <2>4
    DEF SaveCreated, PhaseInv, PassInv, CleanupInv, ExpireInv, InPass, AtKey, Wanted, TypeOK
  <2> QED
    BY <2>3, <2>4
<1>6. ASSUME PatchAgent PROVE ControlParts'
  <2>1. cur \in Keys
    BY <1>1, <1>6 DEF PatchAgent, PhaseInv, AtKey, TypeOK
  <2>2. \A j \in Keys \ {cur} : rows'[j] = rows[j]
    BY <1>1, <1>6, <2>1, StoreElsewhere DEF PatchAgent, SaveResource, TypeOK
  <2> QED
    BY <1>6, <2>1, <2>2, VisitEnds DEF PatchAgent, InPass, AtKey
<1>7. ASSUME SaveCreatedFails PROVE ControlParts'
  BY <1>1, <1>7
  DEF SaveCreatedFails, PhaseInv, PassInv, CleanupInv, ExpireInv, InPass, AtKey, Wanted
<1>8. ASSUME Rollback PROVE ControlParts'
  <2>1. cur \in Keys
    BY <1>1, <1>8 DEF Rollback, PhaseInv, AtKey, TypeOK
  <2>2. \A j \in Keys \ {cur} : rows'[j] = rows[j]
    BY <1>1, <1>8, <2>1, StoreElsewhere DEF Rollback, SaveResource, TypeOK
  <2> QED
    BY <1>8, <2>1, <2>2, VisitEnds DEF Rollback, InPass, AtKey
<1>9. ASSUME NEW k \in Keys, TakeAgent(k) PROVE ControlParts'
  <2>1. \A j \in Keys \ {k} : rows'[j] = rows[j]
    BY <1>1, <1>9, StoreElsewhere DEF TakeAgent, SaveResource, TypeOK
  <2>2. rows'[k] # NoRow
    BY <1>1, <1>9, PatchedRowTypes, SaveResourceEffect DEF TakeAgent, Store, TypeOK
  <2> QED
    BY <1>1, <1>9, <2>1, <2>2
    DEF TakeAgent, PhaseInv, PassInv, CleanupInv, ExpireInv, InPass, AtKey, Wanted, TypeOK
<1>10. ASSUME KeepRecord PROVE ControlParts'
  BY <1>1, <1>10, VisitEnds DEF KeepRecord, PhaseInv, InPass, AtKey, TypeOK
<1>11. ASSUME PushRecord \/ PushFails PROVE ControlParts'
  <2>1. cur \in Keys /\ rows[cur] \in Row
    BY <1>1, <1>11 DEF PushRecord, PushFails, PhaseInv, AtKey, TypeOK
  <2>2. CASE PushRecord
    <3>1. curId' \in RecordIds
      BY <2>1, <2>2 DEF PushRecord, PushableIds, RecordsOf, Row
    <3> QED
      BY <1>1, <2>2, <3>1
      DEF PushRecord, PhaseInv, PassInv, CleanupInv, ExpireInv, InPass, AtKey, Wanted
  <2>3. CASE PushFails
    <3>1. \A j \in Keys \ {cur} : rows'[j] = rows[j]
      BY <1>1, <2>1, <2>3, StoreElsewhere
      DEF PushFails, UpdateResourceError, UpdateResourceStatus, SaveResource, TypeOK
    <3> QED
      BY <2>1, <2>3, <3>1, VisitEnds DEF PushFails, InPass, AtKey
  <2> QED
    BY <1>11, <2>2, <2>3
<1>12. ASSUME SavePushed PROVE ControlParts'
  <2>1. cur \in Keys /\ Wanted(cur) /\ PushedRow(cur) \in Row
    BY <1>1, <1>12, PatchedRowTypes DEF SavePushed, PhaseInv, AtKey, TypeOK
  <2>2. rows'[cur] # NoRow /\ \A j \in Keys \ {cur} : rows'[j] = rows[j]
    BY <1>1, <1>12, <2>1, SaveResourceEffect DEF SavePushed, TypeOK
  <2>3. CASE rows[cur].status = "active"
    BY <1>12, <2>1, <2>2, <2>3, VisitEnds DEF SavePushed, InPass, AtKey
  <2>4. CASE rows[cur].status # "active"
    BY <1>1, <1>12, <2>1, <2>2, <2>4
    DEF SavePushed, PhaseInv, PassInv, CleanupInv, ExpireInv, InPass, AtKey, Wanted, TypeOK
  <2> QED
    BY <2>3, <2>4
<1>13. ASSUME SavePushedFails PROVE ControlParts'
  <2>1. cur \in Keys
    BY <1>1, <1>13 DEF SavePushedFails, PhaseInv, AtKey, TypeOK
  <2>2. \A j \in Keys \ {cur} : rows'[j] = rows[j]
    BY <1>1, <1>13, <2>1
    DEF SavePushedFails, UpdateResourceError, UpdateResourceStatus, SaveResource, TypeOK
  <2> QED
    BY <1>13, <2>1, <2>2, VisitEnds DEF SavePushedFails, InPass, AtKey
<1>14. ASSUME Activate PROVE ControlParts'
  <2>1. cur \in Keys
    BY <1>1, <1>14 DEF Activate, PhaseInv, AtKey, TypeOK
  <2>2. \A j \in Keys \ {cur} : rows'[j] = rows[j]
    BY <1>1, <1>14, <2>1, StoreElsewhere
    DEF Activate, UpdateResourceError, UpdateResourceStatus, SaveResource, TypeOK
  <2> QED
    BY <1>14, <2>1, <2>2, VisitEnds DEF Activate, InPass, AtKey
<1>15. ASSUME NEW k \in Keys, MarkOrphaned(k) PROVE ControlParts'
  <2>1. \A j \in Keys \ {k} : rows'[j] = rows[j]
    BY <1>1, <1>15, StoreElsewhere
    DEF MarkOrphaned, UpdateResourceStatus, SaveResource, TypeOK
  <2> QED
    BY <1>15, <2>1, VisitEnds DEF MarkOrphaned, InPass
<1>16. ASSUME ListForCleanup PROVE ControlParts'
  BY <1>1, <1>16
  DEF ListForCleanup, ListOrphanedForCleanup, HasStatus, OlderThan, PhaseInv, PassInv,
      CleanupInv, ExpireInv, InPass, AtKey
<1>17. ASSUME NEW k \in Keys, DeleteRecord(k) PROVE ControlParts'
  BY <1>1, <1>17
  DEF DeleteRecord, PhaseInv, PassInv, CleanupInv, ExpireInv, InPass, AtKey,
      HasStatus, OlderThan
<1>18. ASSUME NEW k \in Keys, DeleteFails(k) PROVE ControlParts'
  BY <1>1, <1>18
  DEF DeleteFails, Done, PhaseInv, PassInv, CleanupInv, ExpireInv, InPass, AtKey,
      HasStatus, OlderThan
<1>19. ASSUME DeleteRow PROVE ControlParts'
  <2>1. cur \in Keys /\ todo' = todo \ {cur}
    BY <1>1, <1>19 DEF DeleteRow, PhaseInv, TypeOK, Done
  <2>2. \A j \in Keys \ {cur} : rows'[j] = rows[j]
    BY <1>1, <1>19, <2>1, StoreElsewhere DEF DeleteRow, DeleteResource, TypeOK
  <2> QED
    BY <1>1, <1>19, <2>1, <2>2
    DEF DeleteRow, PhaseInv, PassInv, CleanupInv, ExpireInv, InPass, AtKey,
        HasStatus, OlderThan, TypeOK
<1>20. ASSUME ListExpired PROVE ControlParts'
  BY <1>1, <1>20
  DEF ListExpired, ListExpiredOrphans, HasStatus, PhaseInv, PassInv, CleanupInv, ExpireInv,
      InPass, AtKey
<1>21. ASSUME NEW k \in Keys, ExpireRow(k) PROVE ControlParts'
  <2>1. \A j \in Keys \ {k} : rows'[j] = rows[j]
    BY <1>1, <1>21, StoreElsewhere DEF ExpireRow, DeleteResource, TypeOK
  <2> QED
    BY <1>1, <1>21, <2>1
    DEF ExpireRow, Done, PhaseInv, PassInv, CleanupInv, ExpireInv, InPass, AtKey, HasStatus,
        TypeOK
<1>22. ASSUME FinishReconcile PROVE ControlParts'
  BY <1>1, <1>22
  DEF FinishReconcile, PhaseInv, PassInv, CleanupInv, ExpireInv, InPass, AtKey
<1> QED
  BY <1>2, <1>3, <1>4, <1>5, <1>6, <1>7, <1>8, <1>9, <1>10, <1>11, <1>12, <1>13, <1>14,
     <1>15, <1>16, <1>17, <1>18, <1>19, <1>20, <1>21, <1>22 DEF Reconciling

(* Time changes nothing of a row but its age, which it does not lower.     *)
LEMMA AgeRowsEffect ==
    ASSUME NEW table \in Rows, NEW k \in Keys
    PROVE  /\ AgeRows(table, AgeCap)[k] = NoRow <=> table[k] = NoRow
           /\ table[k] # NoRow =>
                /\ AgeRows(table, AgeCap)[k].age = NextAge(table[k].age, AgeCap)
                /\ AgeRows(table, AgeCap)[k].status = table[k].status
                /\ AgeRows(table, AgeCap)[k].agent = table[k].agent
<1> DEFINE row == [table[k] EXCEPT !.age = NextAge(table[k].age, AgeCap)]
<1>1. CASE table[k] = NoRow
  BY <1>1 DEF AgeRows, Rows
<1>2. CASE table[k] # NoRow
  <2>1. table[k] \in Row /\ table[k].age \in Ages
    BY <1>2 DEF Rows, Row
  <2>2. /\ row \in Row
        /\ row.age = NextAge(table[k].age, AgeCap)
        /\ row.status = table[k].status
        /\ row.agent = table[k].agent
    BY <2>1, NextAgeType DEF Row
  <2>3. AgeRows(table, AgeCap)[k] = row
    BY <1>2 DEF AgeRows, Rows
  <2> HIDE DEF row
  <2> QED
    BY <1>2, <2>2, <2>3, RowIsARecord
<1> QED
  BY <1>1, <1>2

LEMMA NextAgeGrows ==
    ASSUME NEW age \in Ages
    PROVE  /\ NextAge(age, AgeCap) >= age
           /\ age > RemoveDelay => NextAge(age, AgeCap) > RemoveDelay
BY DelaysAreNaturals DEF NextAge, Ages, AgeCap

LEMMA EnvironmentControl == ControlInv /\ Environment => ControlParts'
<1> SUFFICES ASSUME ControlInv, Environment PROVE ControlParts'
  OBVIOUS
<1> USE DEF ControlParts, Rows
<1>1. TypeOK /\ PhaseInv /\ PassInv /\ CleanupInv /\ ExpireInv
  BY DEF ControlInv
<1>2. CASE Crash
  BY <1>1, <1>2 DEF Crash, PhaseInv, PassInv, CleanupInv, ExpireInv, InPass, AtKey
<1>3. ASSUME UNCHANGED <<desired, rows, pc, todo, cur, curId>> PROVE ControlParts'
  BY <1>1, <1>3
  DEF PhaseInv, PassInv, CleanupInv, ExpireInv, HasStatus, OlderThan, Wanted
<1>4. ASSUME NEW id \in RecordIds, UserCreates(id) \/ UserEdits(id) \/ UserDeletes(id)
      PROVE  ControlParts'
  BY <1>3, <1>4 DEF UserCreates, UserEdits, UserDeletes
<1>5. CASE Tick
  <2>1. /\ UNCHANGED <<desired, pc, todo, cur, curId>>
        /\ rows' = AgeRows(rows, AgeCap)
        /\ todo \subseteq Keys
        /\ cur \in Keys \cup {NoKey}
    BY <1>1, <1>5 DEF Tick, TypeOK
  <2>2. \A k \in Keys : rows'[k] = NoRow <=> rows[k] = NoRow
    BY <1>1, <2>1, AgeRowsEffect DEF TypeOK
  <2>3. ASSUME NEW k \in Keys, HasStatus(rows, k, "orphaned")
        PROVE  /\ rows'[k] # NoRow /\ rows'[k].status = "orphaned"
               /\ rows[k].age > RemoveDelay => rows'[k].age > RemoveDelay
    <3>1. rows[k] \in Row /\ rows[k] # NoRow /\ rows[k].age \in Ages
      BY <1>1, <2>3 DEF HasStatus, TypeOK, Row
    <3> QED
      BY <1>1, <2>1, <2>3, <3>1, AgeRowsEffect, NextAgeGrows DEF HasStatus, TypeOK
  <2>4. PhaseInv'
    BY <1>1, <2>1, <2>2 DEF PhaseInv, AtKey, Wanted, TypeOK
  <2>5. PassInv'
    BY <1>1, <2>1, <2>2 DEF PassInv, Wanted
  <2>6. CleanupInv' /\ ExpireInv'
    BY <1>1, <2>1, <2>3 DEF CleanupInv, ExpireInv, HasStatus, OlderThan
  <2> QED
    BY <2>4, <2>5, <2>6
<1>6. CASE BecomeQuiet
  BY <1>3, <1>6 DEF BecomeQuiet
<1> QED
  BY <1>2, <1>4, <1>5, <1>6 DEF Environment

LEMMA ControlIsInvariant == Spec => []ControlInv
<1>1. Init => ControlInv
  BY InitControl
<1>2. ControlInv /\ [Next]_vars => ControlInv'
  <2>1. ControlInv /\ Next => ControlInv'
    BY ReconcilingType, ReconcilingControl, EnvironmentType, EnvironmentControl
    DEF Next, ControlInv, ControlParts
  <2>2. ControlInv /\ UNCHANGED vars => ControlInv'
    BY DEF vars, ControlInv, TypeOK, PhaseInv, PassInv, CleanupInv, ExpireInv, HasStatus,
           OlderThan, Wanted
  <2> QED
    BY <2>1, <2>2
<1> QED
  BY <1>1, <1>2, PTL DEF Spec

(* Every variable keeps its type: no step of a cycle, whatever fails in    *)
(* it, reads a row or a record that is not there.                          *)
THEOREM TypeCorrect == Spec => []TypeOK
<1>1. ControlInv => TypeOK
  BY DEF ControlInv
<1> QED
  BY <1>1, ControlIsInvariant, PTL

----------------------------------------------------------------------------
(* What a cycle in which SQLite works has settled so far.                  *)

SettledInv ==
    clean =>
        /\ \A k \in Keys : (pc \in InPass /\ k \in todo) \/ Settled(k)
        /\ pc \in {"update", "pushed", "activate"} => rows[cur].agent = desired[cur].agent
        /\ pc = "patch" => rows[cur].status = "active"

LEMMA StoreWorks ==
    ASSUME NEW table, Store(table), clean'
    PROVE  clean /\ rows' = table
BY DEF Store

LEMMA SettledDependsOn ==
    ASSUME NEW k \in Keys, Settled(k), UNCHANGED desired, rows'[k] = rows[k]
    PROVE  Settled(k)'
BY DEF Settled, Wanted, Claimed, Unclaimed, HasStatus

(* A visit that ends with its key settled.                                 *)
LEMMA VisitSettles ==
    ASSUME SettledInv, clean, pc \in InPass, pc' = "dns", NEW k \in Keys, Done(k),
           UNCHANGED desired,
           \A j \in Keys \ {k} : rows'[j] = rows[j],
           Settled(k)'
    PROVE  SettledInv'
<1>1. ASSUME NEW j \in Keys \ {k}
      PROVE  (pc' \in InPass /\ j \in todo') \/ Settled(j)'
  <2>1. CASE j \in todo
    BY <2>1 DEF Done, InPass
  <2>2. CASE j \notin todo
    BY <2>2, SettledDependsOn DEF SettledInv
  <2> QED
    BY <2>1, <2>2
<1> QED
  BY <1>1 DEF SettledInv

(* Outside the pass nothing is left to settle.                             *)
LEMMA NothingUnsettles ==
    ASSUME SettledInv, clean' => clean, pc' \notin AtKey,
           pc \in InPass => pc' \in InPass \/ todo = {},
           pc' \in InPass => todo' = todo,
           UNCHANGED desired,
           \A k \in Keys : rows'[k] = rows[k] \/ (clean' => Settled(k)')
    PROVE  SettledInv'
<1> SUFFICES ASSUME clean', NEW k \in Keys, ~(pc' \in InPass /\ k \in todo')
             PROVE  Settled(k)'
  BY DEF SettledInv, AtKey
<1>1. Settled(k) \/ Settled(k)'
  BY DEF SettledInv
<1> QED
  BY <1>1, SettledDependsOn

LEMMA ReconcilingSettles == ControlInv /\ SettledInv /\ Reconciling => SettledInv'
<1> SUFFICES ASSUME ControlInv, SettledInv, Reconciling, clean' PROVE SettledInv'
  BY DEF SettledInv
<1> USE DEF Rows
<1>1. TypeOK /\ PhaseInv /\ PassInv /\ CleanupInv /\ ExpireInv
  BY DEF ControlInv
<1>2. ASSUME NEW view \in Views, StartReconcile(view) PROVE SettledInv'
  BY <1>1, <1>2 DEF StartReconcile, SettledInv, Settled, Wanted, Unclaimed, InPass
<1>3. ASSUME NEW k \in Keys, CreateRecord(k) PROVE SettledInv'
  BY <1>3, SettledDependsOn DEF CreateRecord, Creating, SettledInv, InPass, AtKey
<1>4. ASSUME NEW k \in Keys, CreateFails(k) PROVE SettledInv'
  <2>1. clean /\ rows' = SaveResource(rows, k, ErrorRow(k))
    BY <1>4, StoreWorks DEF CreateFails
  <2>2. ErrorRow(k) \in Row /\ Wanted(k)
    BY <1>1, <1>4, ErrorRowType DEF CreateFails, Creating
  <2>3. Settled(k)'
    BY <1>1, <1>4, <2>1, <2>2, SaveResourceEffect
    DEF CreateFails, ErrorRow, Settled, Wanted, Claimed, HasStatus, TypeOK
  <2> QED
    BY <1>1, <1>4, <2>1, <2>2, <2>3, SaveResourceEffect, VisitSettles
    DEF CreateFails, Creating, InPass, TypeOK
<1>5. ASSUME SaveCreated PROVE SettledInv'
  <2>1. PICK k \in Keys : k = cur /\ cur \in todo /\ Wanted(cur) /\ CreatedRow(cur) \in Row
    BY <1>1, <1>5, CreatedRowType DEF SaveCreated, PhaseInv, AtKey, TypeOK
  <2>2. /\ rows'[cur] # NoRow
        /\ rows'[cur].status = "active" /\ rows'[cur].agent = LocalAgent
        /\ \A j \in Keys \ {cur} : rows'[j] = rows[j]
    BY <1>1, <1>5, <2>1, SaveResourceEffect DEF SaveCreated, CreatedRow, TypeOK
  <2>3. CASE desired[cur].agent = LocalAgent
    <3>1. Settled(k)'
      BY <1>5, <2>1, <2>2, <2>3 DEF SaveCreated, Done, Rest, Settled, Wanted, Claimed, HasStatus
    <3> QED
      BY <1>5, <2>1, <2>2, <2>3, <3>1, VisitSettles DEF SaveCreated, InPass, AtKey
  <2>4. CASE desired[cur].agent # LocalAgent
    BY <1>1, <1>5, <2>1, <2>2, <2>4, SettledDependsOn
    DEF SaveCreated, SettledInv, InPass, AtKey
  <2> QED
    BY <2>3, <2>4
<1>6. ASSUME PatchAgent PROVE SettledInv'
  <2> DEFINE row == [rows[cur] EXCEPT !.agent = desired[cur].agent]
  <2>1. PICK k \in Keys : k = cur /\ Wanted(cur) /\ rows[cur] # NoRow /\ rows[cur] \in Row
    BY <1>1, <1>6 DEF PatchAgent, PhaseInv, AtKey, TypeOK
  <2>2. clean /\ rows' = SaveResource(rows, cur, row)
    BY <1>6, StoreWorks DEF PatchAgent
  <2>3. row \in Row /\ row.agent = desired[cur].agent /\ row.status = rows[cur].status
    BY <1>1, <2>1, PatchedRowTypes DEF Row
  <2>4. rows[cur].status = "active"
    BY <1>6, <2>2 DEF PatchAgent, SettledInv
  <2> HIDE DEF row
  <2>5. Settled(k)'
    BY <1>1, <1>6, <2>1, <2>2, <2>3, <2>4, SaveResourceEffect
    DEF PatchAgent, Settled, Wanted, Claimed, HasStatus, TypeOK
  <2> QED
    BY <1>1, <1>6, <2>1, <2>2, <2>3, <2>5, SaveResourceEffect, VisitSettles
    DEF PatchAgent, InPass, AtKey, TypeOK
<1>7. ASSUME SaveCreatedFails PROVE SettledInv'
  BY <1>7 DEF SaveCreatedFails
<1>8. ASSUME Rollback PROVE SettledInv'
  <2>1. PICK k \in Keys : k = cur /\ Wanted(cur) /\ ErrorRow(cur) \in Row
    BY <1>1, <1>8, ErrorRowType DEF Rollback, PhaseInv, AtKey, TypeOK
  <2>2. clean /\ rows' = SaveResource(rows, cur, ErrorRow(cur))
    BY <1>8, StoreWorks DEF Rollback
  <2>3. Settled(k)'
    BY <1>1, <1>8, <2>1, <2>2, SaveResourceEffect
    DEF Rollback, ErrorRow, Settled, Wanted, Claimed, HasStatus, TypeOK
  <2> QED
    BY <1>1, <1>8, <2>1, <2>2, <2>3, SaveResourceEffect, VisitSettles
    DEF Rollback, InPass, AtKey, TypeOK
<1>9. ASSUME NEW k \in Keys, TakeAgent(k) PROVE SettledInv'
  <2> DEFINE row == [rows[k] EXCEPT !.agent = desired[k].agent]
  <2>1. row \in Row /\ row.agent = desired[k].agent
    BY <1>1, <1>9, PatchedRowTypes DEF TakeAgent, Row, TypeOK
  <2> HIDE DEF row
  <2>2. clean /\ (rows' = rows \/ rows' = SaveResource(rows, k, row))
    BY <1>9, StoreWorks DEF TakeAgent, row
  <2>3. rows'[k].agent = desired[k].agent
    <3>1. CASE rows[k].agent = desired[k].agent
      BY <1>9, <3>1 DEF TakeAgent
    <3>2. CASE rows[k].agent # desired[k].agent
      <4>1. rows' = SaveResource(rows, k, row)
        BY <1>9, <3>2, StoreWorks DEF TakeAgent, row
      <4> QED
        BY <1>1, <2>1, <4>1, SaveResourceEffect DEF TypeOK
    <3> QED
      BY <3>1, <3>2
  <2>4. \A j \in Keys \ {k} : rows'[j] = rows[j]
    BY <1>1, <2>1, <2>2, SaveResourceEffect DEF TypeOK
  <2>5. ASSUME NEW j \in Keys, j \notin todo PROVE Settled(j)'
    BY <1>9, <2>2, <2>4, <2>5, SettledDependsOn DEF TakeAgent, SettledInv
  <2> QED
    BY <1>9, <2>3, <2>5 DEF TakeAgent, SettledInv, InPass, AtKey
<1>10. ASSUME KeepRecord PROVE SettledInv'
  <2>1. PICK k \in Keys : k = cur /\ Wanted(cur) /\ rows[cur] # NoRow /\ clean
    BY <1>1, <1>10 DEF KeepRecord, PhaseInv, AtKey, TypeOK
  <2>2. rows[cur].status = "active" /\ rows[cur].agent = desired[cur].agent
    BY <1>10, <2>1 DEF KeepRecord, MustPush, SettledInv
  <2>3. Settled(k)'
    BY <1>10, <2>1, <2>2 DEF KeepRecord, Settled, Wanted, Claimed, HasStatus
  <2> QED
    BY <1>10, <2>1, <2>3, VisitSettles DEF KeepRecord, InPass, AtKey
<1>11. ASSUME PushRecord PROVE SettledInv'
  BY <1>11, SettledDependsOn DEF PushRecord, SettledInv, InPass, AtKey
<1>12. ASSUME PushFails PROVE SettledInv'
  <2>1. PICK k \in Keys : k = cur /\ Wanted(cur) /\ rows[cur] # NoRow
    BY <1>1, <1>12 DEF PushFails, PhaseInv, AtKey, TypeOK
  <2>2. clean /\ rows' = UpdateResourceStatus(rows, cur, "error")
    BY <1>12, StoreWorks DEF PushFails, UpdateResourceError
  <2>3. /\ rows'[cur] # NoRow
        /\ rows'[cur].status = "error" /\ rows'[cur].agent = rows[cur].agent
        /\ \A j \in Keys \ {cur} : rows'[j] = rows[j]
    BY <1>1, <2>1, <2>2, UpdateResourceStatusEffect DEF TypeOK, Statuses
  <2>4. rows[cur].agent = desired[cur].agent
    BY <1>12, <2>2 DEF PushFails, SettledInv
  <2>5. Settled(k)'
    BY <1>12, <2>1, <2>3, <2>4 DEF PushFails, Settled, Wanted, Claimed, HasStatus
  <2> QED
    BY <1>12, <2>1, <2>2, <2>3, <2>5, VisitSettles DEF PushFails, InPass, AtKey
<1>13. ASSUME SavePushed PROVE SettledInv'
  <2>1. PICK k \in Keys : k = cur /\ cur \in todo /\ Wanted(cur) /\ rows[cur] \in Row /\ clean
    BY <1>1, <1>13 DEF SavePushed, PhaseInv, AtKey, TypeOK
  <2>2. PushedRow(cur) \in Row
    BY <1>1, <1>13, <2>1, PatchedRowTypes, RowIsARecord
  <2>3. /\ PushedRow(cur).status = rows[cur].status
        /\ PushedRow(cur).agent = desired[cur].agent
    BY <2>1 DEF PushedRow, Row
  <2>4. /\ rows'[cur] # NoRow
        /\ rows'[cur].status = rows[cur].status /\ rows'[cur].agent = desired[cur].agent
        /\ \A j \in Keys \ {cur} : rows'[j] = rows[j]
    BY <1>1, <1>13, <2>1, <2>2, <2>3, SaveResourceEffect DEF SavePushed, TypeOK
  <2>5. CASE rows[cur].status = "active"
    <3>1. Settled(k)'
      BY <1>13, <2>1, <2>4, <2>5 DEF SavePushed, Settled, Wanted, Claimed, HasStatus
    <3> QED
      BY <1>13, <2>1, <2>4, <2>5, <3>1, VisitSettles DEF SavePushed, InPass, AtKey
  <2>6. CASE rows[cur].status # "active"
    BY <1>13, <2>1, <2>4, <2>6, SettledDependsOn DEF SavePushed, SettledInv, InPass, AtKey
  <2> QED
    BY <2>5, <2>6
<1>14. ASSUME SavePushedFails PROVE SettledInv'
  BY <1>14 DEF SavePushedFails
<1>15. ASSUME Activate PROVE SettledInv'
  <2>1. PICK k \in Keys : k = cur /\ Wanted(cur) /\ rows[cur] # NoRow
    BY <1>1, <1>15 DEF Activate, PhaseInv, AtKey, TypeOK
  <2>2. clean /\ rows' = UpdateResourceStatus(rows, cur, "active")
    BY <1>15, StoreWorks DEF Activate, UpdateResourceError
  <2>3. /\ rows'[cur] # NoRow
        /\ rows'[cur].status = "active" /\ rows'[cur].agent = rows[cur].agent
        /\ \A j \in Keys \ {cur} : rows'[j] = rows[j]
    BY <1>1, <2>1, <2>2, UpdateResourceStatusEffect DEF TypeOK, Statuses
  <2>4. rows[cur].agent = desired[cur].agent
    BY <1>15, <2>2 DEF Activate, SettledInv
  <2>5. Settled(k)'
    BY <1>15, <2>1, <2>3, <2>4 DEF Activate, Settled, Wanted, Claimed, HasStatus
  <2> QED
    BY <1>15, <2>1, <2>2, <2>3, <2>5, VisitSettles DEF Activate, InPass, AtKey
<1>16. ASSUME NEW k \in Keys, MarkOrphaned(k) PROVE SettledInv'
  <2>1. rows[k] # NoRow /\ ~Wanted(k)
    BY <1>1, <1>16 DEF MarkOrphaned, PassInv, InPass
  <2>2. /\ clean
        /\ HasStatus(rows', k, "orphaned")
        /\ \A j \in Keys \ {k} : rows'[j] = rows[j]
    <3>1. CASE rows[k].status = "orphaned"
      BY <1>16, <2>1, <3>1 DEF MarkOrphaned, HasStatus
    <3>2. CASE rows[k].status # "orphaned"
      <4>1. clean /\ rows' = UpdateResourceStatus(rows, k, "orphaned")
        BY <1>16, <3>2, StoreWorks DEF MarkOrphaned
      <4> QED
        BY <1>1, <2>1, <4>1, UpdateResourceStatusEffect DEF TypeOK, Statuses, HasStatus
    <3> QED
      BY <3>1, <3>2
  <2>3. Settled(k)'
    BY <1>16, <2>1, <2>2 DEF MarkOrphaned, Settled, Wanted, Unclaimed
  <2> QED
    BY <1>16, <2>2, <2>3, VisitSettles DEF MarkOrphaned, InPass
<1>17. ASSUME ListForCleanup \/ ListExpired \/ FinishReconcile PROVE SettledInv'
  BY <1>17, NothingUnsettles
  DEF ListForCleanup, ListExpired, FinishReconcile, InPass, AtKey
<1>18. ASSUME NEW k \in Keys, DeleteRecord(k) \/ DeleteFails(k) PROVE SettledInv'
  BY <1>18, NothingUnsettles DEF DeleteRecord, DeleteFails, InPass, AtKey
<1>19. ASSUME NEW k \in Keys, HasStatus(rows, k, "orphaned"), pc \notin InPass,
              Store(DeleteResource(rows, k)), UNCHANGED desired, pc' \notin InPass
       PROVE  SettledInv'
  <2>1. clean /\ rows' = DeleteResource(rows, k)
    BY <1>19, StoreWorks
  <2>2. ~Wanted(k)
    BY <1>19, <2>1 DEF SettledInv, Settled, Claimed, HasStatus
  <2>3. Settled(k)'
    BY <1>1, <1>19, <2>1, <2>2 DEF DeleteResource, Settled, Wanted, Unclaimed, TypeOK
  <2>4. \A j \in Keys \ {k} : rows'[j] = rows[j]
    BY <1>1, <2>1 DEF DeleteResource, TypeOK
  <2> QED
    BY <1>19, <2>1, <2>3, <2>4, NothingUnsettles DEF InPass
<1>20. ASSUME DeleteRow PROVE SettledInv'
  BY <1>1, <1>19, <1>20 DEF DeleteRow, PhaseInv, CleanupInv, TypeOK, InPass, AtKey
<1>21. ASSUME NEW k \in Keys, ExpireRow(k) PROVE SettledInv'
  BY <1>1, <1>19, <1>21 DEF ExpireRow, ExpireInv, InPass, AtKey
<1> QED
  BY <1>2, <1>3, <1>4, <1>5, <1>6, <1>7, <1>8, <1>9, <1>10, <1>11, <1>12, <1>13, <1>14,
     <1>15, <1>16, <1>17, <1>18, <1>20, <1>21 DEF Reconciling

LEMMA EnvironmentSettles == ControlInv /\ SettledInv /\ Environment => SettledInv'
<1> SUFFICES ASSUME ControlInv, SettledInv, Environment PROVE SettledInv'
  OBVIOUS
<1> USE DEF Rows
<1>1. TypeOK /\ PhaseInv
  BY DEF ControlInv
<1>2. CASE Crash
  BY <1>2 DEF Crash, SettledInv
<1>3. ASSUME UNCHANGED <<desired, rows, pc, todo, cur, clean>> PROVE SettledInv'
  BY <1>3, SettledDependsOn DEF SettledInv
<1>4. ASSUME NEW id \in RecordIds, UserCreates(id) \/ UserEdits(id) \/ UserDeletes(id)
      PROVE  SettledInv'
  BY <1>3, <1>4 DEF UserCreates, UserEdits, UserDeletes
<1>5. CASE Tick
  <2>1. /\ UNCHANGED <<desired, pc, todo, cur, clean>>
        /\ rows' = AgeRows(rows, AgeCap)
    BY <1>5 DEF Tick
  <2>2. ASSUME NEW k \in Keys
        PROVE  /\ rows'[k] = NoRow <=> rows[k] = NoRow
               /\ rows[k] # NoRow => /\ rows'[k].status = rows[k].status
                                     /\ rows'[k].agent = rows[k].agent
    BY <1>1, <2>1, AgeRowsEffect DEF TypeOK
  <2>3. ASSUME NEW k \in Keys, Settled(k) PROVE Settled(k)'
    BY <2>1, <2>2, <2>3 DEF Settled, Wanted, Claimed, Unclaimed, HasStatus
  <2>4. ASSUME pc \in AtKey PROVE cur \in Keys
    BY <1>1, <2>4 DEF PhaseInv, TypeOK
  <2>5. ASSUME pc \in {"patch", "update", "pushed", "activate"}
        PROVE  rows[cur] # NoRow
    BY <1>1, <2>5 DEF PhaseInv
  <2> QED
    BY <2>1, <2>2, <2>3, <2>4, <2>5 DEF SettledInv, AtKey
<1>6. CASE BecomeQuiet
  BY <1>3, <1>6 DEF BecomeQuiet
<1> QED
  BY <1>2, <1>4, <1>5, <1>6 DEF Environment

LEMMA SettledIsInvariant == Spec => []SettledInv
<1>1. Init => SettledInv
  BY DEF Init, SettledInv
<1>2. ControlInv /\ SettledInv /\ [Next]_vars => SettledInv'
  <2>1. ControlInv /\ SettledInv /\ Next => SettledInv'
    BY ReconcilingSettles, EnvironmentSettles DEF Next
  <2>2. SettledInv /\ UNCHANGED vars => SettledInv'
    BY SettledDependsOn DEF vars, SettledInv
  <2> QED
    BY <2>1, <2>2
<1> QED
  BY <1>1, <1>2, ControlIsInvariant, PTL DEF Spec

(* When a cycle in which SQLite worked ends, the table agrees with the     *)
(* labels, whatever Cloudflare answered: Reconcile leaves no key out, and  *)
(* what it does for one key does not undo another.                         *)
THEOREM CycleSettlesHolds == Spec => []CycleSettles
<1>1. TypeOK /\ SettledInv => CycleSettles
  BY DEF SettledInv, CycleSettles, InPass, AtKey
<1> QED
  BY <1>1, TypeCorrect, SettledIsInvariant, PTL

(* The cleanup pass takes down nothing that the labels of its own cycle    *)
(* ask for.                                                                *)
THEOREM OnlyUnwantedDeletedHolds == Spec => OnlyUnwantedDeleted
<1>1. ASSUME ControlInv, SettledInv, NEW k \in Keys, clean, DeleteRecord(k)
      PROVE  ~Wanted(k)
  <2>1. HasStatus(rows, k, "orphaned")
    BY <1>1 DEF ControlInv, CleanupInv, DeleteRecord
  <2>2. Settled(k)
    BY <1>1 DEF SettledInv, DeleteRecord, InPass, AtKey
  <2> QED
    BY <2>1, <2>2 DEF Settled, Claimed, HasStatus
<1>2. ControlInv /\ SettledInv => [\A k \in Keys : clean /\ DeleteRecord(k) => ~Wanted(k)]_vars
  BY <1>1
<1> QED
  BY <1>2, ControlIsInvariant, SettledIsInvariant, PTL DEF OnlyUnwantedDeleted

----------------------------------------------------------------------------
(* The age of an orphan.                                                   *)

GraceInv ==
    \A k \in Keys : HasStatus(rows, k, "orphaned") => rows[k].age <= unwanted[k]

(* A cycle leaves a row alone, removes it or renews its updated_at.        *)
LEMMA RowsAreRenewed ==
    ASSUME ControlInv, Reconciling, NEW k \in Keys
    PROVE  rows'[k] = rows[k] \/ rows'[k] = NoRow \/ rows'[k].age = 0
<1> USE DEF Rows
<1>1. TypeOK /\ PhaseInv /\ PassInv /\ CleanupInv /\ ExpireInv
  BY DEF ControlInv
<1> DEFINE Renewed == rows'[k] = rows[k] \/ rows'[k] = NoRow \/ rows'[k].age = 0
<1>2. ASSUME NEW j \in Keys, NEW row \in Row,
             rows' = rows \/ rows' = SaveResource(rows, j, row)
      PROVE  Renewed
  BY <1>1, <1>2, SaveResourceEffect DEF TypeOK
<1>3. ASSUME NEW j \in Keys, NEW status \in Statuses, rows[j] # NoRow,
             rows' = rows \/ rows' = UpdateResourceStatus(rows, j, status)
      PROVE  Renewed
  BY <1>1, <1>3, UpdateResourceStatusEffect DEF TypeOK
<1>4. ASSUME NEW j \in Keys, rows' = rows \/ rows' = DeleteResource(rows, j)
      PROVE  Renewed
  BY <1>1, <1>4 DEF DeleteResource, TypeOK
<1>5. ASSUME UNCHANGED rows PROVE Renewed
  BY <1>5
<1>6. ASSUME NEW j \in Keys, CreateFails(j) PROVE Renewed
  BY <1>1, <1>2, <1>6, ErrorRowType DEF CreateFails, Creating, Store
<1>7. CASE SaveCreated
  BY <1>1, <1>2, <1>7, CreatedRowType DEF SaveCreated, PhaseInv, AtKey, TypeOK
<1>8. CASE PatchAgent
  BY <1>1, <1>2, <1>8, PatchedRowTypes DEF PatchAgent, Store, PhaseInv, AtKey, TypeOK
<1>9. CASE Rollback
  BY <1>1, <1>2, <1>9, ErrorRowType DEF Rollback, Store, PhaseInv, AtKey, TypeOK
<1>10. ASSUME NEW j \in Keys, TakeAgent(j) PROVE Renewed
  BY <1>1, <1>2, <1>5, <1>10, PatchedRowTypes DEF TakeAgent, Store
<1>11. CASE PushFails
  BY <1>1, <1>3, <1>11
  DEF PushFails, Store, UpdateResourceError, Statuses, PhaseInv, AtKey, TypeOK
<1>12. CASE SavePushed
  BY <1>1, <1>2, <1>12, PatchedRowTypes DEF SavePushed, PhaseInv, AtKey, TypeOK
<1>13. CASE SavePushedFails
  BY <1>1, <1>3, <1>13
  DEF SavePushedFails, UpdateResourceError, Statuses, PhaseInv, AtKey, TypeOK
<1>14. CASE Activate
  BY <1>1, <1>3, <1>14
  DEF Activate, Store, UpdateResourceError, Statuses, PhaseInv, AtKey, TypeOK
<1>15. ASSUME NEW j \in Keys, MarkOrphaned(j) PROVE Renewed
  BY <1>1, <1>3, <1>5, <1>15 DEF MarkOrphaned, Store, Statuses, PassInv, InPass
<1>16. CASE DeleteRow
  BY <1>1, <1>4, <1>16 DEF DeleteRow, Store, PhaseInv, TypeOK
<1>17. ASSUME NEW j \in Keys, ExpireRow(j) PROVE Renewed
  BY <1>4, <1>17 DEF ExpireRow, Store
<1>18. \/ UNCHANGED rows
       \/ \E j \in Keys : CreateFails(j) \/ TakeAgent(j) \/ MarkOrphaned(j) \/ ExpireRow(j)
       \/ SaveCreated \/ PatchAgent \/ Rollback \/ PushFails
       \/ SavePushed \/ SavePushedFails \/ Activate \/ DeleteRow
  BY DEF Reconciling, StartReconcile, CreateRecord, KeepRecord, PushRecord, DeleteRecord,
         DeleteFails, SaveCreatedFails, ListForCleanup, ListExpired, FinishReconcile
<1> QED
  BY <1>5, <1>6, <1>7, <1>8, <1>9, <1>10, <1>11, <1>12, <1>13, <1>14, <1>15, <1>16,
     <1>17, <1>18

(* The clock of the property starts again only for a key that is claimed.  *)
LEMMA UnwantedInCycle ==
    ASSUME ControlInv, SettledInv, Reconciling, NEW k \in Keys,
           HasStatus(rows', k, "orphaned"), rows'[k] = rows[k]
    PROVE  unwanted'[k] = unwanted[k]
<1>1. CASE ListForCleanup
  <2>1. ~(clean /\ Wanted(k))
    BY <1>1 DEF SettledInv, Settled, Claimed, HasStatus, ListForCleanup
  <2> QED
    BY <1>1, <2>1 DEF ListForCleanup
<1>2. CASE ~ListForCleanup
  BY <1>2
  DEF Reconciling, StartReconcile, CreateRecord, CreateFails, SaveCreated, PatchAgent,
      SaveCreatedFails, Rollback, TakeAgent, KeepRecord, PushRecord, PushFails, SavePushed,
      SavePushedFails, Activate, MarkOrphaned, DeleteRecord, DeleteFails, DeleteRow,
      ListExpired, ExpireRow, FinishReconcile
<1> QED
  BY <1>1, <1>2

LEMMA NextAgeMonotone ==
    ASSUME NEW a \in Ages, NEW b \in Ages, a <= b
    PROVE  NextAge(a, AgeCap) <= NextAge(b, AgeCap)
BY DelaysAreNaturals DEF NextAge, Ages, AgeCap

LEMMA GraceStep ==
    ControlInv /\ ControlInv' /\ SettledInv /\ GraceInv /\ [Next]_vars => GraceInv'
<1> SUFFICES ASSUME ControlInv, ControlInv', SettledInv, GraceInv, [Next]_vars,
                    NEW k \in Keys, HasStatus(rows', k, "orphaned")
             PROVE  rows'[k].age <= unwanted'[k]
  BY DEF GraceInv, HasStatus
<1>1. /\ rows \in Rows /\ unwanted[k] \in Ages
      /\ unwanted'[k] \in Ages
  BY DEF ControlInv, TypeOK, Rows
<1>2. CASE Reconciling
  <2>1. CASE rows'[k] = rows[k]
    BY <1>2, <2>1, UnwantedInCycle DEF GraceInv, HasStatus
  <2>2. CASE rows'[k].age = 0
    BY <1>1, <2>2, DelaysAreNaturals DEF Ages, AgeCap
  <2> QED
    BY <1>2, <2>1, <2>2, RowsAreRenewed DEF HasStatus
<1>3. CASE Tick
  <2>1. rows' = AgeRows(rows, AgeCap) /\ unwanted'[k] = NextAge(unwanted[k], AgeCap)
    BY <1>3 DEF Tick
  <2>2. /\ rows[k] # NoRow /\ HasStatus(rows, k, "orphaned")
        /\ rows'[k].age = NextAge(rows[k].age, AgeCap)
    BY <1>1, <2>1, AgeRowsEffect DEF HasStatus
  <2>3. rows[k].age \in Ages /\ rows[k].age <= unwanted[k]
    BY <1>1, <2>2 DEF GraceInv, Rows, Row
  <2> QED
    BY <1>1, <2>1, <2>2, <2>3, NextAgeMonotone
<1>4. CASE UNCHANGED <<rows, unwanted>>
  BY <1>4 DEF GraceInv, HasStatus
<1>5. Reconciling \/ Tick \/ UNCHANGED <<rows, unwanted>>
  BY DEF Next, Environment, Crash, UserCreates, UserEdits, UserDeletes, BecomeQuiet, vars
<1> QED
  BY <1>2, <1>3, <1>4, <1>5

(* A record is taken down only when no complete pass over the labels has   *)
(* asked for it for longer than remove_delay: the age the cleanup pass     *)
(* looks at is never more than the time the key has been unwanted.         *)
THEOREM GraceRespectedHolds == Spec => GraceRespected
<1>1. Init => GraceInv
  BY DEF Init, GraceInv, HasStatus
<1>2. ASSUME ControlInv, GraceInv, NEW k \in Keys, DeleteRecord(k)
      PROVE  unwanted[k] > RemoveDelay
  <2>1. HasStatus(rows, k, "orphaned") /\ rows[k].age > RemoveDelay
    BY <1>2 DEF ControlInv, CleanupInv, DeleteRecord, OlderThan
  <2>2. rows[k].age \in Ages /\ unwanted[k] \in Ages
    BY <1>2, <2>1 DEF HasStatus, ControlInv, TypeOK, Row
  <2> QED
    BY <1>2, <2>1, <2>2, DelaysAreNaturals DEF GraceInv, Ages, AgeCap
<1>3. ControlInv /\ GraceInv => [\A k \in Keys : DeleteRecord(k) => unwanted[k] > RemoveDelay]_vars
  BY <1>2
<1> QED
  BY <1>1, <1>3, GraceStep, ControlIsInvariant, SettledIsInvariant, PTL
  DEF Spec, GraceRespected

----------------------------------------------------------------------------
(* The table implements ManagedRecord as long as SQLite works.             *)

(* Without storage failures only a crash makes a cycle unclean, and the    *)
(* next cycle starts afresh.                                               *)
CleanInv == clean \in BOOLEAN /\ (clean \/ pc = "idle")

LEMMA CleanStep ==
    ASSUME "storage" \notin Faults, CleanInv, [Next]_vars
    PROVE  CleanInv'
<1>1. CASE Reconciling
  BY <1>1
  DEF CleanInv, May, Store, Reconciling, StartReconcile, CreateRecord, Creating, CreateFails,
      SaveCreated, PatchAgent, SaveCreatedFails, Rollback, TakeAgent, KeepRecord, PushRecord,
      PushFails, SavePushed, SavePushedFails, Activate, MarkOrphaned, ListForCleanup,
      DeleteRecord, DeleteFails, DeleteRow, ListExpired, ExpireRow, FinishReconcile
<1>2. CASE Environment
  BY <1>2
  DEF CleanInv, Environment, Crash, UserCreates, UserEdits, UserDeletes, Tick, BecomeQuiet
<1>3. CASE UNCHANGED vars
  BY <1>3 DEF CleanInv, vars
<1> QED
  BY <1>1, <1>2, <1>3 DEF Next

LifeStep ==
    \/ Lifecycle!Next
    \/ UNCHANGED desired /\ \A k \in Keys : LifeOf(k)' = LifeOf(k)

(* One key moves on, the others stay.                                      *)
LEMMA OneKeyMoves ==
    ASSUME UNCHANGED desired, NEW k \in Keys,
           \A j \in Keys \ {k} : rows'[j] = rows[j],
           \/ LifeOf(k)' = LifeOf(k)
           \/ Wanted(k) /\ LifeOf(k) \in {"none", "orphan"} /\ LifeOf(k)' = "claimed"
           \/ ~Wanted(k) /\ LifeOf(k) = "claimed" /\ LifeOf(k)' = "orphan"
           \/ ~Wanted(k) /\ LifeOf(k) = "orphan" /\ LifeOf(k)' = "none"
    PROVE  LifeStep
<1>1. \A j \in Keys \ {k} : LifeOf(j)' = LifeOf(j)
  BY DEF LifeOf
<1> DEFINE life == [j \in Keys |-> LifeOf(j)]
<1>2. ASSUME NEW to, LifeOf(k)' = to
      PROVE  life' = [life EXCEPT ![k] = to]
  BY <1>1, <1>2
<1>3. CASE LifeOf(k)' = LifeOf(k)
  BY <1>1, <1>3 DEF LifeStep
<1>4. CASE Wanted(k) /\ LifeOf(k) \in {"none", "orphan"} /\ LifeOf(k)' = "claimed"
  <2>1. Lifecycle!Claim(k)
    BY <1>2, <1>4 DEF Lifecycle!Claim, Wanted
  <2> QED
    BY <2>1 DEF LifeStep, Lifecycle!Next
<1>5. CASE ~Wanted(k) /\ LifeOf(k) = "claimed" /\ LifeOf(k)' = "orphan"
  <2>1. Lifecycle!Abandon(k)
    BY <1>2, <1>5 DEF Lifecycle!Abandon, Wanted
  <2> QED
    BY <2>1 DEF LifeStep, Lifecycle!Next
<1>6. CASE ~Wanted(k) /\ LifeOf(k) = "orphan" /\ LifeOf(k)' = "none"
  <2>1. Lifecycle!Drop(k)
    BY <1>2, <1>6 DEF Lifecycle!Drop, Wanted
  <2> QED
    BY <2>1 DEF LifeStep, Lifecycle!Next
<1> QED
  BY <1>3, <1>4, <1>5, <1>6

LEMMA ReconcilingIsALifeStep ==
    ASSUME ControlInv, SettledInv, CleanInv, "storage" \notin Faults, Reconciling
    PROVE  LifeStep
<1> USE DEF Rows
<1>1. TypeOK /\ PhaseInv /\ PassInv /\ CleanupInv /\ ExpireInv
  BY DEF ControlInv
<1>2. ASSUME NEW table, Store(table) PROVE rows' = table
  BY <1>2 DEF Store, May
<1>3. ASSUME NEW view \in Views, StartReconcile(view) PROVE LifeStep
  BY <1>3 DEF StartReconcile, LifeStep, Lifecycle!Next, Lifecycle!Look, Views, LifeOf
<1>4. ASSUME UNCHANGED <<desired, rows>> PROVE LifeStep
  BY <1>4 DEF LifeStep, LifeOf
(* A row that is saved for a wanted key: new, or with its status kept.     *)
<1>5. ASSUME NEW k \in Keys, NEW row \in Row, Wanted(k), UNCHANGED desired,
             rows' = SaveResource(rows, k, row),
             row.status # "orphaned" \/ (rows[k] # NoRow /\ rows[k].status = row.status)
      PROVE  LifeStep
  <2>1. /\ rows'[k] # NoRow /\ rows'[k].status = row.status
        /\ \A j \in Keys \ {k} : rows'[j] = rows[j]
    BY <1>1, <1>5, SaveResourceEffect DEF TypeOK
  <2>2. LifeOf(k)' = IF row.status = "orphaned" THEN "orphan" ELSE "claimed"
    BY <2>1 DEF LifeOf
  <2>3. LifeOf(k) \in {"none", "claimed", "orphan"}
    BY DEF LifeOf
  <2>4. row.status = "orphaned" => LifeOf(k) = "orphan"
    BY <1>5 DEF LifeOf
  <2> QED
    BY <1>5, <2>1, <2>2, <2>3, <2>4, OneKeyMoves
<1>6. ASSUME NEW k \in Keys, NEW status \in Statuses, rows[k] # NoRow, UNCHANGED desired,
             rows' = UpdateResourceStatus(rows, k, status),
             status = "orphaned" <=> ~Wanted(k)
      PROVE  LifeStep
  <2>1. /\ rows'[k] # NoRow /\ rows'[k].status = status
        /\ \A j \in Keys \ {k} : rows'[j] = rows[j]
    BY <1>1, <1>6, UpdateResourceStatusEffect DEF TypeOK
  <2>2. LifeOf(k)' = IF status = "orphaned" THEN "orphan" ELSE "claimed"
    BY <2>1 DEF LifeOf
  <2>3. LifeOf(k) \in {"claimed", "orphan"}
    BY <1>6 DEF LifeOf
  <2> QED
    BY <1>6, <2>1, <2>2, <2>3, OneKeyMoves
<1>7. ASSUME NEW k \in Keys, HasStatus(rows, k, "orphaned"), pc \notin InPass, pc # "idle",
             UNCHANGED desired, rows' = DeleteResource(rows, k)
      PROVE  LifeStep
  <2>1. ~Wanted(k)
    BY <1>7 DEF CleanInv, SettledInv, Settled, Claimed, HasStatus
  <2>2. rows'[k] = NoRow /\ \A j \in Keys \ {k} : rows'[j] = rows[j]
    BY <1>1, <1>7 DEF DeleteResource, TypeOK
  <2>3. LifeOf(k) = "orphan" /\ LifeOf(k)' = "none"
    BY <1>7, <2>2 DEF LifeOf, HasStatus
  <2> QED
    BY <1>7, <2>1, <2>2, <2>3, OneKeyMoves
<1>8. ASSUME NEW k \in Keys, CreateFails(k) PROVE LifeStep
  BY <1>1, <1>2, <1>5, <1>8, ErrorRowType DEF CreateFails, Creating, ErrorRow
<1>9. ASSUME SaveCreated PROVE LifeStep
  BY <1>1, <1>5, <1>9, CreatedRowType DEF SaveCreated, CreatedRow, PhaseInv, AtKey, TypeOK
<1>10. ASSUME NEW k \in Keys, Wanted(k), rows[k] # NoRow, UNCHANGED desired,
              rows' = SaveResource(rows, k, [rows[k] EXCEPT !.agent = desired[k].agent])
       PROVE  LifeStep
  <2> DEFINE row == [rows[k] EXCEPT !.agent = desired[k].agent]
  <2>1. row \in Row /\ row.status = rows[k].status
    BY <1>1, <1>10, PatchedRowTypes DEF TypeOK, Row
  <2> HIDE DEF row
  <2> QED
    BY <1>5, <1>10, <2>1 DEF row
<1>11. ASSUME PatchAgent PROVE LifeStep
  BY <1>1, <1>2, <1>10, <1>11 DEF PatchAgent, PhaseInv, AtKey, TypeOK
<1>12. ASSUME NEW k \in Keys, TakeAgent(k) PROVE LifeStep
  BY <1>2, <1>4, <1>10, <1>12 DEF TakeAgent
<1>13. ASSUME Rollback PROVE LifeStep
  BY <1>1, <1>2, <1>5, <1>13, ErrorRowType DEF Rollback, ErrorRow, PhaseInv, AtKey, TypeOK
<1>14. ASSUME PushFails PROVE LifeStep
  BY <1>1, <1>2, <1>6, <1>14
  DEF PushFails, UpdateResourceError, Statuses, PhaseInv, AtKey, TypeOK
<1>15. ASSUME SavePushed PROVE LifeStep
  <2>1. cur \in Keys /\ Wanted(cur) /\ rows[cur] # NoRow /\ rows[cur] \in Row
    BY <1>1, <1>15 DEF SavePushed, PhaseInv, AtKey, TypeOK
  <2>2. PushedRow(cur) \in Row /\ PushedRow(cur).status = rows[cur].status
    BY <1>1, <2>1, PatchedRowTypes DEF PushedRow, Row
  <2> QED
    BY <1>5, <1>15, <2>1, <2>2 DEF SavePushed
<1>16. ASSUME Activate PROVE LifeStep
  BY <1>1, <1>2, <1>6, <1>16
  DEF Activate, UpdateResourceError, Statuses, PhaseInv, AtKey, TypeOK
<1>17. ASSUME NEW k \in Keys, MarkOrphaned(k) PROVE LifeStep
  BY <1>1, <1>2, <1>4, <1>6, <1>17 DEF MarkOrphaned, PassInv, InPass, Statuses
<1>18. ASSUME DeleteRow PROVE LifeStep
  BY <1>1, <1>2, <1>7, <1>18 DEF DeleteRow, PhaseInv, CleanupInv, TypeOK, InPass, AtKey
<1>19. ASSUME NEW k \in Keys, ExpireRow(k) PROVE LifeStep
  BY <1>1, <1>2, <1>7, <1>19 DEF ExpireRow, ExpireInv, InPass, AtKey
<1>20. ~SaveCreatedFails /\ ~SavePushedFails
  BY DEF SaveCreatedFails, SavePushedFails, May
<1>21. \/ UNCHANGED <<desired, rows>>
       \/ \E view \in Views : StartReconcile(view)
       \/ \E k \in Keys : CreateFails(k) \/ TakeAgent(k) \/ MarkOrphaned(k) \/ ExpireRow(k)
       \/ SaveCreated \/ PatchAgent \/ Rollback \/ PushFails \/ SavePushed \/ Activate
       \/ DeleteRow
  BY <1>20
  DEF Reconciling, CreateRecord, KeepRecord, PushRecord, DeleteRecord, DeleteFails,
      ListForCleanup, ListExpired, FinishReconcile
<1> QED
  BY <1>3, <1>4, <1>8, <1>9, <1>11, <1>12, <1>13, <1>14, <1>15, <1>16, <1>17, <1>18,
     <1>19, <1>21

LEMMA EnvironmentIsALifeStep ==
    ASSUME ControlInv, Environment
    PROVE  LifeStep
<1>1. CASE Tick
  <2>1. rows' = AgeRows(rows, AgeCap) /\ UNCHANGED desired
    BY <1>1 DEF Tick
  <2>2. \A k \in Keys : LifeOf(k)' = LifeOf(k)
    BY <2>1, AgeRowsEffect DEF LifeOf, ControlInv, TypeOK, Rows
  <2> QED
    BY <2>1, <2>2 DEF LifeStep
<1>2. CASE UNCHANGED <<desired, rows>>
  BY <1>2 DEF LifeStep, LifeOf
<1> QED
  BY <1>1, <1>2 DEF Environment, Crash, UserCreates, UserEdits, UserDeletes, BecomeQuiet

(* While SQLite works the table shows only what ManagedRecord allows:      *)
(* crashes between two writes, failed calls, lost replies and foreign      *)
(* edits never make it claim, abandon or drop a key against the labels.    *)
THEOREM LifecycleImplemented ==
    ASSUME "storage" \notin Faults
    PROVE  Spec => ImplementsLifecycle
<1>1. Init => Lifecycle!Init /\ CleanInv
  BY DEF Init, Lifecycle!Init, LifeOf, CleanInv
<1>2. CleanInv /\ [Next]_vars => CleanInv'
  BY CleanStep
<1>3. ControlInv /\ SettledInv /\ CleanInv /\ [Next]_vars => [Lifecycle!Next]_(Lifecycle!vars)
  <2> SUFFICES ASSUME ControlInv, SettledInv, CleanInv, [Next]_vars
               PROVE  [Lifecycle!Next]_(Lifecycle!vars)
    OBVIOUS
  <2>1. LifeStep
    <3>1. CASE Next
      BY <3>1, ReconcilingIsALifeStep, EnvironmentIsALifeStep DEF Next
    <3>2. CASE UNCHANGED vars
      BY <3>2 DEF vars, LifeStep, LifeOf
    <3> QED
      BY <3>1, <3>2
  <2>2. CASE UNCHANGED desired /\ \A k \in Keys : LifeOf(k)' = LifeOf(k)
    BY <2>2 DEF Lifecycle!vars
  <2> QED
    BY <2>1, <2>2 DEF LifeStep
<1> QED
  BY <1>1, <1>2, <1>3, ControlIsInvariant, SettledIsInvariant, PTL
  DEF Spec, ImplementsLifecycle, Lifecycle!Spec

----------------------------------------------------------------------------
(* The table and the zone, key by key, when calls may fail and replies may *)
(* be lost, or statements may fail, and nothing else goes wrong.  The keys *)
(* of which a refused deletion passed for done (mistaken) may have records *)
(* that no row tells of; the others are not disturbed by them.             *)

(* The records of key k in zone zn, and the row that tells the truth of    *)
(* one of them.                                                            *)
In(zn, k) == {id \in RecordIds : zn[id] # NoRecord /\ zn[id].key = k}
Truthful(k, row, zn) == row.cfid \in In(zn, k) /\ zn[row.cfid].content = row.content

(* What table and zone have in common while nobody is in the middle of k:  *)
(* one record at most, and none that the row would not lead to; and, while *)
(* SQLite works, an active row that tells the truth.                       *)
Kept(k, row, zn) ==
    IF row = NoRow THEN In(zn, k) = {}
    ELSE /\ row.cfid = NoId => \A i, j \in In(zn, k) : i = j
         /\ row.cfid # NoId =>
              /\ In(zn, k) \subseteq {row.cfid}
              /\ zn[row.cfid] # NoRecord => zn[row.cfid].key = k
         /\ "storage" \notin Faults /\ row.status = "active" => Truthful(k, row, zn)

(* Between a call that made or changed the record and its statement.       *)
HandInv ==
    cur \in Keys \ mistaken =>
        /\ pc \in {"created", "rollback", "pushed"} => In(zone, cur) = {curId}
        /\ pc = "created" => zone[curId].content = Resolve(desired[cur].target)
        /\ pc = "pushed" => /\ zone[curId].content = desired[cur].target
                            /\ rows[cur].cfid \in {NoId, curId}
        /\ "storage" \notin Faults /\ pc = "activate" => Truthful(cur, rows[cur], zone)
        /\ pc = "deleted" => In(zone, cur) = {}

InHand == {"created", "rollback", "pushed"}

KeptInv ==
    \A k \in Keys \ mistaken : (pc \in InHand /\ k = cur) \/ Kept(k, rows[k], zone)

(* Of every key, mistaken or not: what its row or the loop has the id of   *)
(* is no other key's record.                                               *)
Owns(k, row, zn) ==
    row # NoRow /\ row.cfid # NoId /\ zn[row.cfid] # NoRecord => zn[row.cfid].key = k

OwnInv ==
    /\ cur # NoKey => pc \in AtKey \cup {"deleted"}
    /\ pc = "expire" => todo = {}
    /\ pc \in InHand => curId \in In(zone, cur)
    /\ \A k \in Keys : Owns(k, rows[k], zone)

MirrorInv == OwnInv /\ HandInv /\ KeptInv

Zones == [RecordIds -> ZoneRecord \cup {NoRecord}]

(* A call about a record of k is not seen by the other keys.               *)
LEMMA KeptElsewhere ==
    ASSUME NEW zn \in Zones, NEW k \in Keys, NEW j \in Keys \ {k}, NEW id \in RecordIds,
           NEW record \in ZoneRecord \cup {NoRecord}, NEW row \in Row \cup {NoRow},
           Kept(j, row, zn),
           zn[id] # NoRecord => zn[id].key = k,
           record # NoRecord => record.key = k,
           record # NoRecord /\ row # NoRow => zn[id] # NoRecord \/ row.cfid # id
    PROVE  Kept(j, row, [zn EXCEPT ![id] = record])
<1> DEFINE zz == [zn EXCEPT ![id] = record]
<1> SUFFICES Kept(j, row, zz)
  OBVIOUS
<1>1. /\ \A i \in RecordIds \ {id} : zz[i] = zn[i]
      /\ zz[id] = record
  BY DEF Zones
<1>2. In(zz, j) = In(zn, j)
  BY <1>1 DEF In
<1>3. CASE row = NoRow
  BY <1>2, <1>3 DEF Kept
<1>4. CASE row # NoRow
  <2>1. row.cfid \in RecordIds \cup {NoId}
    BY <1>4 DEF Row
  <2>2. row.cfid # NoId => (zz[row.cfid] # NoRecord => zz[row.cfid].key = j)
    <3>1. CASE row.cfid = id
      BY <1>1, <1>4, <2>1, <3>1 DEF Kept
    <3>2. CASE row.cfid # id
      BY <1>1, <1>4, <2>1, <3>2 DEF Kept
    <3> QED
      BY <3>1, <3>2
  <2>3. "storage" \notin Faults /\ row.status = "active" => Truthful(j, row, zz)
    <3>1. ASSUME "storage" \notin Faults, row.status = "active"
          PROVE  row.cfid \in In(zn, j) /\ row.cfid # id
      BY <1>4, <3>1 DEF Kept, Truthful, In
    <3> QED
      BY <1>1, <1>2, <1>4, <3>1 DEF Kept, Truthful, In
  <2> HIDE DEF zz
  <2>4. row.cfid = NoId => \A i1, i2 \in In(zz, j) : i1 = i2
    BY <1>2, <1>4 DEF Kept
  <2>5. row.cfid # NoId => In(zz, j) \subseteq {row.cfid}
    BY <1>2, <1>4 DEF Kept
  <2> QED
    BY <1>4, <2>2, <2>3, <2>4, <2>5 DEF Kept
<1> QED
  BY <1>3, <1>4

(* What the calls do to the records of their own key.                      *)
LEMMA PublishedRecords ==
    ASSUME NEW zn \in Zones, NEW k \in Keys, NEW id \in RecordIds,
           NEW content \in Contents
    PROVE  /\ In([zn EXCEPT ![id] = [key |-> k, content |-> content]], k) = In(zn, k) \cup {id}
           /\ [zn EXCEPT ![id] = [key |-> k, content |-> content]][id].content = content
<1> DEFINE record == [key |-> k, content |-> content]
           zz == [zn EXCEPT ![id] = record]
<1>1. /\ \A i \in RecordIds \ {id} : zz[i] = zn[i]
      /\ zz[id] = record /\ record.key = k /\ record.content = content
  BY DEF Zones
<1>2. record # NoRecord
  BY ConstantsAreApart DEF ZoneRecord
<1> QED
  BY <1>1, <1>2 DEF In

LEMMA UnpublishedRecords ==
    ASSUME NEW zn \in Zones, NEW k \in Keys, NEW id \in RecordIds
    PROVE  /\ In([zn EXCEPT ![id] = NoRecord], k) = In(zn, k) \ {id}
           /\ [zn EXCEPT ![id] = NoRecord][id] = NoRecord
BY DEF Zones, In

(* A row that is written again with the same record.                       *)
LEMMA KeptRow ==
    ASSUME NEW zn \in Zones, NEW k \in Keys, NEW row \in Row, NEW new \in Row,
           Kept(k, row, zn), new.cfid = row.cfid,
           "storage" \notin Faults /\ new.status = "active" => Truthful(k, new, zn)
    PROVE  Kept(k, new, zn)
BY RowIsARecord DEF Kept

(* The fields that the statements write, and those they keep.              *)
LEMMA SavedRow ==
    ASSUME NEW k \in Keys, NEW table \in Rows, NEW row \in Row
    PROVE  /\ SaveResource(table, k, row)[k] \in Row
           /\ SaveResource(table, k, row)[k].cfid = row.cfid
           /\ SaveResource(table, k, row)[k].content = row.content
           /\ SaveResource(table, k, row)[k].status = row.status
<1>1. [row EXCEPT !.age = 0] \in Row
  BY ZeroIsAnAge DEF Row
<1> QED
  BY <1>1 DEF SaveResource, Rows, Row

LEMMA UpdatedRow ==
    ASSUME NEW k \in Keys, NEW table \in Rows, table[k] # NoRow, NEW status \in Statuses
    PROVE  /\ UpdateResourceStatus(table, k, status)[k] \in Row
           /\ UpdateResourceStatus(table, k, status)[k].cfid = table[k].cfid
           /\ UpdateResourceStatus(table, k, status)[k].content = table[k].content
           /\ UpdateResourceStatus(table, k, status)[k].status = status
<1> DEFINE row == [table[k] EXCEPT !.status = status]
<1>1. table[k] \in Row
  BY DEF Rows
<1>2. /\ row \in Row /\ row.status = status
      /\ row.cfid = table[k].cfid /\ row.content = table[k].content
  BY <1>1 DEF Row
<1>3. UpdateResourceStatus(table, k, status) = SaveResource(table, k, row)
  BY DEF UpdateResourceStatus
<1> HIDE DEF row
<1> QED
  BY <1>2, <1>3, SavedRow

LEMMA AgedRow ==
    ASSUME NEW k \in Keys, NEW table \in Rows, table[k] # NoRow
    PROVE  /\ AgeRows(table, AgeCap)[k] \in Row
           /\ AgeRows(table, AgeCap)[k].cfid = table[k].cfid
           /\ AgeRows(table, AgeCap)[k].content = table[k].content
           /\ AgeRows(table, AgeCap)[k].status = table[k].status
<1> DEFINE row == [table[k] EXCEPT !.age = NextAge(table[k].age, AgeCap)]
<1>1. table[k] \in Row /\ table[k].age \in Ages
  BY DEF Rows, Row
<1>2. /\ row \in Row /\ row.status = table[k].status
      /\ row.cfid = table[k].cfid /\ row.content = table[k].content
  BY <1>1, NextAgeType DEF Row
<1>3. AgeRows(table, AgeCap)[k] = row
  BY DEF AgeRows, Rows
<1> HIDE DEF row
<1> QED
  BY <1>2, <1>3

(* What a step may do to the zone in the name of key k.                    *)
ChangesRecordOf(k) ==
    \/ UNCHANGED zone
    \/ \E id \in RecordIds, record \in ZoneRecord \cup {NoRecord} :
          /\ zone' = [zone EXCEPT ![id] = record]
          /\ zone[id] # NoRecord => zone[id].key = k
          /\ record # NoRecord => record.key = k /\ (zone[id] # NoRecord \/ id \in FreshIds)

LEMMA VisitMirrors ==
    ASSUME TypeOK, KeptInv, NEW k \in Keys, cur \in {k, NoKey}, ChangesRecordOf(k),
           mistaken \subseteq mistaken',
           \A j \in Keys \ {k} : rows'[j] = rows[j],
           k \in mistaken' \/ (pc' \in InHand /\ k = cur') \/ Kept(k, rows'[k], zone')
    PROVE  KeptInv'
<1> USE DEF Rows, Zones
<1>1. ASSUME NEW j \in Keys \ ({k} \cup mistaken') PROVE Kept(j, rows'[j], zone')
  <2>1. j # cur
    BY <1>1, ConstantsAreApart
  <2>2. Kept(j, rows[j], zone) /\ rows'[j] = rows[j] /\ rows[j] \in Row \cup {NoRow}
    BY <1>1, <2>1 DEF KeptInv, InHand, TypeOK
  <2>3. CASE UNCHANGED zone
    BY <2>2, <2>3
  <2>4. ASSUME NEW id \in RecordIds, NEW record \in ZoneRecord \cup {NoRecord},
               zone' = [zone EXCEPT ![id] = record],
               zone[id] # NoRecord => zone[id].key = k,
               record # NoRecord => record.key = k /\ (zone[id] # NoRecord \/ id \in FreshIds)
        PROVE  Kept(j, rows'[j], zone')
    <3>1. record # NoRecord /\ rows[j] # NoRow => zone[id] # NoRecord \/ rows[j].cfid # id
      BY <2>4 DEF FreshIds
    <3> QED
      BY <2>2, <2>4, <3>1, KeptElsewhere DEF TypeOK
  <2> QED
    BY <2>3, <2>4 DEF ChangesRecordOf
<1> QED
  BY <1>1 DEF KeptInv, InHand

LEMMA RestMirrors ==
    ASSUME Rest
    PROVE  HandInv'
BY ConstantsAreApart DEF HandInv, Rest

(* The three kinds of calls, as changes of the zone.                       *)
LEMMA PublishChanges ==
    ASSUME TypeOK, NEW k \in Keys, NEW id \in RecordIds, NEW content \in Contents,
           Publish(id, k, content), id \in FreshIds \/ id \in In(zone, k)
    PROVE  /\ ChangesRecordOf(k)
           /\ In(zone', k) = In(zone, k) \cup {id}
           /\ zone'[id].content = content
<1> DEFINE record == [key |-> k, content |-> content]
<1>1. record \in ZoneRecord /\ record.key = k
  BY DEF ZoneRecord
<1>2. zone[id] # NoRecord => zone[id].key = k
  BY DEF FreshIds, In
<1>3. zone[id] # NoRecord \/ id \in FreshIds
  BY DEF FreshIds, In
<1>4. zone' = [zone EXCEPT ![id] = record]
  BY DEF Publish
<1>5. ChangesRecordOf(k)
  <2> HIDE DEF record
  <2> QED
    BY <1>1, <1>2, <1>3, <1>4 DEF ChangesRecordOf
<1>6. zone \in Zones
  BY DEF TypeOK, Zones
<1>7. /\ In([zone EXCEPT ![id] = record], k) = In(zone, k) \cup {id}
      /\ [zone EXCEPT ![id] = record][id].content = content
  BY <1>6, PublishedRecords
<1> HIDE DEF record
<1> QED
  BY <1>4, <1>5, <1>7

LEMMA UnpublishChanges ==
    ASSUME TypeOK, NEW k \in Keys, NEW id \in RecordIds, Unpublish(id),
           zone[id] # NoRecord => zone[id].key = k
    PROVE  /\ ChangesRecordOf(k)
           /\ In(zone', k) = In(zone, k) \ {id}
           /\ zone'[id] = NoRecord
BY UnpublishedRecords DEF Unpublish, TypeOK, Zones, ChangesRecordOf

(* Where there is no row there is no record, so that nothing is adopted.   *)
LEMMA CreatesAfresh ==
    ASSUME OwnInv, KeptInv, NEW k \in Keys \ mistaken, Creating(k)
    PROVE  /\ cur = NoKey
           /\ In(zone, k) = {}
           /\ \A content : ~AlreadyExists(k, content)
<1>1. cur = NoKey
  BY DEF OwnInv, Creating, AtKey
<1>2. In(zone, k) = {}
  BY DEF KeptInv, InHand, Creating, Kept
<1> QED
  BY <1>1, <1>2 DEF AlreadyExists, RecordsOf, In

LEMMA PushesItsOwn ==
    ASSUME TypeOK, KeptInv, pc = "update", cur \in Keys \ mistaken, rows[cur] # NoRow,
           NEW id \in PushableIds(cur)
    PROVE  id \in RecordIds /\ In(zone, cur) = {id}
<1>1. Kept(cur, rows[cur], zone) /\ rows[cur].cfid \in RecordIds \cup {NoId}
  BY DEF KeptInv, InHand, TypeOK, Row
<1> QED
  BY <1>1 DEF Kept, PushableIds, RecordsOf, In

(* What the two theorems below suppose of the constants.                   *)
OneSideFails ==
    /\ \/ Faults \subseteq {"api", "lost", "text404"}
       \/ Faults \subseteq {"storage", "text404"}
    /\ OrphanTTL = 0

(* One visit of a loop to a key, and the steps between two loops.          *)
VisitStep(k) ==
    \/ CreateRecord(k) \/ CreateFails(k) \/ TakeAgent(k) \/ MarkOrphaned(k)
    \/ DeleteRecord(k) \/ DeleteFails(k)
    \/ /\ k = cur
       /\ \/ SaveCreated \/ SaveCreatedFails \/ PatchAgent \/ Rollback
          \/ KeepRecord \/ PushRecord \/ PushFails
          \/ SavePushed \/ SavePushedFails \/ Activate \/ DeleteRow

LoopStep ==
    \/ \E view \in Views : StartReconcile(view)
    \/ ListForCleanup \/ ListExpired \/ FinishReconcile

LEMMA ReconcilingIsVisits ==
    ASSUME ControlInv, OwnInv, Reconciling
    PROVE  LoopStep \/ \E k \in Keys : VisitStep(k)
<1>1. ~(\E k \in Keys : ExpireRow(k))
  BY DEF OwnInv, ExpireRow
<1>2. pc \in AtKey \cup {"deleted"} => cur \in Keys
  BY DEF ControlInv, TypeOK, PhaseInv
<1>3. CASE LoopStep
  BY <1>3
<1>4. ASSUME NEW k \in Keys,
             \/ CreateRecord(k) \/ CreateFails(k) \/ TakeAgent(k) \/ MarkOrphaned(k)
             \/ DeleteRecord(k) \/ DeleteFails(k)
      PROVE  \E j \in Keys : VisitStep(j)
  BY <1>4 DEF VisitStep
<1>5. CASE \/ SaveCreated \/ SaveCreatedFails \/ PatchAgent \/ Rollback
           \/ KeepRecord \/ PushRecord \/ PushFails
           \/ SavePushed \/ SavePushedFails \/ Activate \/ DeleteRow
  <2>1. cur \in Keys
    BY <1>2, <1>5
    DEF AtKey, SaveCreated, SaveCreatedFails, PatchAgent, Rollback, KeepRecord, PushRecord,
        PushFails, SavePushed, SavePushedFails, Activate, DeleteRow
  <2>2. VisitStep(cur)
    BY <1>5 DEF VisitStep
  <2> QED
    BY <2>1, <2>2
<1> QED
  BY <1>1, <1>3, <1>4, <1>5 DEF Reconciling, LoopStep

(* All that a visit to k does is to k: to its row, its records, and what   *)
(* is known of it.                                                         *)
ActsOn(k) ==
    /\ cur \in {k, NoKey} /\ cur' \in {k, NoKey}
    /\ cur' # NoKey => pc' \in AtKey \cup {"deleted"}
    /\ pc' # "expire"
    /\ ChangesRecordOf(k)
    /\ mistaken \subseteq mistaken'
    /\ \A j \in Keys \ {k} : rows'[j] = rows[j]
    /\ rows'[k] # NoRow =>
          \/ rows'[k].cfid = NoId
          \/ rows[k] # NoRow /\ rows'[k].cfid = rows[k].cfid
          \/ pc \in InHand /\ cur = k /\ rows'[k].cfid = curId
    /\ pc' \in InHand => cur' = k /\ curId' \in In(zone', k)

LEMMA StoreDone ==
    ASSUME NEW table, Store(table)
    PROVE  rows' = table \/ ("storage" \in Faults /\ rows' = rows)
BY DEF Store, May

(* Writing one row, or not, leaves the others.                             *)
LEMMA SavedElsewhere ==
    ASSUME TypeOK, NEW k \in Keys, NEW row \in Row,
           rows' \in {rows, SaveResource(rows, k, row)}
    PROVE  /\ \A j \in Keys \ {k} : rows'[j] = rows[j]
           /\ rows'[k] = rows[k] \/ rows'[k].cfid = row.cfid
<1>1. CASE rows' = SaveResource(rows, k, row)
  BY <1>1, SavedRow, SaveResourceEffect DEF TypeOK, Rows
<1> QED
  BY <1>1

LEMMA UpdatedElsewhere ==
    ASSUME TypeOK, NEW k \in Keys, rows[k] # NoRow, NEW status \in Statuses,
           rows' \in {rows, UpdateResourceStatus(rows, k, status)}
    PROVE  /\ \A j \in Keys \ {k} : rows'[j] = rows[j]
           /\ rows'[k].cfid = rows[k].cfid
<1>1. CASE rows' = UpdateResourceStatus(rows, k, status)
  BY <1>1, UpdatedRow, UpdateResourceStatusEffect DEF TypeOK, Rows
<1> QED
  BY <1>1

LEMMA VisitActs ==
    ASSUME ControlInv, OwnInv, NEW k \in Keys, VisitStep(k)
    PROVE  ActsOn(k)
<1>1. TypeOK /\ PhaseInv /\ PassInv /\ CleanupInv
  BY DEF ControlInv
<1>2. cur = NoKey \/ pc \in AtKey \cup {"deleted"}
  BY DEF OwnInv
<1>3. cur = k => k # NoKey
  BY ConstantsAreApart
(* A call about a record that is the key's own, or new.                    *)
<1>4. ASSUME NEW id \in RecordIds, NEW content \in Contents, Publish(id, k, content),
             id \in FreshIds \/ id \in In(zone, k)
      PROVE  ChangesRecordOf(k) /\ id \in In(zone', k)
  BY <1>1, <1>4, PublishChanges
<1>5. ASSUME NEW id \in RecordIds, Unpublish(id), zone[id] # NoRecord => zone[id].key = k
      PROVE  ChangesRecordOf(k)
  BY <1>1, <1>5, UnpublishChanges
<1>6. UNCHANGED zone => ChangesRecordOf(k)
  BY DEF ChangesRecordOf
<1>7. Wanted(k) => Resolve(desired[k].target) \in Contents
  BY <1>1, ResolveType DEF Wanted, TypeOK, Views, Specs
<1>8. rows[k] # NoRow => /\ rows[k] \in Row /\ rows[k].cfid \in RecordIds \cup {NoId}
                         /\ Owns(k, rows[k], zone)
  BY <1>1 DEF TypeOK, Row, OwnInv
<1>9. ASSUME cur = k, pc = "update", rows[k] # NoRow, NEW id \in PushableIds(k)
      PROVE  id \in In(zone, k) /\ id \in RecordIds
  BY <1>8, <1>9 DEF PushableIds, RecordsOf, In, Owns
<1>10. ASSUME CreateRecord(k) PROVE ActsOn(k)
  <2> DEFINE content == Resolve(desired[k].target)
  <2>1. cur = NoKey /\ content \in Contents
    BY <1>2, <1>7, <1>10 DEF CreateRecord, Creating, AtKey
  <2>2. ChangesRecordOf(k) /\ curId' \in In(zone', k)
    <3>1. CASE AlreadyExists(k, content)
      BY <1>6, <1>10, <3>1 DEF CreateRecord, RecordsOf, In
    <3>2. CASE ~AlreadyExists(k, content)
      <4>1. PICK id \in FreshIds : curId' = id /\ Publish(id, k, content)
        BY <1>10, <3>2 DEF CreateRecord
      <4> HIDE DEF content
      <4> QED
        BY <1>4, <2>1, <4>1 DEF FreshIds
    <3> QED
      BY <3>1, <3>2
  <2> QED
    BY <1>10, <2>1, <2>2 DEF CreateRecord, Creating, ActsOn, AtKey, InHand
<1>11. ASSUME CreateFails(k) PROVE ActsOn(k)
  <2> DEFINE content == Resolve(desired[k].target)
  <2>1. cur = NoKey /\ content \in Contents /\ Wanted(k)
    BY <1>2, <1>7, <1>11 DEF CreateFails, Creating, AtKey
  <2>2. ChangesRecordOf(k)
    <3>1. CASE UNCHANGED zone
      BY <1>6, <3>1
    <3>2. ASSUME NEW id \in FreshIds, Publish(id, k, content) PROVE ChangesRecordOf(k)
      <4> HIDE DEF content
      <4> QED
        BY <1>4, <2>1, <3>2 DEF FreshIds
    <3> QED
      BY <1>11, <3>1, <3>2 DEF CreateFails
  <2>3. ErrorRow(k) \in Row /\ ErrorRow(k).cfid = NoId
    BY <1>1, <2>1, ErrorRowType DEF ErrorRow
  <2>4. rows' \in {rows, SaveResource(rows, k, ErrorRow(k))}
    BY <1>11, StoreDone DEF CreateFails
  <2>5. /\ \A j \in Keys \ {k} : rows'[j] = rows[j]
        /\ rows'[k] = rows[k] \/ rows'[k].cfid = NoId
    BY <1>1, <2>3, <2>4, SavedElsewhere
  <2>6. rows[k] = NoRow /\ pc' = "dns" /\ cur' = NoKey /\ UNCHANGED mistaken
    BY <1>11 DEF CreateFails, Creating, Done, Rest
  <2> QED
    BY <2>1, <2>2, <2>5, <2>6 DEF ActsOn, InHand
<1>12. ASSUME TakeAgent(k) PROVE ActsOn(k)
  <2>1. cur = NoKey /\ cur' = k /\ pc' = "update" /\ UNCHANGED <<zone, mistaken>>
    BY <1>2, <1>12 DEF TakeAgent, AtKey
  <2> DEFINE row == [rows[k] EXCEPT !.agent = desired[k].agent]
  <2>2. row \in Row /\ row.cfid = rows[k].cfid
    BY <1>1, <1>8, <1>12, PatchedRowTypes DEF Row, TakeAgent
  <2>3. rows' \in {rows, SaveResource(rows, k, row)}
    BY <1>12, StoreDone DEF TakeAgent
  <2> HIDE DEF row
  <2>4. /\ \A j \in Keys \ {k} : rows'[j] = rows[j]
        /\ rows'[k] = rows[k] \/ rows'[k].cfid = rows[k].cfid
    BY <1>1, <2>2, <2>3, SavedElsewhere
  <2> QED
    BY <1>6, <1>12, <2>1, <2>4 DEF TakeAgent, ActsOn, AtKey, InHand
<1>13. ASSUME MarkOrphaned(k) PROVE ActsOn(k)
  <2>1. /\ cur = NoKey /\ rows[k] # NoRow /\ pc' = "dns" /\ cur' = NoKey
        /\ UNCHANGED <<zone, mistaken>>
        /\ rows' \in {rows, UpdateResourceStatus(rows, k, "orphaned")}
    BY <1>1, <1>2, <1>13, StoreDone DEF MarkOrphaned, PassInv, InPass, AtKey, Done, Rest
  <2>2. /\ \A j \in Keys \ {k} : rows'[j] = rows[j]
        /\ rows'[k].cfid = rows[k].cfid
    BY <1>1, <2>1, UpdatedElsewhere DEF Statuses
  <2> QED
    BY <1>6, <2>1, <2>2 DEF ActsOn, InHand
<1>14. ASSUME DeleteRecord(k) \/ DeleteFails(k) PROVE ActsOn(k)
  <2>1. /\ cur = NoKey /\ cur' \in {k, NoKey} /\ rows' = rows /\ rows[k] # NoRow
        /\ mistaken \subseteq mistaken' /\ pc' \in {"deleted", "cleanup"}
        /\ cur' # NoKey => pc' = "deleted"
    BY <1>1, <1>2, <1>14
    DEF DeleteRecord, DeleteFails, CleanupInv, HasStatus, AtKey, Done, Rest
  <2>2. ChangesRecordOf(k)
    <3>1. CASE UNCHANGED zone
      BY <1>6, <3>1
    <3>2. CASE rows[k].cfid # NoId /\ Unpublish(rows[k].cfid)
      BY <1>5, <1>8, <2>1, <3>2 DEF Owns
    <3> QED
      BY <1>14, <3>1, <3>2 DEF DeleteRecord, DeleteFails
  <2> QED
    BY <2>1, <2>2 DEF ActsOn, InHand
<1>15. ASSUME k = cur, SaveCreated PROVE ActsOn(k)
  <2>1. CreatedRow(k) \in Row /\ CreatedRow(k).cfid = curId
    BY <1>1, <1>15, CreatedRowType DEF SaveCreated, CreatedRow, PhaseInv, AtKey, TypeOK
  <2>2. /\ \A j \in Keys \ {k} : rows'[j] = rows[j]
        /\ rows'[k] = rows[k] \/ rows'[k].cfid = curId
    BY <1>1, <1>15, <2>1, SavedElsewhere DEF SaveCreated
  <2>3. rows[k] = NoRow /\ pc = "created"
    BY <1>1, <1>15 DEF SaveCreated, PhaseInv
  <2>4. /\ UNCHANGED <<zone, mistaken>> /\ pc' \in {"dns", "patch"} /\ cur' \in {k, NoKey}
        /\ cur' # NoKey => pc' = "patch"
    BY <1>15 DEF SaveCreated, Done, Rest
  <2> QED
    BY <1>6, <1>15, <2>2, <2>3, <2>4 DEF ActsOn, AtKey, InHand
<1>16. ASSUME k = cur, PatchAgent PROVE ActsOn(k)
  <2>1. Wanted(k) /\ rows[k] # NoRow /\ rows[k] \in Row
    BY <1>1, <1>8, <1>16 DEF PatchAgent, PhaseInv, AtKey
  <2> DEFINE row == [rows[k] EXCEPT !.agent = desired[k].agent]
  <2>2. row \in Row /\ row.cfid = rows[k].cfid
    BY <1>1, <2>1, PatchedRowTypes DEF Row
  <2>3. rows' \in {rows, SaveResource(rows, k, row)}
    BY <1>16, StoreDone DEF PatchAgent
  <2> HIDE DEF row
  <2>4. /\ \A j \in Keys \ {k} : rows'[j] = rows[j]
        /\ rows'[k] = rows[k] \/ rows'[k].cfid = rows[k].cfid
    BY <1>1, <2>2, <2>3, SavedElsewhere
  <2> QED
    BY <1>6, <1>16, <2>1, <2>4 DEF PatchAgent, Done, Rest, ActsOn, InHand
<1>17. ASSUME k = cur, SaveCreatedFails PROVE ActsOn(k)
  <2>1. curId \in In(zone, k)
    BY <1>17 DEF SaveCreatedFails, OwnInv, InHand
  <2> QED
    BY <1>6, <1>17, <2>1 DEF SaveCreatedFails, ActsOn, AtKey, InHand
<1>18. ASSUME k = cur, Rollback PROVE ActsOn(k)
  <2>1. /\ curId \in In(zone, k) /\ curId \in RecordIds /\ Wanted(k)
        /\ rows[k] = NoRow
    BY <1>1, <1>18 DEF Rollback, OwnInv, InHand, PhaseInv, AtKey
  <2>2. ChangesRecordOf(k)
    BY <1>5, <1>6, <1>18, <2>1 DEF Rollback, In
  <2>3. ErrorRow(k) \in Row /\ ErrorRow(k).cfid = NoId
    BY <1>1, <2>1, ErrorRowType DEF ErrorRow
  <2>4. rows' \in {rows, SaveResource(rows, k, ErrorRow(k))}
    BY <1>18, StoreDone DEF Rollback
  <2>5. /\ \A j \in Keys \ {k} : rows'[j] = rows[j]
        /\ rows'[k] = rows[k] \/ rows'[k].cfid = NoId
    BY <1>1, <2>3, <2>4, SavedElsewhere
  <2> QED
    BY <1>18, <2>1, <2>2, <2>5 DEF Rollback, Done, Rest, ActsOn, InHand
<1>19. ASSUME k = cur, KeepRecord PROVE ActsOn(k)
  <2>1. rows[k] # NoRow
    BY <1>1, <1>19 DEF KeepRecord, PhaseInv
  <2> QED
    BY <1>6, <1>19, <2>1 DEF KeepRecord, Done, Rest, ActsOn, InHand
<1>20. ASSUME k = cur, PushRecord PROVE ActsOn(k)
  <2>1. rows[k] # NoRow
    BY <1>1, <1>20 DEF PushRecord, PhaseInv
  <2>2. PICK id \in PushableIds(k) : Publish(id, k, desired[k].target) /\ curId' = id
    BY <1>20 DEF PushRecord
  <2>3. id \in In(zone, k) /\ id \in RecordIds /\ desired[k].target \in Contents
    BY <1>9, <1>20, <2>1 DEF PushRecord, Acceptable
  <2>4. ChangesRecordOf(k) /\ id \in In(zone', k)
    BY <1>4, <2>2, <2>3
  <2> QED
    BY <1>20, <2>1, <2>2, <2>4 DEF PushRecord, ActsOn, AtKey, InHand
<1>21. ASSUME k = cur, PushFails PROVE ActsOn(k)
  <2>1. rows[k] # NoRow
    BY <1>1, <1>21 DEF PushFails, PhaseInv
  <2>2. ChangesRecordOf(k)
    <3>1. CASE UNCHANGED zone
      BY <1>6, <3>1
    <3>2. ASSUME NEW id \in PushableIds(k), Acceptable(desired[k].target),
                 Publish(id, k, desired[k].target)
          PROVE  ChangesRecordOf(k)
      BY <1>4, <1>9, <1>21, <2>1, <3>2 DEF PushFails, Acceptable
    <3> QED
      BY <1>21, <3>1, <3>2 DEF PushFails
  <2>3. rows' \in {rows, UpdateResourceStatus(rows, k, "error")}
    BY <1>21, StoreDone DEF PushFails, UpdateResourceError
  <2>4. /\ \A j \in Keys \ {k} : rows'[j] = rows[j]
        /\ rows'[k].cfid = rows[k].cfid
    BY <1>1, <2>1, <2>3, UpdatedElsewhere DEF Statuses
  <2> QED
    BY <1>21, <2>1, <2>2, <2>4 DEF PushFails, Done, Rest, ActsOn, InHand
<1>22. ASSUME k = cur, SavePushed PROVE ActsOn(k)
  <2>1. PushedRow(k) \in Row /\ PushedRow(k).cfid = curId
    BY <1>1, <1>8, <1>22, PatchedRowTypes
    DEF SavePushed, PushedRow, PhaseInv, AtKey, TypeOK, Row
  <2>2. /\ \A j \in Keys \ {k} : rows'[j] = rows[j]
        /\ rows'[k] = rows[k] \/ rows'[k].cfid = curId
    BY <1>1, <1>22, <2>1, SavedElsewhere DEF SavePushed
  <2>3. rows[k] # NoRow /\ pc = "pushed"
    BY <1>1, <1>22 DEF SavePushed, PhaseInv
  <2>4. /\ UNCHANGED <<zone, mistaken>> /\ pc' \in {"dns", "activate"} /\ cur' \in {k, NoKey}
        /\ cur' # NoKey => pc' = "activate"
    BY <1>22 DEF SavePushed, Done, Rest
  <2> QED
    BY <1>6, <1>22, <2>2, <2>3, <2>4 DEF ActsOn, AtKey, InHand
<1>23. ASSUME k = cur, SavePushedFails \/ Activate PROVE ActsOn(k)
  <2>1. rows[k] # NoRow
    BY <1>1, <1>23 DEF SavePushedFails, Activate, PhaseInv
  <2>2. \E status \in {"error", "active"} : rows' \in {rows, UpdateResourceStatus(rows, k, status)}
    BY <1>23, StoreDone DEF SavePushedFails, Activate, UpdateResourceError
  <2>3. /\ \A j \in Keys \ {k} : rows'[j] = rows[j]
        /\ rows'[k].cfid = rows[k].cfid
    BY <1>1, <2>1, <2>2, UpdatedElsewhere DEF Statuses
  <2> QED
    BY <1>6, <1>23, <2>1, <2>3 DEF SavePushedFails, Activate, Done, Rest, ActsOn, InHand
<1>24. ASSUME k = cur, DeleteRow PROVE ActsOn(k)
  <2>1. rows' \in {rows, DeleteResource(rows, k)}
    BY <1>24, StoreDone DEF DeleteRow
  <2>2. /\ \A j \in Keys \ {k} : rows'[j] = rows[j]
        /\ rows'[k] \in {rows[k], NoRow}
    BY <1>1, <2>1 DEF DeleteResource, TypeOK
  <2> QED
    BY <1>6, <1>24, <2>2 DEF DeleteRow, Done, Rest, ActsOn, InHand
<1> QED
  BY <1>10, <1>11, <1>12, <1>13, <1>14, <1>15, <1>16, <1>17, <1>18, <1>19, <1>20, <1>21,
     <1>22, <1>23, <1>24 DEF VisitStep

(* Ownership survives a visit.                                             *)
LEMMA VisitOwns ==
    ASSUME TypeOK, OwnInv, NEW k \in Keys, ActsOn(k), TypeOK'
    PROVE  OwnInv'
<1>1. ASSUME NEW id \in RecordIds, NEW j \in Keys, zone[id] # NoRecord => zone[id].key = j,
             j = k \/ (rows[j] # NoRow /\ rows[j].cfid = id),
             zone'[id] # NoRecord
      PROVE  zone'[id].key = j
  <2>1. CASE UNCHANGED zone
    BY <1>1, <2>1
  <2>2. ASSUME NEW other \in RecordIds, NEW record \in ZoneRecord \cup {NoRecord},
               zone' = [zone EXCEPT ![other] = record],
               zone[other] # NoRecord => zone[other].key = k,
               record # NoRecord => record.key = k /\ (zone[other] # NoRecord \/ other \in FreshIds)
        PROVE  zone'[id].key = j
    <3>1. CASE other # id
      BY <1>1, <2>2, <3>1 DEF TypeOK
    <3>2. CASE other = id
      <4>1. zone'[id] = record
        BY <2>2, <3>2 DEF TypeOK
      <4>2. record.key = k /\ (zone[id] # NoRecord \/ id \in FreshIds)
        BY <1>1, <2>2, <3>2, <4>1
      <4>3. j = k
        BY <1>1, <2>2, <3>2, <4>2 DEF FreshIds
      <4> QED
        BY <4>1, <4>2, <4>3
    <3> QED
      BY <3>1, <3>2
  <2> QED
    BY <2>1, <2>2 DEF ActsOn, ChangesRecordOf
<1>2. ASSUME NEW j \in Keys, rows'[j] # NoRow, rows'[j].cfid # NoId,
             zone'[rows'[j].cfid] # NoRecord
      PROVE  zone'[rows'[j].cfid].key = j
  <2>1. rows'[j].cfid \in RecordIds
    BY <1>2 DEF TypeOK, Row
  <2>2. CASE j # k
    <3>1. rows'[j] = rows[j]
      BY <2>2 DEF ActsOn
    <3>2. zone[rows[j].cfid] # NoRecord => zone[rows[j].cfid].key = j
      BY <1>2, <3>1 DEF OwnInv, Owns
    <3> QED
      BY <1>1, <1>2, <2>1, <3>1, <3>2
  <2>3. CASE j = k
    <3>1. zone[rows'[k].cfid] # NoRecord => zone[rows'[k].cfid].key = k
      BY <1>2, <2>3 DEF ActsOn, OwnInv, Owns, In
    <3> QED
      BY <1>1, <1>2, <2>1, <2>3, <3>1
  <2> QED
    BY <2>2, <2>3
<1> QED
  BY <1>2 DEF ActsOn, OwnInv, Owns

(* What a visit owes the key it is about, when no refused deletion of it   *)
(* ever passed for done.                                                   *)
Held(k) == k \in mistaken' \/ (pc' \in InHand /\ k = cur') \/ Kept(k, rows'[k], zone')

(* And pays it.                                                            *)
LEMMA VisitKeeps ==
    ASSUME OneSideFails, ControlInv, OwnInv, HandInv, KeptInv,
           NEW k \in Keys \ mistaken, VisitStep(k)
    PROVE  HandInv' /\ Held(k)
<1> USE DEF Rows, Zones
<1>1. TypeOK /\ PhaseInv /\ PassInv /\ CleanupInv /\ OwnInv /\ HandInv /\ KeptInv
  BY DEF ControlInv
<1>a. May("api") \/ May("lost") => "storage" \notin Faults
  BY DEF OneSideFails, May
<1>c. cur = NoKey \/ pc \in AtKey \cup {"deleted"}
  BY DEF OwnInv
<1>3. ASSUME CreateRecord(k) PROVE HandInv' /\ Held(k)
  <2> DEFINE content == Resolve(desired[k].target)
  <2>1. /\ cur = NoKey /\ In(zone, k) = {}
        /\ ~AlreadyExists(k, content)
    BY <1>1, <1>3, CreatesAfresh DEF CreateRecord
  <2>2. PICK id \in FreshIds : curId' = id /\ Publish(id, k, content)
    BY <1>3, <2>1 DEF CreateRecord
  <2>3. content \in Contents
    BY <1>1, <1>3, ResolveType DEF CreateRecord, Creating, Wanted, TypeOK, Views, Specs
  <2>4. In(zone', k) = {id} /\ zone'[id].content = content
    <3>1. id \in RecordIds
      BY DEF FreshIds
    <3> HIDE DEF content
    <3>2. /\ In(zone', k) = In(zone, k) \cup {id}
          /\ zone'[id].content = content
      BY <1>1, <2>2, <2>3, <3>1, PublishChanges
    <3> QED
      BY <2>1, <3>2
  <2>5. HandInv'
    BY <1>3, <2>2, <2>4 DEF CreateRecord, HandInv, AtKey, Resolve
  <2> QED
    BY <1>1, <1>3, <2>1, <2>4, <2>5 DEF Held, CreateRecord, InHand
<1>4. ASSUME CreateFails(k) PROVE HandInv' /\ Held(k)
  <2> DEFINE content == Resolve(desired[k].target)
  <2>1. cur = NoKey /\ In(zone, k) = {}
    BY <1>1, <1>4, CreatesAfresh DEF CreateFails
  <2>2. content \in Contents /\ Wanted(k)
    BY <1>1, <1>4, ResolveType DEF CreateFails, Creating, Wanted, TypeOK, Views, Specs
  <2>3. \A i, j \in In(zone', k) : i = j
    <3>1. CASE UNCHANGED zone
      BY <2>1, <3>1
    <3>2. ASSUME NEW id \in FreshIds, Publish(id, k, content)
          PROVE  In(zone', k) = {id}
      <4>1. id \in RecordIds
        BY DEF FreshIds
      <4> HIDE DEF content
      <4>2. /\ In(zone', k) = In(zone, k) \cup {id}
        BY <1>1, <2>2, <3>2, <4>1, PublishChanges
      <4> QED
        BY <2>1, <4>2
    <3> QED
      BY <1>4, <3>1, <3>2 DEF CreateFails
  <2>4. /\ rows'[k] \in Row /\ rows'[k].cfid = NoId /\ rows'[k].status = "error"
        /\ \A j \in Keys \ {k} : rows'[j] = rows[j]
    <3>1. rows' = SaveResource(rows, k, ErrorRow(k))
      BY <1>4, <1>a, StoreDone DEF CreateFails
    <3>2. /\ ErrorRow(k) \in Row /\ ErrorRow(k).cfid = NoId
          /\ ErrorRow(k).status = "error"
      BY <1>1, <2>2, ErrorRowType DEF ErrorRow
    <3> QED
      BY <1>1, <3>1, <3>2, SavedRow, SaveResourceEffect DEF TypeOK
  <2>5. Kept(k, rows'[k], zone')
    BY <2>3, <2>4, RowIsARecord DEF Kept
  <2>6. HandInv'
    BY <1>4, RestMirrors DEF CreateFails, Creating, Done
  <2> QED
    BY <1>1, <2>1, <2>3, <2>4, <2>5, <2>6 DEF Held
<1>5. ASSUME k = cur, SaveCreated PROVE HandInv' /\ Held(k)
  <2>1. cur \in Keys /\ Wanted(cur) /\ CreatedRow(cur) \in Row /\ curId \in RecordIds
    BY <1>1, <1>5, CreatedRowType DEF SaveCreated, PhaseInv, AtKey, TypeOK
  <2>2. /\ In(zone, cur) = {curId} /\ zone' = zone
        /\ zone[curId].content = Resolve(desired[cur].target)
    BY <1>1, <1>5 DEF HandInv, SaveCreated
  <2>3. /\ rows'[cur] \in Row /\ rows'[cur].cfid = curId
        /\ rows'[cur].content = zone[curId].content
        /\ \A j \in Keys \ {cur} : rows'[j] = rows[j]
    <3>1. /\ CreatedRow(cur).cfid = curId
          /\ CreatedRow(cur).content = Resolve(desired[cur].target)
      BY DEF CreatedRow
    <3> QED
      BY <1>1, <1>5, <2>1, <2>2, <3>1, SavedRow, SaveResourceEffect DEF TypeOK, SaveCreated
  <2>4. Kept(cur, rows'[cur], zone')
    BY <2>1, <2>2, <2>3, RowIsARecord, ConstantsAreApart DEF Kept, Truthful, In
  <2>5. HandInv'
    <3>1. CASE desired[cur].agent = LocalAgent
      BY <1>5, <3>1, RestMirrors DEF SaveCreated, Done
    <3>2. CASE desired[cur].agent # LocalAgent
      BY <1>5, <3>2 DEF SaveCreated, HandInv, AtKey
    <3> QED
      BY <3>1, <3>2
  <2> QED
    BY <1>1, <1>5, <2>1, <2>2, <2>3, <2>4, <2>5 DEF Held
<1>6. ASSUME k = cur, PatchAgent PROVE HandInv' /\ Held(k)
  <2>1. cur \in Keys /\ Wanted(cur) /\ rows[cur] # NoRow /\ rows[cur] \in Row
    BY <1>1, <1>6 DEF PatchAgent, PhaseInv, AtKey, TypeOK
  <2> DEFINE row == [rows[cur] EXCEPT !.agent = desired[cur].agent]
  <2>2. /\ row \in Row /\ row.cfid = rows[cur].cfid /\ row.content = rows[cur].content
        /\ row.status = rows[cur].status
    BY <1>1, <2>1, PatchedRowTypes DEF Row
  <2>3. rows' \in {rows, SaveResource(rows, cur, row)} /\ zone' = zone
    BY <1>6, StoreDone DEF PatchAgent
  <2> HIDE DEF row
  <2>4. /\ rows'[cur] \in Row /\ rows'[cur].cfid = rows[cur].cfid
        /\ rows'[cur].content = rows[cur].content /\ rows'[cur].status = rows[cur].status
        /\ \A j \in Keys \ {cur} : rows'[j] = rows[j]
    <3>1. CASE rows' = rows
      BY <2>1, <3>1
    <3>2. CASE rows' = SaveResource(rows, cur, row)
      BY <1>1, <2>1, <2>2, <3>2, SavedRow, SaveResourceEffect DEF TypeOK
    <3> QED
      BY <2>3, <3>1, <3>2
  <2>5. Kept(cur, rows[cur], zone)
    BY <1>1, <1>6, <2>1 DEF KeptInv, PatchAgent, InHand
  <2>6. Kept(cur, rows'[cur], zone')
    BY <1>1, <2>1, <2>3, <2>4, <2>5, KeptRow DEF TypeOK, Kept, Truthful
  <2>7. HandInv'
    BY <1>6, RestMirrors DEF PatchAgent, Done
  <2> QED
    BY <1>1, <1>6, <2>1, <2>3, <2>4, <2>6, <2>7 DEF Held
<1>7. ASSUME k = cur, SaveCreatedFails PROVE HandInv' /\ Held(k)
  BY <1>1, <1>7 DEF SaveCreatedFails, HandInv, InHand, Held
<1>8. ASSUME k = cur, Rollback PROVE HandInv' /\ Held(k)
  <2>1. /\ cur \in Keys /\ Wanted(cur) /\ curId \in RecordIds /\ rows[cur] = NoRow
        /\ In(zone, cur) = {curId}
    BY <1>1, <1>8 DEF Rollback, PhaseInv, AtKey, TypeOK, HandInv
  <2>2. /\ In(zone', cur) \subseteq {curId}
        /\ Unpublish(curId) => In(zone', cur) = {}
    <3>1. CASE Unpublish(curId)
      <4>1. zone[curId] # NoRecord => zone[curId].key = cur
        BY <2>1 DEF In
      <4>2. In(zone', cur) = In(zone, cur) \ {curId}
        BY <1>1, <2>1, <3>1, <4>1, UnpublishChanges
      <4> QED
        BY <2>1, <4>2
    <3>2. CASE UNCHANGED zone /\ ~Unpublish(curId)
      BY <2>1, <3>2
    <3> QED
      BY <1>8, <3>1, <3>2 DEF Rollback
  <2>3. /\ ErrorRow(cur) \in Row /\ ErrorRow(cur).cfid = NoId
        /\ ErrorRow(cur).status = "error"
    BY <1>1, <2>1, ErrorRowType DEF ErrorRow
  <2>4. /\ Kept(cur, rows'[cur], zone')
        /\ \A j \in Keys \ {cur} : rows'[j] = rows[j]
    <3>1. CASE rows' = SaveResource(rows, cur, ErrorRow(cur))
      <4>1. /\ rows'[cur] \in Row /\ rows'[cur].cfid = NoId
            /\ rows'[cur].status = "error"
            /\ \A j \in Keys \ {cur} : rows'[j] = rows[j]
        BY <1>1, <2>1, <2>3, <3>1, SavedRow, SaveResourceEffect DEF TypeOK
      <4> QED
        BY <2>2, <4>1, RowIsARecord DEF Kept
    <3>2. CASE "storage" \in Faults /\ rows' = rows
      <4>1. Unpublish(curId)
        BY <1>8, <1>a, <3>2 DEF Rollback
      <4> QED
        BY <2>1, <2>2, <3>2, <4>1 DEF Kept
    <3> QED
      BY <1>8, <3>1, <3>2, StoreDone DEF Rollback
  <2>5. HandInv'
    BY <1>8, RestMirrors DEF Rollback, Done
  <2> QED
    BY <1>1, <1>8, <2>1, <2>2, <2>4, <2>5 DEF Held
<1>9. ASSUME TakeAgent(k) PROVE HandInv' /\ Held(k)
  <2>1. /\ cur = NoKey /\ Wanted(k) /\ rows[k] # NoRow /\ rows[k] \in Row
        /\ zone' = zone /\ Kept(k, rows[k], zone)
    BY <1>1, <1>9, <1>c DEF TakeAgent, TypeOK, AtKey, KeptInv, InHand
  <2> DEFINE row == [rows[k] EXCEPT !.agent = desired[k].agent]
  <2>2. /\ row \in Row /\ row.cfid = rows[k].cfid /\ row.content = rows[k].content
        /\ row.status = rows[k].status
    BY <1>1, <2>1, PatchedRowTypes DEF Row
  <2>3. rows' = rows \/ rows' = SaveResource(rows, k, row)
    BY <1>9, StoreDone DEF TakeAgent
  <2> HIDE DEF row
  <2>4. /\ rows'[k] \in Row /\ rows'[k].cfid = rows[k].cfid
        /\ rows'[k].content = rows[k].content /\ rows'[k].status = rows[k].status
        /\ \A j \in Keys \ {k} : rows'[j] = rows[j]
    <3>1. CASE rows' = rows
      BY <2>1, <3>1
    <3>2. CASE rows' = SaveResource(rows, k, row)
      BY <1>1, <2>1, <2>2, <3>2, SavedRow, SaveResourceEffect DEF TypeOK
    <3> QED
      BY <2>3, <3>1, <3>2
  <2>5. Kept(k, rows'[k], zone')
    BY <1>1, <2>1, <2>4, KeptRow DEF TypeOK, Kept, Truthful
  <2>6. HandInv'
    BY <1>9 DEF TakeAgent, HandInv, AtKey
  <2> QED
    BY <1>1, <2>1, <2>4, <2>5, <2>6 DEF Held
<1>10. ASSUME k = cur, KeepRecord PROVE HandInv' /\ Held(k)
  <2>1. HandInv'
    BY <1>10, RestMirrors DEF KeepRecord, Done
  <2> QED
    BY <1>1, <1>10, <2>1 DEF KeepRecord, KeptInv, InHand, Held
<1>11. ASSUME k = cur, PushRecord PROVE HandInv' /\ Held(k)
  <2>1. cur \in Keys /\ rows[cur] # NoRow /\ pc = "update"
    BY <1>1, <1>11 DEF PushRecord, PhaseInv, AtKey, TypeOK
  <2>2. PICK id \in PushableIds(cur) : Publish(id, cur, desired[cur].target) /\ curId' = id
    BY <1>11 DEF PushRecord
  <2>3. id \in RecordIds /\ In(zone, cur) = {id} /\ desired[cur].target \in Contents
    BY <1>1, <1>11, <2>1, PushesItsOwn DEF PushRecord, Acceptable
  <2>4. /\ In(zone', cur) = {id}
        /\ zone'[id].content = desired[cur].target
    BY <1>1, <2>1, <2>2, <2>3, PublishChanges
  <2>5. rows[cur].cfid \in {NoId, id}
    BY DEF PushableIds
  <2>6. HandInv'
    BY <1>11, <2>2, <2>4, <2>5 DEF PushRecord, HandInv, AtKey
  <2> QED
    BY <1>1, <1>11, <2>1, <2>4, <2>6 DEF Held, PushRecord, InHand
<1>12. ASSUME k = cur, PushFails PROVE HandInv' /\ Held(k)
  <2>1. cur \in Keys /\ rows[cur] # NoRow /\ rows[cur] \in Row /\ pc = "update"
    BY <1>1, <1>12 DEF PushFails, PhaseInv, AtKey, TypeOK
  <2>2. In(zone', cur) = In(zone, cur)
    <3>1. CASE UNCHANGED zone
      BY <3>1
    <3>2. ASSUME NEW id \in PushableIds(cur), Acceptable(desired[cur].target),
                 Publish(id, cur, desired[cur].target)
          PROVE  In(zone', cur) = In(zone, cur)
      <4>1. id \in RecordIds /\ In(zone, cur) = {id}
        BY <1>1, <1>12, <2>1, <3>2, PushesItsOwn
      <4> QED
        BY <1>1, <2>1, <3>2, <4>1, PublishChanges DEF Acceptable
    <3> QED
      BY <1>12, <3>1, <3>2 DEF PushFails
  <2>3. /\ rows'[cur] \in Row /\ rows'[cur].cfid = rows[cur].cfid
        /\ "storage" \in Faults \/ rows'[cur].status = "error"
        /\ \A j \in Keys \ {cur} : rows'[j] = rows[j]
    <3>1. CASE rows' = UpdateResourceStatus(rows, cur, "error")
      BY <1>1, <2>1, <3>1, UpdatedRow, UpdateResourceStatusEffect DEF TypeOK, Statuses
    <3>2. CASE "storage" \in Faults /\ rows' = rows
      BY <2>1, <3>2
    <3> QED
      BY <1>12, <3>1, <3>2, StoreDone DEF PushFails, UpdateResourceError
  <2>4. Kept(cur, rows[cur], zone)
    BY <1>1, <1>12, <2>1 DEF KeptInv, InHand
  <2>5. Kept(cur, rows'[cur], zone')
    <3>1. rows[cur].cfid # NoId /\ zone'[rows[cur].cfid] # NoRecord
             => zone'[rows[cur].cfid].key = cur
      <4> SUFFICES ASSUME rows[cur].cfid # NoId, zone'[rows[cur].cfid] # NoRecord
                   PROVE  zone'[rows[cur].cfid].key = cur
        OBVIOUS
      <4>1. rows[cur].cfid \in RecordIds
        BY <2>1 DEF Row
      <4>2. CASE UNCHANGED zone
        BY <2>1, <2>4, <4>2 DEF Kept
      <4>3. ASSUME NEW id \in PushableIds(cur), Publish(id, cur, desired[cur].target)
            PROVE  zone'[rows[cur].cfid].key = cur
        <5>1. id = rows[cur].cfid /\ id \in RecordIds
          BY <4>1, <4>3 DEF PushableIds
        <5> QED
          BY <1>1, <4>3, <5>1 DEF Publish, TypeOK
      <4> QED
        BY <1>12, <4>2, <4>3 DEF PushFails
    <3>2. \A i, j \in In(zone', cur) : rows'[cur].cfid = NoId => i = j
      BY <2>1, <2>2, <2>3, <2>4 DEF Kept
    <3>3. rows'[cur].cfid # NoId => In(zone', cur) \subseteq {rows'[cur].cfid}
      BY <2>1, <2>2, <2>3, <2>4 DEF Kept
    <3> QED
      BY <2>3, <3>1, <3>2, <3>3, RowIsARecord DEF Kept
  <2>6. HandInv'
    BY <1>12, RestMirrors DEF PushFails, Done
  <2> QED
    BY <1>1, <1>12, <2>1, <2>2, <2>3, <2>5, <2>6 DEF Held
<1>13. ASSUME k = cur, SavePushed PROVE HandInv' /\ Held(k)
  <2>1. /\ cur \in Keys /\ Wanted(cur) /\ rows[cur] # NoRow /\ rows[cur] \in Row
        /\ curId \in RecordIds /\ PushedRow(cur) \in Row
    BY <1>1, <1>13, PatchedRowTypes DEF SavePushed, PhaseInv, AtKey, TypeOK
  <2>2. /\ In(zone, cur) = {curId} /\ zone' = zone
        /\ zone[curId].content = desired[cur].target
    BY <1>1, <1>13 DEF HandInv, SavePushed
  <2>3. /\ rows'[cur] \in Row /\ rows'[cur].cfid = curId
        /\ rows'[cur].content = zone[curId].content
        /\ \A j \in Keys \ {cur} : rows'[j] = rows[j]
    <3>1. PushedRow(cur).cfid = curId /\ PushedRow(cur).content = desired[cur].target
      BY <2>1 DEF PushedRow, Row
    <3> QED
      BY <1>1, <1>13, <2>1, <2>2, <3>1, SavedRow, SaveResourceEffect DEF TypeOK, SavePushed
  <2>4. Kept(cur, rows'[cur], zone') /\ Truthful(cur, rows'[cur], zone')
    BY <2>1, <2>2, <2>3, RowIsARecord, ConstantsAreApart DEF Kept, Truthful, In
  <2>5. HandInv'
    <3>1. CASE rows[cur].status = "active"
      BY <1>13, <3>1, RestMirrors DEF SavePushed, Done
    <3>2. CASE rows[cur].status # "active"
      BY <1>13, <2>4, <3>2 DEF SavePushed, HandInv, AtKey
    <3> QED
      BY <3>1, <3>2
  <2> QED
    BY <1>1, <1>13, <2>1, <2>2, <2>3, <2>4, <2>5 DEF Held
<1>14. ASSUME k = cur, SavePushedFails PROVE HandInv' /\ Held(k)
  <2>1. /\ cur \in Keys /\ rows[cur] # NoRow /\ rows[cur] \in Row /\ zone' = zone
        /\ In(zone, cur) = {curId} /\ rows[cur].cfid \in {NoId, curId}
        /\ "storage" \in Faults
    BY <1>1, <1>14 DEF SavePushedFails, PhaseInv, AtKey, TypeOK, HandInv, May
  <2>2. /\ rows'[cur] \in Row /\ rows'[cur].cfid = rows[cur].cfid
        /\ \A j \in Keys \ {cur} : rows'[j] = rows[j]
    <3>1. CASE rows' = rows
      BY <2>1, <3>1
    <3>2. CASE rows' = UpdateResourceStatus(rows, cur, "error")
      BY <1>1, <2>1, <3>2, UpdatedRow, UpdateResourceStatusEffect DEF TypeOK, Statuses
    <3> QED
      BY <1>14, <3>1, <3>2 DEF SavePushedFails, UpdateResourceError
  <2>3. Kept(cur, rows'[cur], zone')
    BY <2>1, <2>2, RowIsARecord DEF Kept, In
  <2>4. HandInv'
    BY <1>14, RestMirrors DEF SavePushedFails, Done
  <2> QED
    BY <1>1, <1>14, <2>1, <2>2, <2>3, <2>4 DEF Held
<1>15. ASSUME k = cur, Activate PROVE HandInv' /\ Held(k)
  <2>1. /\ cur \in Keys /\ rows[cur] # NoRow /\ rows[cur] \in Row /\ zone' = zone
        /\ "storage" \notin Faults => Truthful(cur, rows[cur], zone)
        /\ Kept(cur, rows[cur], zone)
    BY <1>1, <1>15 DEF Activate, PhaseInv, AtKey, TypeOK, HandInv, KeptInv, InHand
  <2>2. rows' \in {rows, UpdateResourceStatus(rows, cur, "active")}
    BY <1>15, StoreDone DEF Activate, UpdateResourceError
  <2>3. /\ rows'[cur] \in Row /\ rows'[cur].cfid = rows[cur].cfid
        /\ rows'[cur].content = rows[cur].content
        /\ \A j \in Keys \ {cur} : rows'[j] = rows[j]
    <3>1. CASE rows' = rows
      BY <2>1, <3>1
    <3>2. CASE rows' = UpdateResourceStatus(rows, cur, "active")
      BY <1>1, <2>1, <3>2, UpdatedRow, UpdateResourceStatusEffect DEF TypeOK, Statuses
    <3> QED
      BY <2>2, <3>1, <3>2
  <2>4. Kept(cur, rows'[cur], zone')
    BY <1>1, <2>1, <2>3, KeptRow DEF TypeOK, Truthful
  <2>5. HandInv'
    BY <1>15, RestMirrors DEF Activate, Done
  <2> QED
    BY <1>1, <1>15, <2>1, <2>3, <2>4, <2>5 DEF Held
<1>16. ASSUME MarkOrphaned(k) PROVE HandInv' /\ Held(k)
  <2>1. /\ rows[k] # NoRow /\ rows[k] \in Row /\ zone' = zone /\ cur = NoKey
        /\ Kept(k, rows[k], zone)
    BY <1>1, <1>16, <1>c DEF MarkOrphaned, PassInv, InPass, AtKey, TypeOK, KeptInv, InHand
  <2>2. rows' = rows \/ rows' = UpdateResourceStatus(rows, k, "orphaned")
    BY <1>16, StoreDone DEF MarkOrphaned
  <2>3. Kept(k, rows'[k], zone') /\ \A j \in Keys \ {k} : rows'[j] = rows[j]
    <3>1. CASE rows' = rows
      BY <2>1, <3>1
    <3>2. CASE rows' = UpdateResourceStatus(rows, k, "orphaned")
      <4>1. /\ rows'[k] \in Row /\ rows'[k].cfid = rows[k].cfid
            /\ rows'[k].status = "orphaned"
            /\ \A j \in Keys \ {k} : rows'[j] = rows[j]
        BY <1>1, <2>1, <3>2, UpdatedRow, UpdateResourceStatusEffect DEF TypeOK, Statuses
      <4> QED
        BY <1>1, <2>1, <4>1, KeptRow DEF TypeOK
    <3> QED
      BY <2>2, <3>1, <3>2
  <2>4. HandInv'
    BY <1>16, RestMirrors DEF MarkOrphaned, Done
  <2> QED
    BY <1>1, <2>1, <2>3, <2>4 DEF Held
<1>18. ASSUME DeleteRecord(k) \/ DeleteFails(k) PROVE HandInv' /\ Held(k)
  <2>1. /\ rows[k] # NoRow /\ rows[k] \in Row /\ rows' = rows /\ cur = NoKey
        /\ rows[k].status = "orphaned" /\ Kept(k, rows[k], zone)
    BY <1>1, <1>18, <1>c
    DEF DeleteRecord, DeleteFails, CleanupInv, HasStatus, TypeOK, KeptInv, InHand, AtKey
  <2>2. ASSUME rows[k].cfid # NoId, Unpublish(rows[k].cfid)
        PROVE  In(zone', k) = {} /\ zone'[rows[k].cfid] = NoRecord
    <3>1. /\ rows[k].cfid \in RecordIds
          /\ In(zone, k) \subseteq {rows[k].cfid}
          /\ zone[rows[k].cfid] # NoRecord => zone[rows[k].cfid].key = k
      BY <2>1, <2>2 DEF Row, Kept
    <3>2. /\ In(zone', k) = In(zone, k) \ {rows[k].cfid}
          /\ zone'[rows[k].cfid] = NoRecord
      BY <1>1, <2>2, <3>1, UnpublishChanges
    <3> QED
      BY <3>1, <3>2
  <2>3. CASE UNCHANGED zone /\ DeleteFails(k)
    <3>1. HandInv'
      BY <2>3, RestMirrors DEF DeleteFails, Done
    <3> QED
      BY <1>1, <2>1, <2>3, <3>1 DEF Held
  <2>4. CASE rows[k].cfid # NoId /\ Unpublish(rows[k].cfid)
    <3>1. In(zone', k) = {} /\ zone'[rows[k].cfid] = NoRecord
      BY <2>2, <2>4
    <3>2. Kept(k, rows'[k], zone')
      BY <2>1, <3>1 DEF Kept
    <3>3. HandInv'
      <4>1. CASE DeleteRecord(k)
        BY <3>1, <4>1 DEF DeleteRecord, HandInv, AtKey
      <4>2. CASE DeleteFails(k)
        BY <4>2, RestMirrors DEF DeleteFails, Done
      <4> QED
        BY <1>18, <4>1, <4>2
    <3> QED
      BY <1>1, <2>1, <3>1, <3>2, <3>3 DEF Held
  <2>5. CASE k \in mistaken'
    <3>1. cur' = k \/ cur' = NoKey
      BY <1>18 DEF DeleteRecord, DeleteFails, Done, Rest
    <3> QED
      BY <2>5, <3>1, ConstantsAreApart DEF HandInv, Held
  <2> QED
    BY <1>18, <2>3, <2>4, <2>5 DEF DeleteRecord, DeleteFails
<1>19. ASSUME k = cur, DeleteRow PROVE HandInv' /\ Held(k)
  <2>1. cur \in Keys /\ In(zone, cur) = {} /\ zone' = zone
    BY <1>1, <1>19 DEF DeleteRow, PhaseInv, HandInv, TypeOK
  <2>2. rows' \in {rows, DeleteResource(rows, cur)}
    BY <1>19, StoreDone DEF DeleteRow
  <2>3. rows'[cur] \in {rows[cur], NoRow} /\ \A j \in Keys \ {cur} : rows'[j] = rows[j]
    BY <1>1, <2>1, <2>2 DEF DeleteResource, TypeOK
  <2>4. HandInv'
    BY <1>19, RestMirrors DEF DeleteRow, Done
  <2>5. Kept(cur, rows'[cur], zone')
    BY <1>1, <1>19, <2>1, <2>3 DEF DeleteRow, KeptInv, InHand, Kept
  <2> QED
    BY <1>1, <1>19, <2>1, <2>3, <2>4, <2>5 DEF Held
<1> QED
  BY <1>3, <1>4, <1>5, <1>6, <1>7, <1>8, <1>9, <1>10, <1>11, <1>12, <1>13, <1>14, <1>15,
     <1>16, <1>18, <1>19 DEF VisitStep

LEMMA ReconcilingMirrors ==
    ASSUME OneSideFails
    PROVE  ControlInv /\ TypeOK' /\ MirrorInv /\ Reconciling => MirrorInv'
<1> SUFFICES ASSUME ControlInv, TypeOK', MirrorInv, Reconciling PROVE MirrorInv'
  OBVIOUS
<1>1. TypeOK /\ OwnInv /\ HandInv /\ KeptInv
  BY DEF ControlInv, MirrorInv
<1>2. CASE LoopStep
  <2>1. /\ cur = NoKey /\ cur' = NoKey /\ UNCHANGED <<rows, zone, mistaken>>
        /\ pc \notin InHand /\ pc' \notin InHand
    BY <1>1, <1>2
    DEF LoopStep, StartReconcile, ListForCleanup, ListExpired, FinishReconcile, OwnInv,
        AtKey, InHand
  <2>2. pc' = "expire" => todo' = {}
    BY <1>2
    DEF LoopStep, StartReconcile, ListForCleanup, ListExpired, FinishReconcile, OneSideFails
  <2>3. OwnInv'
    BY <1>1, <2>1, <2>2 DEF OwnInv
  <2>4. HandInv'
    BY <2>1, ConstantsAreApart DEF HandInv
  <2>5. KeptInv'
    BY <1>1, <2>1 DEF KeptInv
  <2> QED
    BY <2>3, <2>4, <2>5 DEF MirrorInv
<1>3. ASSUME NEW k \in Keys, VisitStep(k) PROVE MirrorInv'
  <2>1. ActsOn(k)
    BY <1>1, <1>3, VisitActs
  <2>2. OwnInv'
    BY <1>1, <1>3, <2>1, VisitOwns
  <2>3. HandInv' /\ Held(k)
    <3>1. CASE k \in mistaken
      BY <2>1, <3>1, ConstantsAreApart DEF ActsOn, HandInv, Held
    <3>2. CASE k \notin mistaken
      BY <1>1, <1>3, <3>2, VisitKeeps
    <3> QED
      BY <3>1, <3>2
  <2>4. KeptInv'
    BY <1>1, <2>1, <2>3, VisitMirrors DEF ActsOn, Held
  <2> QED
    BY <2>2, <2>3, <2>4 DEF MirrorInv
<1> QED
  BY <1>1, <1>2, <1>3, ReconcilingIsVisits

LEMMA EnvironmentMirrors ==
    ASSUME OneSideFails
    PROVE  ControlInv /\ MirrorInv /\ Environment => MirrorInv'
<1> SUFFICES ASSUME ControlInv, MirrorInv, Environment PROVE MirrorInv'
  OBVIOUS
<1> USE DEF Rows, Zones
<1>1. TypeOK /\ PhaseInv /\ OwnInv /\ HandInv /\ KeptInv
  BY DEF ControlInv, MirrorInv
<1>2. ~May("crash") /\ ~May("user")
  BY DEF OneSideFails, May
<1>3. CASE BecomeQuiet
  BY <1>1, <1>3 DEF BecomeQuiet, MirrorInv, OwnInv, HandInv, KeptInv, InHand
<1>4. CASE Tick
  <2>1. /\ UNCHANGED <<desired, zone, pc, todo, cur, curId, mistaken>>
        /\ rows' = AgeRows(rows, AgeCap)
    BY <1>4 DEF Tick
  <2>2. ASSUME NEW k \in Keys, rows[k] # NoRow
        PROVE  /\ rows'[k] \in Row /\ rows'[k].cfid = rows[k].cfid
               /\ rows'[k].content = rows[k].content /\ rows'[k].status = rows[k].status
    BY <1>1, <2>1, <2>2, AgedRow DEF TypeOK
  <2>3. ASSUME NEW k \in Keys, Kept(k, rows[k], zone) PROVE Kept(k, rows'[k], zone')
    <3>1. CASE rows[k] = NoRow
      BY <1>1, <2>1, <2>3, <3>1, AgeRowsEffect DEF TypeOK
    <3>2. CASE rows[k] # NoRow
      BY <1>1, <2>1, <2>2, <2>3, <3>2, KeptRow, RowIsARecord DEF TypeOK, Kept, Truthful
    <3> QED
      BY <3>1, <3>2
  <2>4. HandInv'
    <3>1. ASSUME "storage" \notin Faults, pc = "activate", cur \notin mistaken
          PROVE  Truthful(cur, rows'[cur], zone')
      <4>1. cur \in Keys /\ rows[cur] # NoRow /\ Truthful(cur, rows[cur], zone)
        BY <1>1, <3>1 DEF PhaseInv, AtKey, TypeOK, HandInv
      <4> QED
        BY <2>1, <2>2, <4>1 DEF Truthful
    <3>2. ASSUME pc = "pushed" PROVE rows'[cur].cfid = rows[cur].cfid
      <4>1. cur \in Keys /\ rows[cur] # NoRow
        BY <1>1, <3>2 DEF PhaseInv, AtKey, TypeOK
      <4> QED
        BY <2>2, <4>1
    <3> QED
      BY <1>1, <2>1, <3>1, <3>2 DEF HandInv
  <2>5. OwnInv'
    <3>1. ASSUME NEW k \in Keys PROVE Owns(k, rows'[k], zone')
      <4>1. CASE rows[k] = NoRow
        BY <1>1, <2>1, <4>1, AgeRowsEffect DEF TypeOK, Owns
      <4>2. CASE rows[k] # NoRow
        BY <1>1, <2>1, <2>2, <4>2 DEF OwnInv, Owns
      <4> QED
        BY <4>1, <4>2
    <3> QED
      BY <1>1, <2>1, <3>1 DEF OwnInv, InHand
  <2> QED
    BY <1>1, <2>1, <2>3, <2>4, <2>5 DEF MirrorInv, KeptInv, InHand
<1> QED
  BY <1>2, <1>3, <1>4 DEF Environment, Crash, UserCreates, UserEdits, UserDeletes

LEMMA MirrorIsInvariant ==
    ASSUME OneSideFails
    PROVE  Spec => []MirrorInv
<1>1. Init => MirrorInv
  BY ConstantsAreApart
  DEF Init, MirrorInv, OwnInv, Owns, HandInv, KeptInv, InHand, Kept, In
<1>2. ControlInv /\ ControlInv' /\ MirrorInv /\ [Next]_vars => MirrorInv'
  <2>1. ControlInv /\ ControlInv' /\ MirrorInv /\ Next => MirrorInv'
    BY ReconcilingMirrors, EnvironmentMirrors DEF Next, ControlInv
  <2>2. MirrorInv /\ UNCHANGED vars => MirrorInv'
    BY DEF vars, MirrorInv, OwnInv, HandInv, KeptInv, InHand
  <2> QED
    BY <2>1, <2>2
<1> QED
  BY <1>1, <1>2, ControlIsInvariant, PTL DEF Spec

(* However calls fail and replies are lost, a row in status active names a *)
(* record of its key that holds what the row says: a push that failed, or  *)
(* whose outcome is not known, never leaves the row active.  Deletions     *)
(* that are refused in words that pass for "already gone" may happen, and  *)
(* cost this only to the keys they happen to.                              *)
THEOREM ActiveRowsMirrorZoneHolds ==
    ASSUME Faults \subseteq {"api", "lost", "text404"}, OrphanTTL = 0
    PROVE  Spec => []ActiveRowsMirrorZone
<1>1. OneSideFails
  BY DEF OneSideFails
<1>2. MirrorInv => ActiveRowsMirrorZone
  <2> SUFFICES ASSUME MirrorInv, NEW k \in Keys \ mistaken, HasStatus(rows, k, "active"), cur # k
               PROVE  /\ rows[k].cfid \in RecordsOf(k)
                      /\ zone[rows[k].cfid].content = rows[k].content
    BY DEF ActiveRowsMirrorZone
  <2> QED
    BY DEF MirrorInv, KeptInv, Kept, Truthful, In, RecordsOf, HasStatus
<1> QED
  BY <1>1, <1>2, MirrorIsInvariant, PTL

(* A record is never without the row that remembers it: a create whose     *)
(* reply is lost leaves a row in status error through which the record is  *)
(* found again, one whose row cannot be saved is taken back, and a row is  *)
(* only dropped after its record - but for the keys of which a deletion    *)
(* was refused with "404" in the text, which isNotFoundError takes for     *)
(* done.  Such deletions are among the faults allowed, and disturb no      *)
(* other key.                                                              *)
THEOREM NothingLeftBehindHolds ==
    ASSUME \/ Faults \subseteq {"api", "lost", "text404"}
           \/ Faults \subseteq {"storage", "text404"},
           OrphanTTL = 0
    PROVE  Spec => []NothingLeftBehind
<1>1. OneSideFails
  BY DEF OneSideFails
<1>2. MirrorInv => NothingLeftBehind
  <2> SUFFICES ASSUME MirrorInv, NEW k \in Keys \ mistaken, rows[k] = NoRow, cur # k
               PROVE  RecordsOf(k) = {}
    BY DEF NothingLeftBehind
  <2> QED
    BY DEF MirrorInv, KeptInv, InHand, Kept, In, RecordsOf
<1> QED
  BY <1>1, <1>2, MirrorIsInvariant, PTL
=============================================================================

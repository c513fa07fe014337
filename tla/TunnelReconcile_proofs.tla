----------------------- MODULE TunnelReconcile_proofs -----------------------
(***************************************************************************)
(* Theorems about TunnelReconcile, for every number of hostnames, paths,   *)
(* services and tunnels, both delays, any time a cycle may take, and every *)
(* combination of faults, but for what a theorem excludes.                 *)
(***************************************************************************)
EXTENDS TunnelReconcile, TLAPS

Rows == [Hosts -> Row \cup {NoRow}]

----------------------------------------------------------------------------
(* Lemmas about the table's statements.                                    *)

LEMMA ZeroIsAnAge == AgeCap \in Nat /\ 0 \in Ages /\ RemoveDelay \in 0 .. AgeCap
BY TunnelDelaysAreNaturals DEF Ages, AgeCap

(* Writing a row that is in memory: it is in the table, and its age is 0.  *)
LEMMA SavedRow ==
    ASSUME NEW table \in Rows, NEW h \in Hosts, NEW row \in Row
    PROVE  /\ SaveResource(table, h, row) \in Rows
           /\ SaveResource(table, h, row)[h] # NoRow
           /\ SaveResource(table, h, row)[h].age = 0
           /\ SaveResource(table, h, row)[h].status = row.status
           /\ SaveResource(table, h, row)[h].tunnel = row.tunnel
           /\ SaveResource(table, h, row)[h].path = row.path
           /\ \A j \in Hosts \ {h} : SaveResource(table, h, row)[j] = table[j]
<1> DEFINE written == [row EXCEPT !.age = 0]
<1>1. /\ written \in Row /\ written.age = 0 /\ written.status = row.status
      /\ written.tunnel = row.tunnel /\ written.path = row.path
  BY ZeroIsAnAge DEF Row
<1>2. /\ SaveResource(table, h, row) \in Rows
      /\ SaveResource(table, h, row)[h] = written
      /\ \A j \in Hosts \ {h} : SaveResource(table, h, row)[j] = table[j]
  BY <1>1 DEF Rows, SaveResource
<1> QED
  <2> HIDE DEF written
  <2> QED  BY <1>1, <1>2, NoRowIsNotARow

(* Writing a new status into a row of the table.                           *)
LEMMA MarkedRow ==
    ASSUME NEW table \in Rows, NEW h \in Hosts, table[h] # NoRow, NEW status \in Statuses
    PROVE  /\ UpdateResourceStatus(table, h, status) \in Rows
           /\ UpdateResourceStatus(table, h, status)[h] # NoRow
           /\ UpdateResourceStatus(table, h, status)[h].age = 0
           /\ UpdateResourceStatus(table, h, status)[h].status = status
           /\ \A j \in Hosts \ {h} : UpdateResourceStatus(table, h, status)[j] = table[j]
<1> DEFINE row == [table[h] EXCEPT !.status = status]
<1>1. table[h] \in Row
  BY DEF Rows
<1>2. row \in Row /\ row.status = status
  BY <1>1 DEF Row
<1> QED
  <2> HIDE DEF row
  <2>1. UpdateResourceStatus(table, h, status) = SaveResource(table, h, row)
    BY DEF UpdateResourceStatus, row
  <2> QED  BY <1>2, <2>1, SavedRow

(* A tick: every row stays, as it was but for its age.                     *)
LEMMA AgedRows ==
    ASSUME NEW table \in Rows
    PROVE  /\ AgeRows(table, AgeCap) \in Rows
           /\ \A h \in Hosts :
                 /\ table[h] = NoRow => AgeRows(table, AgeCap)[h] = NoRow
                 /\ table[h] # NoRow =>
                       /\ AgeRows(table, AgeCap)[h] # NoRow
                       /\ table[h].age \in 0 .. AgeCap
                       /\ AgeRows(table, AgeCap)[h].age = NextAge(table[h].age, AgeCap)
                       /\ AgeRows(table, AgeCap)[h].status = table[h].status
                       /\ AgeRows(table, AgeCap)[h].tunnel = table[h].tunnel
                       /\ AgeRows(table, AgeCap)[h].path = table[h].path
<1>1. ASSUME NEW row \in Row
      PROVE  /\ row.age \in 0 .. AgeCap
             /\ [row EXCEPT !.age = NextAge(row.age, AgeCap)] \in Row
             /\ [row EXCEPT !.age = NextAge(row.age, AgeCap)].age = NextAge(row.age, AgeCap)
             /\ [row EXCEPT !.age = NextAge(row.age, AgeCap)].status = row.status
             /\ [row EXCEPT !.age = NextAge(row.age, AgeCap)].tunnel = row.tunnel
             /\ [row EXCEPT !.age = NextAge(row.age, AgeCap)].path = row.path
  <2>1. row.age \in 0 .. AgeCap
    BY DEF Row, Ages
  <2>2. NextAge(row.age, AgeCap) \in Ages
    BY <2>1, ZeroIsAnAge DEF Ages, NextAge
  <2> QED
    BY <2>1, <2>2 DEF Row
<1>2. AgeRows(table, AgeCap) \in Rows
  BY <1>1 DEF Rows, AgeRows
<1>3. ASSUME NEW h \in Hosts, table[h] = NoRow PROVE AgeRows(table, AgeCap)[h] = NoRow
  BY <1>3 DEF Rows, AgeRows
<1>4. ASSUME NEW h \in Hosts, table[h] # NoRow
      PROVE  /\ AgeRows(table, AgeCap)[h] # NoRow
             /\ table[h].age \in 0 .. AgeCap
             /\ AgeRows(table, AgeCap)[h].age = NextAge(table[h].age, AgeCap)
             /\ AgeRows(table, AgeCap)[h].status = table[h].status
             /\ AgeRows(table, AgeCap)[h].tunnel = table[h].tunnel
             /\ AgeRows(table, AgeCap)[h].path = table[h].path
  <2>1. table[h] \in Row
    BY <1>4 DEF Rows
  <2>2. AgeRows(table, AgeCap)[h] = [table[h] EXCEPT !.age = NextAge(table[h].age, AgeCap)]
    BY <1>4 DEF Rows, AgeRows
  <2> QED
    BY <1>1, <2>1, <2>2, NoRowIsNotARow
<1> QED
  BY <1>2, <1>3, <1>4

LEMMA NoRowsType == NoRows \in Rows /\ AgeRows(NoRows, AgeCap) = NoRows
BY DEF NoRows, Rows, AgeRows

----------------------------------------------------------------------------
(* The inductive invariants.                                               *)

Pass == {"tunnels", "failed", "cnames", "rows", "rest"}
AtTunnel == {"failed", "cnames", "rows", "rest"}
OrphanPasses == {"cleanup", "removed", "expire"}

(* What the goroutine holds between two calls.                             *)
PhaseInv ==
    /\ pc = "idle" => todo = {}
    /\ pc \in Pass => todo \subseteq Tunnels
    /\ pc \in AtTunnel => cur \in Tunnels /\ routes \subseteq RoutesOf(cur)
    /\ pc \in OrphanPasses => todo \subseteq Hosts
    /\ pc = "removed" => cur \in todo
    /\ pc \notin Pass => listed = NoRows

(* A row of the list is still in the table, whatever was written over it.  *)
ListedInv == \A h \in Hosts : listed[h] # NoRow => rows[h] # NoRow

(* A row an orphan pass has still to visit is still what it was listed as. *)
OrphanInv ==
    /\ pc \in OrphanPasses => \A h \in todo : HasStatus(rows, h, "orphaned")
    /\ pc \in {"cleanup", "removed"} => \A h \in todo : OlderThan(rows, h, RemoveDelay)

ControlInv == TypeOK /\ PhaseInv /\ ListedInv /\ OrphanInv

LEMMA CleanupType == \A spec \in Specs : spec.cleanup \in BOOLEAN
BY TunnelFlags DEF Specs

LEMMA RowOfType ==
    ASSUME TypeOK, cur \in Tunnels, NEW r \in RoutesOf(cur), NEW status \in Statuses
    PROVE  RowOf(r, status) \in Row
<1>1. r \in Routes /\ desired[r] \in Specs
  BY DEF TypeOK, RoutesOf, AsksFor, Views
<1>2. desired[r].cleanup \in BOOLEAN
  BY <1>1, CleanupType
<1> QED
  BY <1>1, <1>2, ZeroIsAnAge DEF RowOf, Row, Routes

(* The step wrote the row of h, or marked the cycle because it could not,  *)
(* or had nothing to write; it took no row away.                           *)
Wrote(h) ==
    /\ rows' \in Rows
    /\ \A j \in Hosts \ {h} : rows'[j] = rows[j]
    /\ \/ rows'[h] # NoRow /\ rows'[h].age = 0 /\ clean' = clean
       \/ rows' = rows /\ clean' = FALSE

LEMMA StoreWrites ==
    ASSUME TypeOK, NEW h \in Hosts, NEW row \in Row, Store(SaveResource(rows, h, row))
    PROVE  Wrote(h)
<1>1. rows \in Rows
  BY DEF TypeOK, Rows
<1> QED
  BY <1>1, SavedRow DEF Store, Wrote

LEMMA StoreMarks ==
    ASSUME TypeOK, NEW h \in Hosts, rows[h] # NoRow, NEW status \in Statuses,
           Store(UpdateResourceStatus(rows, h, status))
    PROVE  Wrote(h)
<1>1. rows \in Rows
  BY DEF TypeOK, Rows
<1> QED
  BY <1>1, MarkedRow DEF Store, Wrote

(* What the three steps that write rows do to the table and to the list.   *)
Forgets(h) ==
    \/ listed' = listed
    \/ Forget(h)

LEMMA RecordFailureWrites ==
    ASSUME ControlInv, NEW r \in Routes, RecordFailure(r)
    PROVE  r.host \in Hosts /\ Wrote(r.host) /\ Forgets(r.host)
<1>1. r.host \in Hosts /\ cur \in Tunnels /\ r \in RoutesOf(cur)
  BY DEF ControlInv, PhaseInv, RecordFailure, AtTunnel, Routes
<1>2. TypeOK /\ "error" \in Statuses
  BY DEF ControlInv, Statuses
<1>3. CASE Known(r)
  <2>1. rows[r.host] # NoRow
    BY <1>1, <1>3 DEF ControlInv, ListedInv, Known
  <2> QED
    BY <1>1, <1>2, <1>3, <2>1, StoreMarks
    DEF RecordFailure, Forgets, UpdateResourceError
<1>4. CASE ~Known(r)
  BY <1>1, <1>2, <1>4, RowOfType, StoreWrites DEF RecordFailure, Forgets
<1> QED
  BY <1>3, <1>4

LEMMA SaveRouteWrites ==
    ASSUME ControlInv, NEW r \in Routes, SaveRoute(r)
    PROVE  /\ r.host \in Hosts
           /\ Forgets(r.host)
           /\ \/ Wrote(r.host)
              \/ /\ UNCHANGED <<rows, clean>>
                 /\ listed[r.host] # NoRow /\ listed[r.host].status = "active"
<1>1. r.host \in Hosts /\ cur \in Tunnels /\ r \in RoutesOf(cur)
  BY DEF ControlInv, PhaseInv, SaveRoute, AtTunnel, Routes
<1>2. TypeOK /\ "active" \in Statuses
  BY DEF ControlInv, Statuses
<1>3. CASE Known(r) /\ Dirty(r)
  <2> DEFINE row == [listed[r.host] EXCEPT !.cleanup = desired[r].cleanup,
                                           !.status = "active"]
             r1 == [listed[r.host] EXCEPT !.cleanup = desired[r].cleanup]
  <2>1. listed[r.host] \in Row /\ desired[r] \in Specs
    BY <1>1, <1>2, <1>3 DEF TypeOK, Known, Views, RoutesOf, AsksFor
  <2>2. r1 \in Row
    BY <2>1, CleanupType DEF Row
  <2>3. [r1 EXCEPT !.status = "active"] \in Row
    <3> HIDE DEF r1
    <3> QED  BY <1>2, <2>2 DEF Row
  <2>4. row \in Row
    BY <2>3
  <2> QED
    BY <1>1, <1>2, <1>3, <2>4, StoreWrites DEF SaveRoute, Forgets
<1>4. CASE Known(r) /\ ~Dirty(r)
  BY <1>1, <1>4 DEF SaveRoute, Forgets, Known, Dirty
<1>5. CASE ~Known(r)
  BY <1>1, <1>2, <1>5, RowOfType, StoreWrites DEF SaveRoute, Forgets
<1> QED
  BY <1>3, <1>4, <1>5

LEMMA MarkOrphanedWrites ==
    ASSUME ControlInv, NEW h \in Hosts, MarkOrphaned(h)
    PROVE  /\ Forget(h) /\ listed[h] # NoRow
           /\ Wrote(h) \/ UNCHANGED <<rows, clean>>
<1>1. TypeOK /\ "orphaned" \in Statuses /\ listed[h] # NoRow /\ rows[h] # NoRow
  BY DEF ControlInv, ListedInv, Statuses, MarkOrphaned, Remaining
<1> QED
  BY <1>1, StoreMarks DEF MarkOrphaned

(* Such a step keeps the types and the rows of the list.                   *)
LEMMA WritesKeep ==
    ASSUME TypeOK, ListedInv, NEW h \in Hosts, Forgets(h), Wrote(h) \/ UNCHANGED <<rows, clean>>
    PROVE  /\ rows' \in Rows /\ listed' \in Rows /\ clean' \in BOOLEAN
           /\ \A j \in Hosts : listed'[j] # NoRow => listed'[j] = listed[j]
           /\ ListedInv'
<1>1. rows \in Rows /\ listed \in Rows /\ clean \in BOOLEAN
  BY DEF TypeOK, Rows
<1>2. listed' \in Rows /\ \A j \in Hosts : listed'[j] # NoRow => listed'[j] = listed[j]
  BY <1>1 DEF Forgets, Forget, Rows
<1>3. CASE UNCHANGED <<rows, clean>>
  BY <1>1, <1>2, <1>3 DEF ListedInv
<1>4. CASE Wrote(h)
  BY <1>1, <1>2, <1>4 DEF Wrote, ListedInv
<1> QED
  BY <1>2, <1>3, <1>4

----------------------------------------------------------------------------
(* Type correctness, whatever fails.                                       *)

LEMMA InitControl == Init => ControlInv
<1> SUFFICES ASSUME Init PROVE ControlInv
  OBVIOUS
<1>1. TypeOK
  BY NoRowsType, ZeroIsAnAge DEF Init, TypeOK, Views, Phases, Rows
<1> QED
  BY <1>1
  DEF Init, NoRows, ControlInv, PhaseInv, ListedInv, OrphanInv, Pass, AtTunnel, OrphanPasses

LEMMA IngressType ==
    ASSUME TypeOK, NEW t \in Tunnels
    PROVE  IngressOf(t) \in [Routes -> Services \cup {NoRule}]
BY DEF TypeOK, IngressOf, RoutesOf, AsksFor, Views, Specs

LEMMA WithoutType ==
    ASSUME TypeOK, NEW h \in Hosts, rows[h] # NoRow
    PROVE  /\ rows[h].tunnel \in Tunnels
           /\ Without(h) \in [Routes -> Services \cup {NoRule}]
<1>1. rows[h].tunnel \in Tunnels
  BY DEF TypeOK, Row
<1> QED
  BY <1>1 DEF TypeOK, Without

(* What an orphan pass lists are orphans, and what it has not yet visited  *)
(* stays so when it deletes another row.                                   *)
LEMMA DeleteKeeps ==
    ASSUME ControlInv, NEW h \in Hosts, Store(DeleteResource(rows, h))
    PROVE  /\ rows' \in Rows /\ clean' \in BOOLEAN
           /\ \A j \in Hosts \ {h} : rows'[j] = rows[j]
           /\ rows'[h] = NoRow \/ rows' = rows
           /\ clean' => clean
<1>1. rows \in Rows /\ clean \in BOOLEAN
  BY DEF ControlInv, TypeOK, Rows
<1>2. /\ DeleteResource(rows, h) \in Rows
      /\ DeleteResource(rows, h)[h] = NoRow
      /\ \A j \in Hosts \ {h} : DeleteResource(rows, h)[j] = rows[j]
  BY <1>1 DEF Rows, DeleteResource
<1>3. \/ rows' = DeleteResource(rows, h) /\ clean' = clean
      \/ rows' = rows /\ clean' = FALSE
  BY DEF Store
<1>4. CASE rows' = DeleteResource(rows, h) /\ clean' = clean
  BY <1>1, <1>2, <1>4
<1>5. CASE rows' = rows /\ clean' = FALSE
  BY <1>1, <1>5
<1> QED
  BY <1>3, <1>4, <1>5

LEMMA ReconcilingControl == ControlInv /\ Reconciling => ControlInv'
<1> SUFFICES ASSUME ControlInv, Reconciling PROVE ControlInv'
  OBVIOUS
<1> USE DEF Pass, AtTunnel, OrphanPasses
<1>1. TypeOK /\ PhaseInv /\ ListedInv /\ OrphanInv
  BY DEF ControlInv
<1>a. rows \in Rows /\ listed \in Rows /\ (listed = NoRows => ListedInv)
  BY <1>1 DEF TypeOK, Rows, ListedInv
<1>2. ASSUME NEW view \in Views, StartReconcile(view) PROVE ControlInv'
  <2>1. TypeOK'
    BY <1>1, <1>a, <1>2 DEF TypeOK, StartReconcile, Phases
  <2>2. PhaseInv'
    BY <1>1, <1>2 DEF PhaseInv, StartReconcile
  <2>3. ListedInv' /\ OrphanInv'
    BY <1>1, <1>2 DEF ListedInv, OrphanInv, StartReconcile
  <2> QED  BY <2>1, <2>2, <2>3 DEF ControlInv
<1>3. ASSUME NEW t \in Tunnels, PushConfig(t) \/ PushFails(t) PROVE ControlInv'
  <2>1. /\ pc = "tunnels" /\ pc' \in {"cnames", "failed"}
        /\ cur' = t /\ todo' = todo \ {t} /\ routes' = RoutesOf(t)
        /\ config' = config \/ config' = [config EXCEPT ![t] = IngressOf(t)]
        /\ UNCHANGED <<desired, rows, cname, listed, quiet, clean, unwanted, elapsed>>
    BY <1>3 DEF PushConfig, PushFails
  <2>2. config' \in [Tunnels -> [Routes -> Services \cup {NoRule}]]
    BY <1>1, <2>1, IngressType DEF TypeOK
  <2>3. RoutesOf(t)' = RoutesOf(t) /\ RoutesOf(t) \subseteq Routes
    BY <2>1 DEF RoutesOf, AsksFor
  <2>4. TypeOK'
    BY <1>1, <2>1, <2>2, <2>3 DEF TypeOK, Phases, PhaseInv
  <2>5. PhaseInv'
    BY <1>1, <2>1, <2>3 DEF PhaseInv
  <2>6. ListedInv' /\ OrphanInv'
    BY <1>1, <2>1 DEF ListedInv, OrphanInv
  <2> QED  BY <2>4, <2>5, <2>6 DEF ControlInv
<1>4. ASSUME NEW r \in Routes, RecordFailure(r) \/ SaveRoute(r) PROVE ControlInv'
  <2>1. /\ r.host \in Hosts /\ Forgets(r.host)
        /\ Wrote(r.host) \/ UNCHANGED <<rows, clean>>
    BY <1>4, RecordFailureWrites, SaveRouteWrites
  <2>2. rows' \in Rows /\ listed' \in Rows /\ clean' \in BOOLEAN /\ ListedInv'
    BY <1>1, <2>1, WritesKeep
  <2>3. /\ pc \in {"failed", "rows"}
        /\ routes' = routes \ {r}
        /\ UNCHANGED <<desired, config, cname, pc, cur, todo, quiet, unwanted, elapsed>>
    BY <1>4 DEF RecordFailure, SaveRoute
  <2>4. TypeOK'
    BY <1>1, <2>2, <2>3 DEF TypeOK, Rows
  <2>5. PhaseInv' /\ OrphanInv'
    BY <1>1, <2>3 DEF PhaseInv, OrphanInv, RoutesOf, AsksFor
  <2> QED  BY <2>2, <2>4, <2>5 DEF ControlInv
<1>5. ASSUME NEW r \in Routes, EnsureCNAME(r) PROVE ControlInv'
  <2>1. cname' \in [Hosts -> Tunnels \cup {Nothing}]
    BY <1>1, <1>5 DEF TypeOK, PhaseInv, EnsureCNAME
  <2>2. TypeOK'
    BY <1>1, <1>5, <2>1 DEF TypeOK, EnsureCNAME
  <2>3. PhaseInv' /\ ListedInv' /\ OrphanInv'
    BY <1>1, <1>5
    DEF PhaseInv, ListedInv, OrphanInv, EnsureCNAME, RoutesOf, AsksFor, HasStatus, OlderThan
  <2> QED  BY <2>2, <2>3 DEF ControlInv
<1>6. ASSUME EndFailure \/ EndCNAMEs \/ EndRows \/ EndRest PROVE ControlInv'
  <2>1. /\ pc \in AtTunnel /\ pc' \in Pass \ {"failed", "cnames"}
        /\ (pc' \in AtTunnel => cur' = cur)
        /\ cur' \in {cur, Nothing} /\ routes' \in {routes, RoutesOf(cur)}
        /\ UNCHANGED <<desired, rows, config, cname, todo, listed, quiet, clean, unwanted, elapsed>>
    BY <1>6 DEF EndFailure, EndCNAMEs, EndRows, EndRest
  <2>2. \A t : RoutesOf(t)' = RoutesOf(t) /\ RoutesOf(t) \subseteq Routes
    BY <2>1 DEF RoutesOf, AsksFor
  <2>3. TypeOK'
    BY <1>1, <2>1, <2>2 DEF TypeOK, Phases
  <2>4. PhaseInv'
    BY <1>1, <2>1, <2>2 DEF PhaseInv
  <2>5. ListedInv' /\ OrphanInv'
    BY <1>1, <2>1 DEF ListedInv, OrphanInv
  <2> QED  BY <2>3, <2>4, <2>5 DEF ControlInv
<1>7. ASSUME NEW h \in Hosts, MarkOrphaned(h) PROVE ControlInv'
  <2>1. Forgets(h) /\ (Wrote(h) \/ UNCHANGED <<rows, clean>>)
    BY <1>7, MarkOrphanedWrites DEF Forgets
  <2>2. rows' \in Rows /\ listed' \in Rows /\ clean' \in BOOLEAN /\ ListedInv'
    BY <1>1, <2>1, WritesKeep
  <2>3. /\ pc \in {"rest", "tunnels"}
        /\ UNCHANGED <<desired, config, cname, pc, cur, todo, routes, quiet, unwanted, elapsed>>
    BY <1>7 DEF MarkOrphaned, Remaining
  <2>4. TypeOK'
    BY <1>1, <2>2, <2>3 DEF TypeOK, Rows
  <2>5. PhaseInv' /\ OrphanInv'
    BY <1>1, <2>3 DEF PhaseInv, OrphanInv, RoutesOf, AsksFor
  <2> QED  BY <2>2, <2>4, <2>5 DEF ControlInv
<1>8. ASSUME ListForCleanup PROVE ControlInv'
  <2>1. /\ todo' \subseteq Hosts
        /\ \A h \in todo' : HasStatus(rows, h, "orphaned") /\ OlderThan(rows, h, RemoveDelay)
    <3>1. ListOrphanedForCleanup(rows, RemoveDelay) \subseteq Hosts
      BY <1>a DEF Rows, ListOrphanedForCleanup, ListExpiredOrphans
    <3>2. \A h \in ListOrphanedForCleanup(rows, RemoveDelay) :
             HasStatus(rows, h, "orphaned") /\ OlderThan(rows, h, RemoveDelay)
      BY <1>a DEF Rows, ListOrphanedForCleanup, ListExpiredOrphans
    <3> QED  BY <1>8, <3>1, <3>2 DEF ListForCleanup
  <2>2. unwanted' \in [Hosts -> Ages] /\ clean' \in BOOLEAN
    BY <1>1, <1>8, ZeroIsAnAge DEF TypeOK, ListForCleanup
  <2>a. /\ todo' \subseteq Hosts /\ pc' = "cleanup"
        /\ UNCHANGED <<desired, rows, config, cname, cur, routes, listed, quiet, elapsed>>
    BY <1>8, <2>1 DEF ListForCleanup
  <2>3. TypeOK'
    BY <1>1, <2>2, <2>a DEF TypeOK, Phases
  <2>4. PhaseInv' /\ ListedInv' /\ OrphanInv'
    BY <1>1, <1>8, <2>1
    DEF PhaseInv, ListedInv, OrphanInv, ListForCleanup, HasStatus, OlderThan
  <2> QED  BY <2>3, <2>4 DEF ControlInv
<1>9. ASSUME NEW h \in Hosts, RemoveIngressRule(h) \/ RemoveFails(h) PROVE ControlInv'
  <2>1. /\ pc = "cleanup" /\ h \in todo /\ pc' \in {"cleanup", "removed"}
        /\ todo' \subseteq todo
        /\ pc' = "removed" => cur' \in todo'
        /\ cur' \in {cur, h}
        /\ config' = config \/ config' = [config EXCEPT ![rows[h].tunnel] = Without(h)]
        /\ UNCHANGED <<desired, rows, cname, routes, listed, quiet, clean, unwanted, elapsed>>
    BY <1>9 DEF RemoveIngressRule, RemoveFails
  <2>2. rows[h] # NoRow
    BY <1>1, <2>1 DEF OrphanInv, HasStatus
  <2>3. config' \in [Tunnels -> [Routes -> Services \cup {NoRule}]]
    BY <1>1, <2>1, <2>2, WithoutType DEF TypeOK
  <2>4. TypeOK'
    BY <1>1, <2>1, <2>3 DEF TypeOK, Phases, PhaseInv
  <2>5. PhaseInv' /\ ListedInv' /\ OrphanInv'
    BY <1>1, <2>1 DEF PhaseInv, ListedInv, OrphanInv, HasStatus, OlderThan
  <2> QED  BY <2>4, <2>5 DEF ControlInv
<1>10. ASSUME DeleteRow \/ \E h \in Hosts : ExpireRow(h) PROVE ControlInv'
  <2>1. PICK h \in Hosts :
           /\ h \in todo /\ pc \in {"removed", "expire"}
           /\ Store(DeleteResource(rows, h))
           /\ todo' = todo \ {h}
           /\ pc' = IF pc = "removed" THEN "cleanup" ELSE "expire"
           /\ cur' \in {cur, Nothing}
           /\ UNCHANGED <<desired, config, cname, routes, listed, quiet, unwanted, elapsed>>
    BY <1>1, <1>10 DEF DeleteRow, ExpireRow, PhaseInv
  <2>2. rows' \in Rows /\ clean' \in BOOLEAN /\ \A j \in Hosts \ {h} : rows'[j] = rows[j]
    BY <2>1, DeleteKeeps
  <2>3. TypeOK'
    BY <1>1, <2>1, <2>2 DEF TypeOK, Phases, PhaseInv, Rows
  <2>4. PhaseInv' /\ ListedInv'
    BY <1>1, <2>1 DEF PhaseInv, ListedInv, NoRows
  <2>5. OrphanInv'
    BY <1>1, <2>1, <2>2 DEF OrphanInv, PhaseInv, HasStatus, OlderThan
  <2> QED  BY <2>3, <2>4, <2>5 DEF ControlInv
<1>11. ASSUME ListExpired PROVE ControlInv'
  <2>1. todo' \subseteq Hosts /\ \A h \in todo' : HasStatus(rows, h, "orphaned")
    <3>1. ListExpiredOrphans(rows, OrphanTTL) \subseteq Hosts
      BY <1>a DEF Rows, ListOrphanedForCleanup, ListExpiredOrphans
    <3>2. \A h \in ListExpiredOrphans(rows, OrphanTTL) : HasStatus(rows, h, "orphaned")
      BY <1>a DEF Rows, ListOrphanedForCleanup, ListExpiredOrphans
    <3> QED  BY <1>11, <3>1, <3>2 DEF ListExpired
  <2>a. /\ todo' \subseteq Hosts /\ pc' = "expire" /\ clean' \in BOOLEAN
        /\ UNCHANGED <<desired, rows, config, cname, cur, routes, listed, quiet, unwanted, elapsed>>
    BY <1>1, <1>11, <2>1 DEF TypeOK, ListExpired
  <2>2. TypeOK'
    BY <1>1, <2>a DEF TypeOK, Phases
  <2>3. PhaseInv' /\ ListedInv' /\ OrphanInv'
    BY <1>1, <1>11, <2>1 DEF PhaseInv, ListedInv, OrphanInv, ListExpired, HasStatus
  <2> QED  BY <2>2, <2>3 DEF ControlInv
<1>12. ASSUME FinishReconcile PROVE ControlInv'
  <2>1. TypeOK'
    BY <1>1, <1>12, ZeroIsAnAge DEF TypeOK, FinishReconcile, Phases
  <2>2. PhaseInv' /\ ListedInv' /\ OrphanInv'
    BY <1>1, <1>12 DEF PhaseInv, ListedInv, OrphanInv, FinishReconcile
  <2> QED  BY <2>1, <2>2 DEF ControlInv
<1> QED
  BY <1>2, <1>3, <1>4, <1>5, <1>6, <1>7, <1>8, <1>9, <1>10, <1>11, <1>12 DEF Reconciling

(* Time passes in the middle of a cycle as well.                           *)
LEMMA TickControl ==
    ASSUME ControlInv, Tick
    PROVE  ControlInv'
<1>1. TypeOK /\ PhaseInv /\ ListedInv /\ OrphanInv
  BY DEF ControlInv
<1>2. rows \in Rows /\ listed \in Rows
  BY <1>1 DEF TypeOK, Rows
<1>3. rows' = AgeRows(rows, AgeCap) /\ listed' = AgeRows(listed, AgeCap)
      /\ UNCHANGED <<desired, config, cname, pc, cur, todo, routes, quiet, clean>>
  BY DEF Tick
<1>4. elapsed' \in Ages /\ unwanted' \in [Hosts -> Ages]
  BY <1>1, ZeroIsAnAge DEF TypeOK, Tick, Ages, NextAge
<1>5. TypeOK'
  BY <1>1, <1>2, <1>3, <1>4, AgedRows DEF TypeOK, Rows
<1>6. PhaseInv'
  BY <1>1, <1>3, NoRowsType DEF PhaseInv, RoutesOf, AsksFor, NoRows
<1>7. ListedInv'
  BY <1>1, <1>2, <1>3, AgedRows DEF ListedInv
<1>8. OrphanInv'
  <2>1. ASSUME NEW h \in Hosts, HasStatus(rows, h, "orphaned")
        PROVE  /\ HasStatus(rows, h, "orphaned")'
               /\ OlderThan(rows, h, RemoveDelay) => OlderThan(rows, h, RemoveDelay)'
    BY <1>2, <1>3, <2>1, AgedRows, ZeroIsAnAge DEF HasStatus, OlderThan, NextAge
  <2> QED
    BY <1>1, <1>3, <2>1 DEF OrphanInv, PhaseInv, OrphanPasses
<1> QED
  BY <1>5, <1>6, <1>7, <1>8 DEF ControlInv

LEMMA EnvironmentControl == ControlInv /\ Environment => ControlInv'
<1> SUFFICES ASSUME ControlInv, Environment PROVE ControlInv'
  OBVIOUS
<1> USE DEF Pass, AtTunnel, OrphanPasses
<1>1. TypeOK /\ PhaseInv /\ ListedInv /\ OrphanInv
  BY DEF ControlInv
<1>2. ASSUME Crash PROVE ControlInv'
  <2>1. TypeOK'
    BY <1>1, <1>2, NoRowsType, ZeroIsAnAge DEF TypeOK, Crash, Phases, Rows
  <2>2. PhaseInv' /\ ListedInv' /\ OrphanInv'
    BY <1>1, <1>2 DEF PhaseInv, ListedInv, OrphanInv, Crash, NoRows
  <2> QED  BY <2>1, <2>2 DEF ControlInv
<1>3. ASSUME NEW t \in Tunnels, NEW r \in Routes, UserEdits(t, r) PROVE ControlInv'
  <2>1. TypeOK'
    BY <1>1, <1>3 DEF TypeOK, UserEdits
  <2>2. PhaseInv' /\ ListedInv' /\ OrphanInv'
    BY <1>1, <1>3
    DEF PhaseInv, ListedInv, OrphanInv, UserEdits, RoutesOf, AsksFor, HasStatus, OlderThan
  <2> QED  BY <2>1, <2>2 DEF ControlInv
<1>4. ASSUME BecomeQuiet PROVE ControlInv'
  <2>1. TypeOK'
    BY <1>1, <1>4 DEF TypeOK, BecomeQuiet
  <2>2. PhaseInv' /\ ListedInv' /\ OrphanInv'
    BY <1>1, <1>4
    DEF PhaseInv, ListedInv, OrphanInv, BecomeQuiet, RoutesOf, AsksFor, HasStatus, OlderThan
  <2> QED  BY <2>1, <2>2 DEF ControlInv
<1> QED
  BY <1>2, <1>3, <1>4, TickControl DEF Environment

LEMMA ControlInvIsInvariant == Spec => []ControlInv
<1>1. ControlInv /\ [Next]_vars => ControlInv'
  <2> SUFFICES ASSUME ControlInv, [Next]_vars PROVE ControlInv'
    OBVIOUS
  <2>1. CASE UNCHANGED vars
    BY <2>1
    DEF vars, ControlInv, TypeOK, PhaseInv, ListedInv, OrphanInv, RoutesOf, AsksFor,
        HasStatus, OlderThan
  <2> QED
    BY <2>1, ReconcilingControl, EnvironmentControl DEF Next
<1> QED
  BY <1>1, InitControl, PTL DEF Spec

(* A tunnel operation never works on a row, a tunnel or a route that is    *)
(* not there: no write, crash or deletion leaves the memory of the cycle   *)
(* pointing at something the table no longer has.                          *)
THEOREM TypeCorrect == Spec => []TypeOK
<1>1. ControlInv => TypeOK
  BY DEF ControlInv
<1> QED
  BY <1>1, ControlInvIsInvariant, PTL

----------------------------------------------------------------------------
(* Cycles that take time.                                                  *)

(* A row of the list is the row of the table, unless this cycle wrote it,  *)
(* which makes it no older than the cycle.                                 *)
ListIsFresh ==
    \A h \in Hosts : listed[h] # NoRow => rows[h] = listed[h] \/ rows[h].age <= elapsed

(* This cycle wrote the row, or it need not.                               *)
Touched(h) == HasStatus(rows, h, "orphaned") => rows[h].age <= elapsed

(* The cycle will still get to the row of the route's hostname.            *)
Pending(r) ==
    /\ desired[r] # NoSpec
    /\ \/ desired[r].tunnel \in todo
       \/ pc = "cnames" /\ desired[r].tunnel = cur
       \/ pc \in {"failed", "rows"} /\ r \in routes

PassInv ==
    clean /\ pc \in Pass =>
        \A h \in Hosts :
            Wanted(h) => Touched(h) \/ \E r \in Routes : r.host = h /\ Pending(r)

ElapsedInv == elapsed <= CycleTime

CleanupInv ==
    CycleTime <= RemoveDelay /\ clean /\ pc \in {"cleanup", "removed"} =>
        \A h \in todo : ~Wanted(h)

AgeInv ==
    \A h \in Hosts : HasStatus(rows, h, "orphaned") => rows[h].age <= unwanted[h]

TimedInv ==
    ControlInv /\ ListIsFresh /\ PassInv /\ CleanupInv /\ AgeInv /\ ElapsedInv
----------------------------------------------------------------------------
(* The same, step by step.                                                 *)

LEMMA InitTimed == Init => TimedInv
<1> SUFFICES ASSUME Init PROVE TimedInv
  OBVIOUS
<1>1. ControlInv
  BY InitControl
<1> QED
  BY <1>1, TunnelDelaysAreNaturals
  DEF Init, NoRows, TimedInv, ListIsFresh, PassInv, CleanupInv, AgeInv, ElapsedInv, Pass,
      HasStatus

(* Writing rows while the tunnels are reconciled.                          *)
LEMMA WritesTimed ==
    ASSUME TimedInv, ControlInv', pc \in Pass, NEW h \in Hosts, Forgets(h),
           Wrote(h) \/ UNCHANGED <<rows, clean>>,
           UNCHANGED <<desired, config, cname, pc, cur, todo, quiet, unwanted, elapsed>>
    PROVE  /\ ListIsFresh' /\ CleanupInv' /\ AgeInv' /\ ElapsedInv'
           /\ \A j \in Hosts : Touched(j) => Touched(j)'
           /\ Wrote(h) /\ clean' => Touched(h)' /\ clean
<1>1. /\ TypeOK /\ ListedInv /\ ListIsFresh /\ AgeInv
      /\ elapsed \in Nat /\ \A j \in Hosts : unwanted[j] \in Nat
  BY DEF TimedInv, ControlInv, TypeOK, Ages
<1>2. \A j \in Hosts : listed'[j] # NoRow => listed'[j] = listed[j]
  BY <1>1, WritesKeep
<1>3. ASSUME NEW j \in Hosts
      PROVE rows'[j] = rows[j] \/ (rows'[j] # NoRow /\ rows'[j].age = 0)
  BY <1>3 DEF Wrote
<1>4. ListIsFresh'
  BY <1>1, <1>2, <1>3 DEF ListIsFresh
<1>5. AgeInv'
  BY <1>1, <1>3 DEF AgeInv, HasStatus
<1>6. CleanupInv'
  BY DEF CleanupInv, Pass
<1>7. \A j \in Hosts : Touched(j) => Touched(j)'
  BY <1>1, <1>3 DEF Touched, HasStatus
<1>8. Wrote(h) /\ clean' => Touched(h)' /\ clean
  <2> SUFFICES ASSUME Wrote(h), clean' PROVE Touched(h)' /\ clean
    OBVIOUS
  <2>1. rows'[h].age = 0 /\ clean
    BY DEF Wrote
  <2>2. rows'[h].age <= elapsed'
    BY <1>1, <2>1
  <2> QED
    BY <2>1, <2>2 DEF Touched, HasStatus
<1>9. ElapsedInv'
  BY DEF TimedInv, ElapsedInv
<1> QED
  BY <1>4, <1>5, <1>6, <1>7, <1>8, <1>9

LEMMA RouteStepTimed ==
    ASSUME TimedInv, ControlInv', NEW r \in Routes, RecordFailure(r) \/ SaveRoute(r)
    PROVE  TimedInv'
<1>1. /\ ControlInv /\ TypeOK /\ ListIsFresh /\ PassInv
  BY DEF TimedInv, ControlInv
<1>2. /\ r.host \in Hosts /\ Forgets(r.host)
      /\ \/ Wrote(r.host)
         \/ /\ UNCHANGED <<rows, clean>>
            /\ listed[r.host] # NoRow /\ listed[r.host].status = "active"
  BY <1>1, RecordFailureWrites, SaveRouteWrites
<1>3. /\ pc \in {"failed", "rows"} /\ pc \in Pass
      /\ routes' = routes \ {r}
      /\ UNCHANGED <<desired, config, cname, pc, cur, todo, quiet, unwanted, elapsed>>
  BY DEF RecordFailure, SaveRoute, Pass
<1>4. /\ ListIsFresh' /\ CleanupInv' /\ AgeInv' /\ ElapsedInv'
      /\ \A j \in Hosts : Touched(j) => Touched(j)'
      /\ Wrote(r.host) /\ clean' => Touched(r.host)' /\ clean
  BY <1>2, <1>3, WritesTimed
<1>5. clean' => Touched(r.host)' /\ clean
  <2>1. CASE Wrote(r.host)
    BY <1>4, <2>1
  <2>2. CASE /\ UNCHANGED <<rows, clean>>
             /\ listed[r.host] # NoRow /\ listed[r.host].status = "active"
    BY <1>1, <1>2, <1>3, <2>2 DEF ListIsFresh, Touched, HasStatus
  <2> QED
    BY <1>2, <2>1, <2>2
<1>6. ASSUME NEW q \in Routes, Pending(q), q # r PROVE Pending(q)'
  BY <1>3, <1>6 DEF Pending
<1>7. PassInv'
  <2> SUFFICES ASSUME clean', NEW h \in Hosts, Wanted(h)
               PROVE  Touched(h)' \/ \E q \in Routes : q.host = h /\ Pending(q)'
    BY <1>3 DEF PassInv, Wanted
  <2>1. clean
    BY <1>5
  <2>2. Touched(h) \/ \E q \in Routes : q.host = h /\ Pending(q)
    BY <1>1, <1>3, <2>1 DEF PassInv
  <2> QED
    BY <1>4, <1>5, <1>6, <2>2
<1> QED
  BY <1>4, <1>7 DEF TimedInv

LEMMA MarkOrphanedTimed ==
    ASSUME TimedInv, ControlInv', NEW h \in Hosts, MarkOrphaned(h)
    PROVE  TimedInv'
<1>1. ControlInv /\ PassInv
  BY DEF TimedInv
<1>2. /\ Forgets(h) /\ (Wrote(h) \/ UNCHANGED <<rows, clean>>)
      /\ pc \in Pass
      /\ UNCHANGED <<desired, config, cname, pc, cur, todo, routes, quiet, unwanted, elapsed>>
  BY <1>1, MarkOrphanedWrites DEF Forgets, MarkOrphaned, Remaining, Pass
<1>3. /\ ListIsFresh' /\ CleanupInv' /\ AgeInv' /\ ElapsedInv'
      /\ \A j \in Hosts : Touched(j) => Touched(j)'
      /\ Wrote(h) /\ clean' => Touched(h)' /\ clean
  BY <1>2, WritesTimed
<1>4. PassInv'
  <2>1. clean' => clean
    BY <1>2, <1>3
  <2>2. \A q : Pending(q) => Pending(q)'
    BY <1>2 DEF Pending
  <2>3. \A j \in Hosts : Wanted(j)' => Wanted(j)
    BY <1>2 DEF Wanted
  <2> QED
    BY <1>1, <1>2, <1>3, <2>1, <2>2, <2>3 DEF PassInv
<1> QED
  BY <1>3, <1>4 DEF TimedInv

(* A step of the goroutine that writes nothing.                            *)
LEMMA SilentStepTimed ==
    ASSUME TimedInv, ControlInv', UNCHANGED <<rows, listed, unwanted, elapsed>>
    PROVE  ListIsFresh' /\ AgeInv' /\ ElapsedInv' /\ \A h \in Hosts : Touched(h)' = Touched(h)
BY DEF TimedInv, ListIsFresh, AgeInv, ElapsedInv, Touched, HasStatus

LEMMA ReconcilingTimed == TimedInv /\ Reconciling => TimedInv'
<1> SUFFICES ASSUME TimedInv, Reconciling PROVE TimedInv'
  OBVIOUS
<1> USE DEF Pass, AtTunnel, OrphanPasses
<1>1. /\ ControlInv /\ ControlInv' /\ TypeOK /\ PhaseInv
      /\ ListIsFresh /\ PassInv /\ CleanupInv /\ AgeInv /\ ElapsedInv
  BY ReconcilingControl DEF TimedInv, ControlInv
<1>2. ASSUME NEW view \in Views, StartReconcile(view) PROVE TimedInv'
  <2>1. ListIsFresh' /\ CleanupInv' /\ AgeInv' /\ ElapsedInv'
    BY <1>1, <1>2
    DEF StartReconcile, ListIsFresh, CleanupInv, AgeInv, ElapsedInv, HasStatus
  <2>2. PassInv'
    <3> SUFFICES ASSUME clean', NEW r \in Routes, view[r] # NoSpec
                 PROVE  Pending(r)'
      BY <1>2 DEF PassInv, Wanted, StartReconcile
    <3>1. todo' = {t \in Tunnels : AsksFor(view, t) # {}} /\ desired' = view
      BY <1>2 DEF StartReconcile
    <3>2. view[r].tunnel \in Tunnels /\ r \in AsksFor(view, view[r].tunnel)
      BY DEF Views, Specs, AsksFor
    <3> QED
      BY <3>1, <3>2 DEF Pending
  <2> QED  BY <1>1, <2>1, <2>2 DEF TimedInv
<1>3. ASSUME NEW t \in Tunnels, PushConfig(t) \/ PushFails(t) PROVE TimedInv'
  <2>1. /\ pc = "tunnels" /\ pc' \in {"cnames", "failed"}
        /\ cur' = t /\ todo' = todo \ {t} /\ routes' = RoutesOf(t)
        /\ UNCHANGED <<desired, rows, listed, clean, unwanted, elapsed>>
    BY <1>3 DEF PushConfig, PushFails
  <2>2. ListIsFresh' /\ AgeInv' /\ ElapsedInv' /\ \A h \in Hosts : Touched(h)' = Touched(h)
    BY <1>1, <2>1, SilentStepTimed
  <2>3. ASSUME NEW r \in Routes, Pending(r) PROVE Pending(r)'
    BY <2>1, <2>3 DEF Pending, RoutesOf, AsksFor
  <2>4. PassInv' /\ CleanupInv'
    BY <1>1, <2>1, <2>2, <2>3 DEF PassInv, CleanupInv, Wanted
  <2> QED  BY <1>1, <2>2, <2>4 DEF TimedInv
<1>4. ASSUME NEW r \in Routes, RecordFailure(r) \/ SaveRoute(r) PROVE TimedInv'
  BY <1>1, <1>4, RouteStepTimed
<1>5. ASSUME NEW r \in Routes, EnsureCNAME(r) PROVE TimedInv'
  <2>1. /\ pc = "cnames"
        /\ UNCHANGED <<desired, rows, pc, cur, todo, listed, clean, unwanted, elapsed>>
    BY <1>5 DEF EnsureCNAME
  <2>2. ListIsFresh' /\ AgeInv' /\ ElapsedInv' /\ \A h \in Hosts : Touched(h)' = Touched(h)
    BY <1>1, <2>1, SilentStepTimed
  <2>3. ASSUME NEW q \in Routes, Pending(q) PROVE Pending(q)'
    BY <2>1, <2>3 DEF Pending
  <2>4. PassInv' /\ CleanupInv'
    BY <1>1, <2>1, <2>2, <2>3 DEF PassInv, CleanupInv, Wanted
  <2> QED  BY <1>1, <2>2, <2>4 DEF TimedInv
<1>6. ASSUME EndFailure \/ EndCNAMEs \/ EndRows \/ EndRest PROVE TimedInv'
  <2>1. /\ pc \in AtTunnel /\ pc' \in Pass
        /\ UNCHANGED <<desired, rows, todo, listed, clean, unwanted, elapsed>>
    BY <1>6 DEF EndFailure, EndCNAMEs, EndRows, EndRest
  <2>2. ListIsFresh' /\ AgeInv' /\ ElapsedInv' /\ \A h \in Hosts : Touched(h)' = Touched(h)
    BY <1>1, <2>1, SilentStepTimed
  <2>3. ASSUME NEW r \in Routes, Pending(r) PROVE Pending(r)'
    BY <1>6, <2>1, <2>3
    DEF Pending, RoutesOf, AsksFor, EndFailure, EndCNAMEs, EndRows, EndRest
  <2>4. PassInv' /\ CleanupInv'
    BY <1>1, <2>1, <2>2, <2>3 DEF PassInv, CleanupInv, Wanted
  <2> QED  BY <1>1, <2>2, <2>4 DEF TimedInv
<1>7. ASSUME NEW h \in Hosts, MarkOrphaned(h) PROVE TimedInv'
  BY <1>1, <1>7, MarkOrphanedTimed
<1>8. ASSUME ListForCleanup PROVE TimedInv'
  <2>1. /\ pc = "tunnels" /\ todo = {} /\ pc' = "cleanup" /\ clean' \in {clean, FALSE}
        /\ UNCHANGED <<desired, rows, listed, elapsed>>
        /\ unwanted' = [h \in Hosts |-> IF clean /\ Wanted(h) THEN elapsed ELSE unwanted[h]]
    BY <1>8 DEF ListForCleanup
  <2>2. ASSUME clean, NEW h \in Hosts, Wanted(h) PROVE Touched(h)
    BY <1>1, <2>1, <2>2 DEF PassInv, Pending
  <2>3. CleanupInv'
    <3> SUFFICES ASSUME CycleTime <= RemoveDelay, clean', NEW h \in todo' PROVE ~Wanted(h)
      BY <2>1 DEF CleanupInv, Wanted
    <3>1. h \in Hosts /\ HasStatus(rows, h, "orphaned") /\ rows[h].age > RemoveDelay
      BY <1>1, <2>1 DEF ControlInv, PhaseInv, OrphanInv, HasStatus, OlderThan
    <3>2. ~(rows[h].age <= elapsed)
      <4>1. rows[h].age \in Nat /\ elapsed \in Nat
        BY <1>1, <3>1 DEF TypeOK, HasStatus, Row, Ages
      <4> QED
        BY <1>1, <3>1, <4>1, TunnelDelaysAreNaturals DEF ElapsedInv
    <3> QED
      BY <2>1, <2>2, <3>1, <3>2 DEF Touched
  <2>4. AgeInv'
    <3> SUFFICES ASSUME NEW h \in Hosts, HasStatus(rows, h, "orphaned")
                 PROVE  rows[h].age <= unwanted'[h]
      BY <2>1 DEF AgeInv, HasStatus
    <3>1. rows[h].age <= unwanted[h]
      BY <1>1 DEF AgeInv
    <3>2. clean /\ Wanted(h) => rows[h].age <= elapsed
      BY <2>2 DEF Touched
    <3> QED
      BY <2>1, <3>1, <3>2
  <2>5. ListIsFresh' /\ PassInv' /\ ElapsedInv'
    BY <1>1, <2>1 DEF ListIsFresh, PassInv, ElapsedInv
  <2> QED  BY <1>1, <2>3, <2>4, <2>5 DEF TimedInv
<1>9. ASSUME NEW h \in Hosts, RemoveIngressRule(h) \/ RemoveFails(h) PROVE TimedInv'
  <2>1. /\ pc = "cleanup" /\ pc' \in {"cleanup", "removed"}
        /\ todo' \subseteq todo
        /\ UNCHANGED <<desired, rows, listed, clean, unwanted, elapsed>>
    BY <1>9 DEF RemoveIngressRule, RemoveFails
  <2>2. ListIsFresh' /\ AgeInv' /\ ElapsedInv'
    BY <1>1, <2>1, SilentStepTimed
  <2>3. PassInv' /\ CleanupInv'
    BY <1>1, <2>1 DEF PassInv, CleanupInv, Wanted
  <2> QED  BY <1>1, <2>2, <2>3 DEF TimedInv
<1>10. ASSUME DeleteRow \/ \E h \in Hosts : ExpireRow(h) PROVE TimedInv'
  <2>1. PICK h \in Hosts :
           /\ pc \in {"removed", "expire"}
           /\ Store(DeleteResource(rows, h))
           /\ todo' = todo \ {h}
           /\ pc' = IF pc = "removed" THEN "cleanup" ELSE "expire"
           /\ UNCHANGED <<desired, listed, unwanted, elapsed>>
    BY <1>1, <1>10 DEF DeleteRow, ExpireRow, PhaseInv
  <2>2. /\ \A j \in Hosts \ {h} : rows'[j] = rows[j]
        /\ rows'[h] = NoRow \/ rows' = rows
        /\ clean' => clean
    BY <1>1, <2>1, DeleteKeeps
  <2>3. ListIsFresh' /\ ElapsedInv'
    BY <1>1, <2>1 DEF PhaseInv, ListIsFresh, ElapsedInv, NoRows
  <2>4. AgeInv'
    BY <1>1, <2>1, <2>2 DEF AgeInv, HasStatus
  <2>5. PassInv' /\ CleanupInv'
    BY <1>1, <2>1, <2>2 DEF PassInv, CleanupInv, Wanted
  <2> QED  BY <1>1, <2>3, <2>4, <2>5 DEF TimedInv
<1>11. ASSUME ListExpired \/ FinishReconcile PROVE TimedInv'
  <2>1. /\ pc \in {"cleanup", "expire"} /\ pc' \in {"expire", "idle"}
        /\ elapsed' \in {elapsed, 0}
        /\ UNCHANGED <<rows, listed, unwanted>>
    BY <1>11 DEF ListExpired, FinishReconcile
  <2>2. listed = NoRows
    BY <1>1, <2>1 DEF PhaseInv
  <2>3. ListIsFresh' /\ AgeInv' /\ ElapsedInv'
    BY <1>1, <2>1, <2>2, TunnelDelaysAreNaturals
    DEF ListIsFresh, AgeInv, ElapsedInv, HasStatus, NoRows
  <2>4. PassInv' /\ CleanupInv'
    BY <2>1 DEF PassInv, CleanupInv
  <2> QED  BY <1>1, <2>3, <2>4 DEF TimedInv
<1> QED
  BY <1>2, <1>3, <1>4, <1>5, <1>6, <1>7, <1>8, <1>9, <1>10, <1>11 DEF Reconciling

LEMMA EnvironmentTimed ==
    ASSUME TimedInv, Environment
    PROVE  TimedInv'
<1> USE DEF Pass, AtTunnel, OrphanPasses
<1>1. /\ ControlInv /\ ControlInv' /\ TypeOK /\ PhaseInv
      /\ ListIsFresh /\ PassInv /\ CleanupInv /\ AgeInv /\ ElapsedInv
  BY EnvironmentControl DEF TimedInv, ControlInv
<1>2. ASSUME Crash PROVE TimedInv'
  BY <1>1, <1>2, TunnelDelaysAreNaturals
  DEF Crash, NoRows, TimedInv, ListIsFresh, PassInv, CleanupInv, AgeInv, ElapsedInv, HasStatus
<1>3. ASSUME BecomeQuiet \/ \E t \in Tunnels, r \in Routes : UserEdits(t, r)
      PROVE  TimedInv'
  <2>1. UNCHANGED <<desired, rows, pc, cur, todo, routes, listed, clean, unwanted, elapsed>>
    BY <1>3 DEF BecomeQuiet, UserEdits
  <2>2. ListIsFresh' /\ AgeInv' /\ ElapsedInv' /\ \A h \in Hosts : Touched(h)' = Touched(h)
    BY <1>1, <2>1, SilentStepTimed
  <2>3. PassInv' /\ CleanupInv'
    BY <1>1, <2>1, <2>2 DEF PassInv, CleanupInv, Wanted, Pending
  <2> QED  BY <1>1, <2>2, <2>3 DEF TimedInv
<1>4. ASSUME Tick PROVE TimedInv'
  <2>1. /\ rows' = AgeRows(rows, AgeCap) /\ listed' = AgeRows(listed, AgeCap)
        /\ unwanted' = [h \in Hosts |-> NextAge(unwanted[h], AgeCap)]
        /\ \/ pc = "idle" /\ elapsed' = elapsed
           \/ pc # "idle" /\ elapsed < CycleTime /\ elapsed' = NextAge(elapsed, AgeCap)
        /\ UNCHANGED <<desired, pc, cur, todo, routes, clean>>
    BY <1>4 DEF Tick
  <2>2. /\ rows \in Rows /\ listed \in Rows /\ elapsed \in 0 .. AgeCap
        /\ \A h \in Hosts : unwanted[h] \in 0 .. AgeCap
    BY <1>1 DEF TypeOK, Rows, Ages
  <2>3. ASSUME NEW h \in Hosts, rows[h] # NoRow
        PROVE  /\ rows'[h] # NoRow /\ rows'[h].status = rows[h].status
               /\ rows[h].age \in 0 .. AgeCap
               /\ rows'[h].age = NextAge(rows[h].age, AgeCap)
    BY <2>1, <2>2, <2>3, AgedRows
  <2>4. \A i, j \in 0 .. AgeCap : i <= j => NextAge(i, AgeCap) <= NextAge(j, AgeCap)
    BY ZeroIsAnAge DEF NextAge
  <2>5. \A h \in Hosts : HasStatus(rows, h, "orphaned")' <=> HasStatus(rows, h, "orphaned")
    <3>1. \A h \in Hosts : rows[h] = NoRow => rows'[h] = NoRow
      BY <2>1, <2>2, AgedRows
    <3> QED
      BY <2>3, <3>1 DEF HasStatus
  <2>6. AgeInv'
    <3> SUFFICES ASSUME NEW h \in Hosts, HasStatus(rows, h, "orphaned")
                 PROVE  rows'[h].age <= unwanted'[h]
      BY <2>5 DEF AgeInv
    <3>1. rows[h] # NoRow /\ rows[h].age <= unwanted[h]
      BY <1>1 DEF AgeInv, HasStatus
    <3> QED
      BY <2>1, <2>2, <2>3, <2>4, <3>1
  <2>7. ElapsedInv'
    BY <1>1, <2>1, <2>2, TunnelDelaysAreNaturals, ZeroIsAnAge DEF ElapsedInv, NextAge
  <2>8. ASSUME pc \in Pass, NEW h \in Hosts, rows[h] # NoRow, rows[h].age <= elapsed
        PROVE  rows'[h].age <= elapsed'
    BY <2>1, <2>2, <2>3, <2>4, <2>8
  <2>9. ListIsFresh'
    <3> SUFFICES ASSUME NEW h \in Hosts, listed'[h] # NoRow
                 PROVE  rows'[h] = listed'[h] \/ rows'[h].age <= elapsed'
      BY DEF ListIsFresh
    <3>1. listed[h] # NoRow
      BY <2>1, <2>2, AgedRows
    <3>2. pc \in Pass /\ rows[h] # NoRow
      BY <1>1, <3>1 DEF PhaseInv, NoRows, ControlInv, ListedInv
    <3>3. CASE rows[h] = listed[h]
      BY <2>1, <2>2, <3>3 DEF AgeRows, Rows
    <3>4. CASE rows[h].age <= elapsed
      BY <2>8, <3>2, <3>4
    <3> QED
      BY <1>1, <3>1, <3>3, <3>4 DEF ListIsFresh
  <2>10. PassInv'
    <3>1. \A h \in Hosts : pc \in Pass /\ Touched(h) => Touched(h)'
      BY <2>5, <2>8 DEF Touched, HasStatus
    <3> QED
      BY <1>1, <2>1, <3>1 DEF PassInv, Wanted, Pending
  <2>11. CleanupInv'
    BY <1>1, <2>1 DEF CleanupInv, Wanted
  <2> QED
    BY <1>1, <2>6, <2>7, <2>9, <2>10, <2>11 DEF TimedInv
<1> QED
  BY <1>2, <1>3, <1>4 DEF Environment

LEMMA TimedInvIsInvariant == Spec => []TimedInv
<1>1. TimedInv /\ [Next]_vars => TimedInv'
  <2> SUFFICES ASSUME TimedInv, [Next]_vars PROVE TimedInv'
    OBVIOUS
  <2>1. CASE UNCHANGED vars
    BY <2>1
    DEF vars, TimedInv, ControlInv, TypeOK, PhaseInv, ListedInv, OrphanInv,
        ListIsFresh, PassInv, CleanupInv, AgeInv, ElapsedInv, Touched, Pending, Wanted,
        RoutesOf, AsksFor, HasStatus, OlderThan
  <2> QED
    BY <2>1, ReconcilingTimed, EnvironmentTimed DEF Next
<1> QED
  BY <1>1, InitTimed, PTL DEF Spec

(* Unless a cycle takes longer than remove_delay, the cleanup takes no     *)
(* hostname out of a configuration that the same cycle wants there,        *)
(* whichever call failed, wherever the process stopped and whatever        *)
(* anybody edited.                                                         *)
THEOREM OnlyUnwantedRemovedHolds ==
    ASSUME CycleTime <= RemoveDelay
    PROVE  Spec => OnlyUnwantedRemoved
<1>1. TimedInv =>
        [\A h \in Hosts : clean /\ RemoveIngressRule(h) => ~Wanted(h)]_vars
  BY DEF TimedInv, CleanupInv, RemoveIngressRule
<1> QED
  BY <1>1, TimedInvIsInvariant, PTL DEF OnlyUnwantedRemoved

(* However long cycles take, a hostname's rules go only when the last      *)
(* labels in which a clean cycle saw it are older than remove_delay.       *)
THEOREM GraceRespectedHolds == Spec => GraceRespected
<1>1. TimedInv =>
        [\A h \in Hosts : RemoveIngressRule(h) => unwanted[h] > RemoveDelay]_vars
  <2> SUFFICES ASSUME TimedInv, NEW h \in Hosts, RemoveIngressRule(h)
               PROVE  unwanted[h] > RemoveDelay
    OBVIOUS
  <2>1. /\ HasStatus(rows, h, "orphaned") /\ rows[h].age > RemoveDelay
        /\ rows[h].age \in Nat /\ unwanted[h] \in Nat
    <3>1. rows[h] \in Row \cup {NoRow} /\ unwanted[h] \in Ages
      BY DEF TimedInv, ControlInv, TypeOK
    <3> QED
      BY <3>1
      DEF TimedInv, ControlInv, OrphanInv, OrphanPasses, RemoveIngressRule,
          HasStatus, OlderThan, Row, Ages
  <2>2. rows[h].age <= unwanted[h]
    BY <2>1 DEF TimedInv, AgeInv
  <2> QED
    BY <2>1, <2>2, TunnelDelaysAreNaturals
<1> QED
  BY <1>1, TimedInvIsInvariant, PTL DEF GraceRespected

----------------------------------------------------------------------------
(* What the table says when a cycle ends.                                  *)

(* Until the pass comes to it, a row is the row of the list; what it has   *)
(* dealt with is settled.  While the rows of a tunnel are written, its     *)
(* configuration is the one just pushed.                                   *)
SettledInv ==
    /\ pc \in {"cnames", "rows"} => config[cur] = IngressOf(cur)
    /\ clean => \A h \in Hosts : Settled(h) \/ (pc \in Pass /\ rows[h] = listed[h])

(* A row that names a route whose rule has just been pushed.               *)
LEMMA PushedIsServed ==
    ASSUME cur \in Tunnels, NEW r \in Routes, r \in RoutesOf(cur),
           config[cur] = IngressOf(cur), UNCHANGED <<desired, config>>,
           rows'[r.host].tunnel = cur, rows'[r.host].path = r.path
    PROVE  Served(r.host)'
<1>1. [host |-> r.host, path |-> r.path] = r
  BY DEF Routes
<1>2. desired[r] # NoSpec /\ desired[r].tunnel = cur /\ config[cur][r] = desired[r].service
  BY DEF RoutesOf, AsksFor, IngressOf
<1> QED
  BY <1>1, <1>2 DEF Served

(* A step of the pass deals with one hostname.                             *)
LEMMA VisitSettles ==
    ASSUME SettledInv, pc \in Pass, pc' = pc, NEW h \in Hosts,
           UNCHANGED <<desired, config, cur>>, clean' => clean,
           \A j \in Hosts \ {h} : rows'[j] = rows[j] /\ listed'[j] = listed[j],
           clean' => Settled(h)' \/ rows'[h] = listed'[h]
    PROVE  SettledInv'
<1>1. ASSUME NEW j \in Hosts \ {h}, Settled(j) PROVE Settled(j)'
  BY <1>1 DEF Settled, Served, Wanted
<1> QED
  BY <1>1 DEF SettledInv, IngressOf, RoutesOf, AsksFor

LEMMA RecordFailureSettles ==
    ASSUME ControlInv, SettledInv, NEW r \in Routes, RecordFailure(r)
    PROVE  SettledInv'
<1> USE DEF Pass, AtTunnel
<1>1. /\ r.host \in Hosts /\ cur \in Tunnels /\ r \in RoutesOf(cur) /\ Wanted(r.host)
      /\ rows \in Rows /\ clean \in BOOLEAN /\ listed \in Rows
      /\ TypeOK /\ "error" \in Statuses /\ pc = "failed" /\ pc' = pc
      /\ UNCHANGED <<desired, config, cur>>
  BY DEF ControlInv, TypeOK, PhaseInv, RecordFailure, Routes, RoutesOf, AsksFor, Wanted,
         Statuses, Rows
<1>2. \A j \in Hosts \ {r.host} : listed'[j] = listed[j]
  BY <1>1 DEF RecordFailure, Forget, Rows
<1>3. /\ \A j \in Hosts \ {r.host} : rows'[j] = rows[j]
      /\ clean' => clean /\ rows'[r.host] # NoRow /\ rows'[r.host].status = "error"
  <2>1. CASE Known(r)
    <3>1. rows[r.host] # NoRow
      BY <1>1, <2>1 DEF ControlInv, ListedInv, Known
    <3>2. Store(UpdateResourceStatus(rows, r.host, "error"))
      BY <2>1 DEF RecordFailure, UpdateResourceError
    <3> QED
      BY <1>1, <3>1, <3>2, MarkedRow DEF Store
  <2>2. CASE ~Known(r)
    <3>1. RowOf(r, "error") \in Row /\ RowOf(r, "error").status = "error"
      BY <1>1, RowOfType DEF RowOf
    <3>2. Store(SaveResource(rows, r.host, RowOf(r, "error")))
      BY <2>2 DEF RecordFailure
    <3> QED
      BY <1>1, <3>1, <3>2, SavedRow DEF Store
  <2> QED  BY <2>1, <2>2
<1>4. clean' => Settled(r.host)'
  BY <1>1, <1>3 DEF Settled, Wanted
<1> QED
  BY <1>1, <1>2, <1>3, <1>4, VisitSettles

LEMMA SaveRouteSettles ==
    ASSUME ControlInv, SettledInv, NEW r \in Routes, SaveRoute(r)
    PROVE  SettledInv'
<1> USE DEF Pass, AtTunnel
<1>1. /\ r.host \in Hosts /\ cur \in Tunnels /\ r \in RoutesOf(cur)
      /\ rows \in Rows /\ clean \in BOOLEAN /\ listed \in Rows
      /\ TypeOK /\ "active" \in Statuses /\ pc = "rows" /\ pc' = pc
      /\ UNCHANGED <<desired, config, cur>>
      /\ config[cur] = IngressOf(cur)
  BY DEF ControlInv, TypeOK, PhaseInv, SaveRoute, Routes, SettledInv, Statuses, Rows
<1>2. \A j \in Hosts \ {r.host} : listed'[j] = listed[j]
  BY <1>1 DEF SaveRoute, Forget, Rows
(* The row that is saved names the route in the tunnel.                    *)
<1>3. ASSUME NEW row \in Row, row.status = "active", row.tunnel = cur, row.path = r.path,
             Store(SaveResource(rows, r.host, row))
      PROVE  SettledInv'
  <2>1. /\ \A j \in Hosts \ {r.host} : rows'[j] = rows[j]
        /\ clean' => /\ clean /\ rows'[r.host] # NoRow
                     /\ rows'[r.host].status = "active"
                     /\ rows'[r.host].tunnel = cur /\ rows'[r.host].path = r.path
    BY <1>1, <1>3, SavedRow DEF Store
  <2>2. clean' => Settled(r.host)'
    BY <1>1, <2>1, PushedIsServed DEF Settled
  <2> QED
    BY <1>1, <1>2, <2>1, <2>2, VisitSettles
<1>4. CASE Known(r) /\ Dirty(r)
  <2> DEFINE kept == [listed[r.host] EXCEPT !.cleanup = desired[r].cleanup]
             row == [listed[r.host] EXCEPT !.cleanup = desired[r].cleanup,
                                           !.status = "active"]
  <2>1. /\ listed[r.host] \in Row /\ desired[r] \in Specs
        /\ listed[r.host].tunnel = cur /\ listed[r.host].path = r.path
    BY <1>1, <1>4 DEF TypeOK, Known, Views, RoutesOf, AsksFor
  <2>2. kept \in Row /\ kept.tunnel = cur /\ kept.path = r.path
    BY <2>1, CleanupType DEF Row
  <2>3. row = [kept EXCEPT !.status = "active"]
    BY <2>1 DEF Row
  <2>4. row \in Row /\ row.status = "active" /\ row.tunnel = cur /\ row.path = r.path
    <3> HIDE DEF kept, row
    <3> QED  BY <1>1, <2>2, <2>3 DEF Row
  <2>5. Store(SaveResource(rows, r.host, row))
    BY <1>4 DEF SaveRoute
  <2> HIDE DEF row
  <2> QED
    BY <1>3, <2>4, <2>5
(* It is there already, or another row was written over it in this cycle.  *)
<1>5. CASE Known(r) /\ ~Dirty(r)
  <2>1. UNCHANGED <<rows, clean>>
    BY <1>5 DEF SaveRoute
  <2>2. CASE Settled(r.host)
    <3>1. Settled(r.host)'
      BY <1>1, <2>1, <2>2 DEF Settled, Served, Wanted
    <3> QED
      BY <1>1, <1>2, <2>1, <3>1, VisitSettles
  <2>3. CASE rows[r.host] = listed[r.host]
    <3>1. /\ rows'[r.host] # NoRow /\ rows'[r.host].status = "active"
          /\ rows'[r.host].tunnel = cur /\ rows'[r.host].path = r.path
      BY <1>5, <2>1, <2>3 DEF Known, Dirty
    <3>2. Settled(r.host)'
      BY <1>1, <3>1, PushedIsServed DEF Settled
    <3> QED
      BY <1>1, <1>2, <2>1, <3>2, VisitSettles
  <2>4. clean => Settled(r.host) \/ rows[r.host] = listed[r.host]
    BY <1>1 DEF SettledInv
  <2>5. CASE ~clean
    BY <1>1, <1>2, <2>1, <2>5, VisitSettles
  <2> QED
    BY <2>2, <2>3, <2>4, <2>5
<1>6. CASE ~Known(r)
  <2>1. RowOf(r, "active") \in Row
    BY <1>1, RowOfType
  <2>2. /\ RowOf(r, "active").status = "active" /\ RowOf(r, "active").tunnel = cur
        /\ RowOf(r, "active").path = r.path
    BY DEF RowOf
  <2>3. Store(SaveResource(rows, r.host, RowOf(r, "active")))
    BY <1>6 DEF SaveRoute
  <2> QED
    BY <1>3, <2>1, <2>2, <2>3
<1> QED
  BY <1>4, <1>5, <1>6

LEMMA MarkOrphanedSettles ==
    ASSUME ControlInv, SettledInv, NEW h \in Hosts, MarkOrphaned(h)
    PROVE  SettledInv'
<1> USE DEF Pass
<1>1. /\ TypeOK /\ "orphaned" \in Statuses /\ listed[h] # NoRow /\ rows[h] # NoRow
      /\ rows \in Rows /\ listed \in Rows /\ pc \in Pass /\ pc' = pc
      /\ UNCHANGED <<desired, config, cur>>
      /\ \A j \in Hosts \ {h} : listed'[j] = listed[j]
  BY DEF ControlInv, ListedInv, Statuses, MarkOrphaned, Remaining, TypeOK, Rows, Forget
<1>2. CASE listed[h].status = "orphaned"
  <2>1. UNCHANGED <<rows, clean>>
    BY <1>2 DEF MarkOrphaned
  <2>2. clean => Settled(h)
    BY <1>2 DEF SettledInv, Settled
  <2>3. clean' => Settled(h)'
    BY <1>1, <2>1, <2>2 DEF Settled, Served, Wanted
  <2> QED
    BY <1>1, <2>1, <2>3, VisitSettles
<1>3. CASE listed[h].status # "orphaned"
  <2>1. Store(UpdateResourceStatus(rows, h, "orphaned"))
    BY <1>3 DEF MarkOrphaned
  <2>2. /\ \A j \in Hosts \ {h} : rows'[j] = rows[j]
        /\ clean' => clean /\ rows'[h] # NoRow /\ rows'[h].status = "orphaned"
    BY <1>1, <2>1, MarkedRow DEF Store
  <2>3. clean' => Settled(h)'
    BY <2>2 DEF Settled
  <2> QED
    BY <1>1, <2>2, <2>3, VisitSettles
<1> QED
  BY <1>2, <1>3

LEMMA ReconcilingSettles ==
    ControlInv /\ SettledInv /\ Reconciling => SettledInv'
<1> SUFFICES ASSUME ControlInv, SettledInv, Reconciling PROVE SettledInv'
  OBVIOUS
<1> USE DEF Pass, AtTunnel, OrphanPasses
<1>1. /\ TypeOK /\ PhaseInv /\ OrphanInv /\ rows \in Rows /\ clean \in BOOLEAN
      /\ \A h \in Hosts : rows[h] # NoRow => rows[h] \in Row
  BY DEF ControlInv, TypeOK, Rows
<1>2. ASSUME NEW view \in Views, StartReconcile(view) PROVE SettledInv'
  BY <1>2 DEF StartReconcile, SettledInv
<1>3. ASSUME NEW t \in Tunnels, PushConfig(t) \/ PushFails(t) PROVE SettledInv'
  <2>1. /\ pc = "tunnels" /\ pc' \in {"cnames", "failed"} /\ cur' = t
        /\ config' = config \/ config' = [config EXCEPT ![t] = IngressOf(t)]
        /\ pc' = "cnames" => config' = [config EXCEPT ![t] = IngressOf(t)]
        /\ UNCHANGED <<desired, rows, listed, clean>>
    BY <1>3 DEF PushConfig, PushFails
  <2>2. IngressOf(t)' = IngressOf(t)
    BY <2>1 DEF IngressOf, RoutesOf, AsksFor
  <2>3. pc' = "cnames" => config'[t] = IngressOf(t)
    BY <1>1, <2>1 DEF TypeOK
  <2>4. ASSUME NEW h \in Hosts, rows[h] # NoRow, Served(h) PROVE Served(h)'
    <3> DEFINE r == [host |-> h, path |-> rows[h].path]
    <3>1. r \in Routes /\ rows[h].tunnel \in Tunnels
      BY <1>1, <2>4 DEF Routes, Row
    <3>2. desired[r] # NoSpec /\ desired[r].tunnel = rows[h].tunnel
          /\ config[rows[h].tunnel][r] = desired[r].service
      BY <2>4 DEF Served
    <3>3. config'[rows[h].tunnel][r] = desired[r].service
      <4>1. CASE rows[h].tunnel = t /\ config' = [config EXCEPT ![t] = IngressOf(t)]
        <5>1. IngressOf(t)[r] = desired[r].service
          BY <3>1, <3>2, <4>1 DEF IngressOf, RoutesOf, AsksFor
        <5>2. config'[t] = IngressOf(t)
          BY <1>1, <4>1 DEF TypeOK
        <5> QED  BY <4>1, <5>1, <5>2
      <4>2. CASE rows[h].tunnel # t \/ config' = config
        <5>1. config'[rows[h].tunnel] = config[rows[h].tunnel]
          BY <1>1, <2>1, <3>1, <4>2 DEF TypeOK
        <5> QED  BY <3>2, <5>1
      <4> QED  BY <2>1, <4>1, <4>2
    <3> QED
      BY <2>1, <3>2, <3>3 DEF Served
  <2>5. ASSUME NEW h \in Hosts, Settled(h) PROVE Settled(h)'
    BY <2>1, <2>4, <2>5 DEF Settled, Wanted
  <2> QED
    BY <2>1, <2>2, <2>3, <2>5 DEF SettledInv
<1>4. ASSUME NEW r \in Routes, RecordFailure(r) \/ SaveRoute(r) PROVE SettledInv'
  BY <1>4, RecordFailureSettles, SaveRouteSettles
<1>5. ASSUME NEW h \in Hosts, MarkOrphaned(h) PROVE SettledInv'
  BY <1>5, MarkOrphanedSettles
(* A step that leaves labels, table and configurations as they are.        *)
<1>6. ASSUME UNCHANGED <<desired, config, rows, listed>>, clean' => clean,
             pc \in Pass => pc' \in Pass \/ listed = NoRows,
             pc' \in {"cnames", "rows"} => pc \in {"cnames", "rows"} /\ cur' = cur
      PROVE  SettledInv'
  <2>1. ASSUME NEW h \in Hosts, Settled(h) PROVE Settled(h)'
    BY <1>6, <2>1 DEF Settled, Served, Wanted
  <2>2. ASSUME NEW h \in Hosts, listed = NoRows, rows[h] = listed[h] PROVE Settled(h)'
    BY <1>6, <2>2 DEF Settled, NoRows
  <2> QED
    BY <1>6, <2>1, <2>2 DEF SettledInv, IngressOf, RoutesOf, AsksFor
<1>7. CASE \/ \E r \in Routes : EnsureCNAME(r)
           \/ EndFailure \/ EndCNAMEs \/ EndRows \/ EndRest
  BY <1>6, <1>7 DEF EnsureCNAME, EndFailure, EndCNAMEs, EndRows, EndRest
<1>8. CASE ListForCleanup \/ ListExpired \/ FinishReconcile
  BY <1>6, <1>8 DEF ListForCleanup, ListExpired, FinishReconcile
<1>9. ASSUME NEW h \in Hosts, RemoveIngressRule(h) \/ RemoveFails(h) PROVE SettledInv'
  <2>1. /\ pc = "cleanup" /\ h \in todo /\ pc' \notin Pass
        /\ config' = config \/ config' = [config EXCEPT ![rows[h].tunnel] = Without(h)]
        /\ UNCHANGED <<desired, rows, clean>>
    BY <1>9 DEF RemoveIngressRule, RemoveFails
  <2>2. rows[h] # NoRow /\ rows[h].status = "orphaned"
    BY <1>1, <2>1 DEF OrphanInv, HasStatus
  <2>3. ASSUME NEW j \in Hosts \ {h}, rows[j] # NoRow, Served(j) PROVE Served(j)'
    <3> DEFINE r == [host |-> j, path |-> rows[j].path]
    <3>1. r \in Routes /\ r.host # h /\ rows[j].tunnel \in Tunnels
      BY <1>1, <2>3 DEF Routes, Row
    <3>2. Without(h)[r] = config[rows[h].tunnel][r]
      BY <3>1 DEF Without
    <3>3. config'[rows[j].tunnel][r] = config[rows[j].tunnel][r]
      <4>1. CASE rows[j].tunnel = rows[h].tunnel
        BY <1>1, <2>1, <3>1, <3>2, <4>1 DEF TypeOK
      <4>2. CASE rows[j].tunnel # rows[h].tunnel
        BY <1>1, <2>1, <3>1, <4>2 DEF TypeOK
      <4> QED  BY <4>1, <4>2
    <3> QED
      BY <2>1, <2>3, <3>3 DEF Served
  <2>4. ASSUME NEW j \in Hosts, Settled(j) PROVE Settled(j)'
    <3>1. CASE j = h
      BY <2>1, <2>2, <3>1 DEF Settled
    <3>2. CASE j # h
      BY <2>1, <2>3, <2>4, <3>2 DEF Settled, Wanted
    <3> QED  BY <3>1, <3>2
  <2> QED
    BY <2>1, <2>4 DEF SettledInv
<1>10. ASSUME NEW h \in Hosts, (DeleteRow /\ h = cur) \/ ExpireRow(h) PROVE SettledInv'
  <2>1. /\ pc \in OrphanPasses /\ pc' \in OrphanPasses
        /\ UNCHANGED <<desired, config>> /\ Store(DeleteResource(rows, h))
    BY <1>10 DEF DeleteRow, ExpireRow
  <2>2. /\ \A j \in Hosts \ {h} : rows'[j] = rows[j]
        /\ rows'[h] = NoRow \/ rows' = rows
        /\ clean' => clean
    BY <2>1, DeleteKeeps
  <2>3. ASSUME NEW j \in Hosts, Settled(j) PROVE Settled(j)'
    BY <2>1, <2>2, <2>3 DEF Settled, Served, Wanted
  <2> QED
    BY <2>1, <2>2, <2>3 DEF SettledInv
<1>11. DeleteRow => cur \in Hosts
  BY <1>1 DEF DeleteRow, PhaseInv
<1> QED
  BY <1>2, <1>3, <1>4, <1>5, <1>7, <1>8, <1>9, <1>10, <1>11 DEF Reconciling

LEMMA EnvironmentSettles ==
    ASSUME "user" \notin Faults, ControlInv, SettledInv, Environment
    PROVE  SettledInv'
<1>1. CASE Crash
  BY <1>1 DEF Crash, SettledInv
<1>2. CASE Tick
  <2>1. /\ rows' = AgeRows(rows, AgeCap) /\ listed' = AgeRows(listed, AgeCap)
        /\ UNCHANGED <<desired, config, pc, cur, clean>>
    BY <1>2 DEF Tick
  <2>2. rows \in Rows
    BY DEF ControlInv, TypeOK, Rows
  <2>3. \A h \in Hosts :
           /\ rows[h] = NoRow => rows'[h] = NoRow
           /\ rows[h] # NoRow =>
                 /\ rows'[h] # NoRow /\ rows'[h].status = rows[h].status
                 /\ rows'[h].tunnel = rows[h].tunnel /\ rows'[h].path = rows[h].path
    BY <2>1, <2>2, AgedRows
  <2>4. ASSUME NEW h \in Hosts, Settled(h) PROVE Settled(h)'
    BY <2>1, <2>3, <2>4 DEF Settled, Served, Wanted
  <2>5. ASSUME NEW h \in Hosts, rows[h] = listed[h] PROVE rows'[h] = listed'[h]
    <3>1. rows \in [Hosts -> Row \cup {NoRow}] /\ listed \in [Hosts -> Row \cup {NoRow}]
      BY DEF ControlInv, TypeOK
    <3> QED
      BY <2>1, <2>5, <3>1 DEF AgeRows
  <2> QED
    BY <2>1, <2>4, <2>5 DEF SettledInv, IngressOf, RoutesOf, AsksFor
<1>3. CASE BecomeQuiet
  BY <1>3 DEF BecomeQuiet, SettledInv, Settled, Served, Wanted, IngressOf, RoutesOf, AsksFor
<1> QED
  BY <1>1, <1>2, <1>3 DEF Environment, UserEdits, May

(* When a cycle in which SQLite worked ends, whatever Cloudflare answered  *)
(* and however often the process died before: an active row names a route  *)
(* that the labels ask for and the configuration has, in the tunnel the    *)
(* row names, and a row of a hostname nobody asks for is an orphan.        *)
THEOREM CycleSettlesHolds ==
    ASSUME "user" \notin Faults
    PROVE  Spec => []CycleSettles
<1>1. Init => SettledInv
  BY DEF Init, SettledInv
<1>2. ControlInv /\ SettledInv /\ [Next]_vars => SettledInv'
  <2>1. ControlInv /\ SettledInv /\ Next => SettledInv'
    BY ReconcilingSettles, EnvironmentSettles DEF Next
  <2>2. SettledInv /\ UNCHANGED vars => SettledInv'
    BY DEF vars, SettledInv, Settled, Served, Wanted, IngressOf, RoutesOf, AsksFor
  <2> QED
    BY <2>1, <2>2
<1>3. TypeOK /\ SettledInv => CycleSettles
  BY DEF SettledInv, CycleSettles, Pass
<1> QED
  BY <1>1, <1>2, <1>3, ControlInvIsInvariant, TypeCorrect, PTL DEF Spec
=============================================================================

---------------------------- MODULE DNSReconcile ----------------------------
(***************************************************************************)
(* The DNS half of one reconciliation cycle: DNSOperatorImpl.Reconcile     *)
(* (internal/operator/dns/dns.go) followed by the two orphan passes of the *)
(* reconciler (processOrphanedCleanups and cleanupExpiredOrphans).         *)
(*                                                                         *)
(* Every call that leaves the process (Cloudflare, SQLite) is a step of    *)
(* its own wherever a crash or a failure between two calls can be seen     *)
(* afterwards, so that the table and the zone are two pieces of state      *)
(* which a cycle brings in line one write at a time.  A key is what the    *)
(* operator keys its maps by, hostname:type.                               *)
(*                                                                         *)
(* The faults of the environment are those named in Faults, until quiet    *)
(* becomes TRUE:                                                           *)
(*   "api"      a Cloudflare call (or the public IP lookup) fails          *)
(*   "lost"     a Cloudflare call takes effect and the reply is lost       *)
(*   "storage"  a SQLite statement fails                                   *)
(*   "crash"    the process dies and is started again                      *)
(*   "user"     somebody edits the zone from Cloudflare's dashboard        *)
(*   "text404"  a deletion is refused with an error whose text holds "404" *)
(*              somewhere: a zone the token may not see, or an address of  *)
(*              the call (zone and record ids) with these digits           *)
(***************************************************************************)
EXTENDS ResourceStore

CONSTANTS
    Keys,               \* "hostname:type" of the records labels may ask for
    UniqueKeys,         \* the keys of which Cloudflare holds one record (CNAME)
    Targets,            \* values of the target label
    ContainerTarget,    \* the special target "container"
    ContainerIP,        \* the address it stands for
    Agents,             \* where a container runs: an agent id, or
    LocalAgent,         \* the main instance itself (AgentID = "")
    RecordIds,          \* Cloudflare's record ids
    NoId,               \* an empty cf_id
    NoRecord,           \* no record with this id
    NoSpec,             \* no running container asks for the key
    NoKey,              \* no key is being worked on
    RemoveDelay,        \* sync.remove_delay
    OrphanTTL,          \* sync.orphan_ttl, 0 = never
    Faults

FaultKinds == {"api", "lost", "storage", "crash", "user", "text404"}

Contents == (Targets \ {ContainerTarget}) \cup {ContainerIP}

Specs == [target : Targets, cleanup : BOOLEAN, agent : Agents]
Views == [Keys -> Specs \cup {NoSpec}]

(* The ages of rows saturate just above the longer delay.                  *)
AgeCap == 1 + IF RemoveDelay > OrphanTTL THEN RemoveDelay ELSE OrphanTTL
Ages == 0 .. AgeCap

Row == [status  : Statuses,
        cfid    : RecordIds \cup {NoId},
        content : Targets \cup {ContainerIP},
        cleanup : BOOLEAN,
        agent   : Agents,
        age     : Ages]

ZoneRecord == [key : Keys, content : Contents]

ASSUME DelaysAreNaturals == RemoveDelay \in Nat /\ OrphanTTL \in Nat
ASSUME ConstantsAreApart ==
    /\ UniqueKeys \subseteq Keys
    /\ LocalAgent \in Agents
    /\ NoId \notin RecordIds
    /\ NoKey \notin Keys
    /\ NoSpec \notin Specs
    /\ NoRow \notin Row
    /\ NoRecord \notin ZoneRecord
    /\ Faults \subseteq FaultKinds

VARIABLES
    desired,    \* the cycle's snapshot of what the labels ask for
    rows,       \* the managed_resources table
    zone,       \* the records at Cloudflare
    pc,         \* where the reconciler's goroutine is
    todo,       \* the keys the current loop has still to visit
    cur,        \* the key it is in the middle of
    curId,      \* the record id it holds in memory for that key
    quiet,      \* the environment has stopped failing
    clean,      \* since it began, the last cycle saw no storage failure, no crash
    unwanted,   \* ticks since a clean pass last saw the key desired
    mistaken    \* history: keys of which a refused deletion passed for done

vars == <<desired, rows, zone, pc, todo, cur, curId, quiet, clean, unwanted,
          mistaken>>

Phases == {"idle", "dns", "created", "patch", "rollback", "update", "pushed",
           "activate", "cleanup", "deleted", "expire"}

TypeOK ==
    /\ desired \in Views
    /\ rows \in [Keys -> Row \cup {NoRow}]
    /\ zone \in [RecordIds -> ZoneRecord \cup {NoRecord}]
    /\ pc \in Phases
    /\ todo \subseteq Keys
    /\ cur \in Keys \cup {NoKey}
    /\ curId \in RecordIds \cup {NoId}
    /\ quiet \in BOOLEAN
    /\ clean \in BOOLEAN
    /\ unwanted \in [Keys -> Ages]
    /\ mistaken \subseteq Keys

Init ==
    /\ desired = [k \in Keys |-> NoSpec]
    /\ rows = [k \in Keys |-> NoRow]
    /\ zone = [id \in RecordIds |-> NoRecord]
    /\ pc = "idle"
    /\ todo = {}
    /\ cur = NoKey
    /\ curId = NoId
    /\ quiet = FALSE
    /\ clean = FALSE
    /\ unwanted = [k \in Keys |-> 0]
    /\ mistaken = {}

May(fault) == fault \in Faults /\ ~quiet

----------------------------------------------------------------------------
(* Cloudflare, as the code uses it (cloudflare/dns.go and the SDK).        *)

RecordsOf(k) == {id \in RecordIds : zone[id] # NoRecord /\ zone[id].key = k}

(* The "already exists" error of a create.                                 *)
AlreadyExists(k, content) ==
    \E id \in RecordsOf(k) : k \in UniqueKeys \/ zone[id].content = content

(* Cloudflare never gives an id twice; an id nobody remembers is as good   *)
(* as a new one.                                                           *)
FreshIds == {id \in RecordIds : /\ zone[id] = NoRecord
                                /\ \A k \in Keys : rows[k] # NoRow => rows[k].cfid # id}

Publish(id, k, content) ==
    zone' = [zone EXCEPT ![id] = [key |-> k, content |-> content]]

Unpublish(id) == zone' = [zone EXCEPT ![id] = NoRecord]

(* resolveTarget, used by creates; an update passes "container" on as it   *)
(* is, which Cloudflare refuses for an address record.                     *)
Resolve(target) == IF target = ContainerTarget THEN ContainerIP ELSE target
Acceptable(target) == target \in Contents

----------------------------------------------------------------------------
(* Bookkeeping of the loops.                                               *)

Wanted(k) == desired[k] # NoSpec

(* Nobody is in the middle of a key; the loop of this phase goes on.       *)
Rest == cur' = NoKey /\ curId' = NoId
Done(k) == todo' = todo \ {k} /\ Rest

(* A statement that SQLite executes, or one that fails.                    *)
Store(table) ==
    \/ rows' = table /\ UNCHANGED clean
    \/ May("storage") /\ UNCHANGED rows /\ clean' = FALSE

ErrorRow(k) ==
    [status |-> "error", cfid |-> NoId, content |-> desired[k].target,
     cleanup |-> desired[k].cleanup, agent |-> desired[k].agent, age |-> 0]

CreatedRow(k) ==
    [status |-> "active", cfid |-> curId, content |-> Resolve(desired[k].target),
     cleanup |-> desired[k].cleanup, agent |-> LocalAgent, age |-> 0]

(* Mutant: resource.Content is not brought up to date.                     *)
PushedRow_StaleContent(k) ==
    [rows[k] EXCEPT !.cfid = curId, !.cleanup = desired[k].cleanup,
                    !.agent = desired[k].agent]

PushedRow(k) ==
    [rows[k] EXCEPT !.cfid = curId, !.content = desired[k].target,
                    !.cleanup = desired[k].cleanup, !.agent = desired[k].agent]


NeedsUpdate(k) == desired[k].target # rows[k].content

(* Mutant: an orphan whose container came back unchanged is left as it is. *)
MustPush_ContentOnly(k) == NeedsUpdate(k)

(* Errors and orphans are pushed again whatever they contain.              *)
MustPush(k) == rows[k].status # "active" \/ NeedsUpdate(k)

(* The records an update can address: the one in the table, or any of that *)
(* name when the table has lost the id.                                    *)
PushableIds(k) ==
    IF rows[k].cfid = NoId THEN RecordsOf(k)
    ELSE {id \in {rows[k].cfid} : zone[id] # NoRecord}

----------------------------------------------------------------------------
(* DNSOperatorImpl.Reconcile.                                              *)

(* The snapshot and the listing of the table; when the listing fails the   *)
(* operator returns and the cycle goes straight to the orphan passes.      *)
StartReconcile(view) ==
    /\ pc = "idle"
    /\ desired' = view
    /\ pc' = "dns"
    /\ \/ todo' = {k \in Keys : view[k] # NoSpec \/ rows[k] # NoRow} /\ clean' = TRUE
       \/ May("storage") /\ todo' = {} /\ clean' = FALSE
    /\ UNCHANGED <<rows, zone, cur, curId, quiet, unwanted, mistaken>>

Creating(k) == pc = "dns" /\ k \in todo /\ Wanted(k) /\ rows[k] = NoRow

(* CreateDNSRecord up to the reply of the API; an existing record is       *)
(* adopted as it is.                                                       *)
CreateRecord(k) ==
    /\ Creating(k)
    /\ LET content == Resolve(desired[k].target)
       IN  IF AlreadyExists(k, content)
           THEN curId' \in RecordsOf(k) /\ UNCHANGED zone
           ELSE \E id \in FreshIds : curId' = id /\ Publish(id, k, content)
    /\ cur' = k
    /\ pc' = "created"
    /\ UNCHANGED <<desired, rows, todo, quiet, clean, unwanted, mistaken>>

(* Mutant: a record is remembered only when its creation was confirmed.    *)
CreateFails_SavesNothing(k) ==
    /\ Creating(k)
    /\ LET content == Resolve(desired[k].target)
       IN  \/ May("api") /\ UNCHANGED zone
           \/ /\ May("lost") /\ ~AlreadyExists(k, content)
              /\ \E id \in FreshIds : Publish(id, k, content)
    /\ Done(k)
    /\ UNCHANGED <<desired, rows, pc, quiet, clean, unwanted, mistaken>>

(* No record was made, or one was and the reply is lost: the row in status *)
(* error carries no id either way.                                         *)
CreateFails(k) ==
    /\ Creating(k)
    /\ LET content == Resolve(desired[k].target)
       IN  \/ May("api") /\ UNCHANGED zone
           \/ /\ May("lost") /\ ~AlreadyExists(k, content)
              /\ \E id \in FreshIds : Publish(id, k, content)
    /\ Store(SaveResource(rows, k, ErrorRow(k)))
    /\ Done(k)
    /\ UNCHANGED <<desired, pc, quiet, unwanted, mistaken>>

(* The row of a new record is first saved without its agent.               *)
SaveCreated ==
    /\ pc = "created"
    /\ rows' = SaveResource(rows, cur, CreatedRow(cur))
    /\ IF desired[cur].agent = LocalAgent
       THEN pc' = "dns" /\ Done(cur)
       ELSE pc' = "patch" /\ UNCHANGED <<todo, cur, curId>>
    /\ UNCHANGED <<desired, zone, quiet, clean, unwanted, mistaken>>

PatchAgent ==
    /\ pc = "patch"
    /\ Store(SaveResource(rows, cur, [rows[cur] EXCEPT !.agent = desired[cur].agent]))
    /\ pc' = "dns"
    /\ Done(cur)
    /\ UNCHANGED <<desired, zone, quiet, unwanted, mistaken>>

SaveCreatedFails ==
    /\ pc = "created"
    /\ May("storage")
    /\ clean' = FALSE
    /\ pc' = "rollback"
    /\ UNCHANGED <<desired, rows, zone, todo, cur, curId, quiet, unwanted, mistaken>>

(* The record is deleted again, whatever comes of it, and CreateDNSRecord  *)
(* returns the error that Reconcile saves.                                 *)
Rollback ==
    /\ pc = "rollback"
    /\ \/ Unpublish(curId)
       \/ May("api") /\ UNCHANGED zone
    /\ Store(SaveResource(rows, cur, ErrorRow(cur)))
    /\ pc' = "dns"
    /\ Done(cur)
    /\ UNCHANGED <<desired, quiet, unwanted, mistaken>>

(* A key that has a row.  A new agent is recorded first, in memory even    *)
(* when the statement fails.                                               *)
TakeAgent(k) ==
    /\ pc = "dns"
    /\ k \in todo
    /\ Wanted(k)
    /\ rows[k] # NoRow
    /\ IF rows[k].agent = desired[k].agent
       THEN UNCHANGED <<rows, clean>>
       ELSE Store(SaveResource(rows, k, [rows[k] EXCEPT !.agent = desired[k].agent]))
    /\ cur' = k
    /\ pc' = "update"
    /\ UNCHANGED <<desired, zone, todo, curId, quiet, unwanted, mistaken>>

KeepRecord ==
    /\ pc = "update"
    /\ ~MustPush(cur)
    /\ pc' = "dns"
    /\ Done(cur)
    /\ UNCHANGED <<desired, rows, zone, quiet, clean, unwanted, mistaken>>

(* UpdateDNSRecord up to the reply of the API.                             *)
PushRecord ==
    /\ pc = "update"
    /\ MustPush(cur)
    /\ Acceptable(desired[cur].target)
    /\ \E id \in PushableIds(cur) :
          /\ Publish(id, cur, desired[cur].target)
          /\ curId' = id
    /\ pc' = "pushed"
    /\ UNCHANGED <<desired, rows, todo, cur, quiet, clean, unwanted, mistaken>>

PushFails ==
    /\ pc = "update"
    /\ MustPush(cur)
    /\ \/ /\ May("api") \/ PushableIds(cur) = {} \/ ~Acceptable(desired[cur].target)
          /\ UNCHANGED zone
       \/ /\ May("lost") /\ Acceptable(desired[cur].target)
          /\ \E id \in PushableIds(cur) : Publish(id, cur, desired[cur].target)
    /\ Store(UpdateResourceError(rows, cur, "error"))
    /\ pc' = "dns"
    /\ Done(cur)
    /\ UNCHANGED <<desired, quiet, unwanted, mistaken>>

(* The row is saved with the status it was read with; a second statement   *)
(* makes it active.                                                        *)
SavePushed ==
    /\ pc = "pushed"
    /\ rows' = SaveResource(rows, cur, PushedRow(cur))
    /\ IF rows[cur].status = "active"
       THEN pc' = "dns" /\ Done(cur)
       ELSE pc' = "activate" /\ UNCHANGED <<todo, cur, curId>>
    /\ UNCHANGED <<desired, zone, quiet, clean, unwanted, mistaken>>

SavePushedFails ==
    /\ pc = "pushed"
    /\ May("storage")
    /\ rows' \in {rows, UpdateResourceError(rows, cur, "error")}
    /\ clean' = FALSE
    /\ pc' = "dns"
    /\ Done(cur)
    /\ UNCHANGED <<desired, zone, quiet, unwanted, mistaken>>

Activate ==
    /\ pc = "activate"
    /\ Store(UpdateResourceError(rows, cur, "active"))
    /\ pc' = "dns"
    /\ Done(cur)
    /\ UNCHANGED <<desired, zone, quiet, unwanted, mistaken>>

(* Mutant: an orphan is marked, and its updated_at renewed, in every cycle. *)
MarkOrphaned_EveryCycle(k) ==
    /\ pc = "dns"
    /\ k \in todo
    /\ \A j \in todo : ~Wanted(j)
    /\ Store(UpdateResourceStatus(rows, k, "orphaned"))
    /\ Done(k)
    /\ UNCHANGED <<desired, zone, pc, quiet, unwanted, mistaken>>

(* Mutant: with cleanup disabled there is nothing to mark the row for.     *)
MarkOrphaned_CleanupOnly(k) ==
    /\ pc = "dns"
    /\ k \in todo
    /\ \A j \in todo : ~Wanted(j)
    /\ IF rows[k].status = "orphaned" \/ ~rows[k].cleanup
       THEN UNCHANGED <<rows, clean>>
       ELSE Store(UpdateResourceStatus(rows, k, "orphaned"))
    /\ Done(k)
    /\ UNCHANGED <<desired, zone, pc, quiet, unwanted, mistaken>>

(* What no label asks for any more, once everything asked for is done.     *)
MarkOrphaned(k) ==
    /\ pc = "dns"
    /\ k \in todo
    /\ \A j \in todo : ~Wanted(j)
    /\ IF rows[k].status = "orphaned"
       THEN UNCHANGED <<rows, clean>>
       ELSE Store(UpdateResourceStatus(rows, k, "orphaned"))
    /\ Done(k)
    /\ UNCHANGED <<desired, zone, pc, quiet, unwanted, mistaken>>

----------------------------------------------------------------------------
(* processOrphanedCleanups.                                                *)

ListForCleanup ==
    /\ pc = "dns"
    /\ todo = {}
    /\ pc' = "cleanup"
    /\ \/ todo' = ListOrphanedForCleanup(rows, RemoveDelay) /\ UNCHANGED clean
       \/ May("storage") /\ todo' = {} /\ clean' = FALSE
    /\ unwanted' = [k \in Keys |-> IF clean /\ Wanted(k) THEN 0 ELSE unwanted[k]]
    /\ UNCHANGED <<desired, rows, zone, cur, curId, quiet, mistaken>>

(* DeleteDNSRecord: a record that is already gone counts as deleted, and   *)
(* so does one that Cloudflare refused to delete in words that hold "404". *)
(* (RecordIds bounds the records that may be left so: an id stays free for *)
(* the key's next creation.)                                               *)
DeleteRecord(k) ==
    /\ pc = "cleanup"
    /\ k \in todo
    /\ rows[k].cfid # NoId
    /\ \/ Unpublish(rows[k].cfid) /\ UNCHANGED mistaken
       \/ /\ May("text404") /\ FreshIds # {}
          /\ UNCHANGED zone
          /\ mistaken' = mistaken \cup {k}
    /\ cur' = k
    /\ pc' = "deleted"
    /\ UNCHANGED <<desired, rows, todo, curId, quiet, clean, unwanted>>

(* Mutant: the failure is recorded in the row, as the other failures are.  *)
DeleteFails_MarksError(k) ==
    /\ pc = "cleanup"
    /\ k \in todo
    /\ \/ /\ rows[k].cfid = NoId \/ May("api")
          /\ UNCHANGED zone
       \/ May("lost") /\ rows[k].cfid # NoId /\ Unpublish(rows[k].cfid)
    /\ Store(UpdateResourceError(rows, k, "error"))
    /\ Done(k)
    /\ UNCHANGED <<desired, pc, quiet, unwanted, mistaken>>

(* The SDK refuses an empty record id.                                     *)
DeleteFails(k) ==
    /\ pc = "cleanup"
    /\ k \in todo
    /\ \/ /\ rows[k].cfid = NoId \/ May("api")
          /\ UNCHANGED zone
       \/ May("lost") /\ rows[k].cfid # NoId /\ Unpublish(rows[k].cfid)
    /\ Done(k)
    /\ UNCHANGED <<desired, rows, pc, quiet, clean, unwanted, mistaken>>

DeleteRow ==
    /\ pc = "deleted"
    /\ Store(DeleteResource(rows, cur))
    /\ pc' = "cleanup"
    /\ Done(cur)
    /\ UNCHANGED <<desired, zone, quiet, unwanted, mistaken>>

----------------------------------------------------------------------------
(* cleanupExpiredOrphans, skipped when orphan_ttl is 0.                    *)

ListExpired ==
    /\ pc = "cleanup"
    /\ todo = {}
    /\ pc' = "expire"
    /\ \/ /\ todo' = IF OrphanTTL > 0 THEN ListExpiredOrphans(rows, OrphanTTL) ELSE {}
          /\ UNCHANGED clean
       \/ May("storage") /\ OrphanTTL > 0 /\ todo' = {} /\ clean' = FALSE
    /\ UNCHANGED <<desired, rows, zone, cur, curId, quiet, unwanted, mistaken>>

ExpireRow(k) ==
    /\ pc = "expire"
    /\ k \in todo
    /\ Store(DeleteResource(rows, k))
    /\ Done(k)
    /\ UNCHANGED <<desired, zone, pc, quiet, unwanted, mistaken>>

FinishReconcile ==
    /\ pc = "expire"
    /\ todo = {}
    /\ pc' = "idle"
    /\ UNCHANGED <<desired, rows, zone, todo, cur, curId, quiet, clean, unwanted, mistaken>>

----------------------------------------------------------------------------
(* The environment.                                                        *)

(* Memory is lost; desired only remembers what the dead cycle had seen.    *)
Crash ==
    /\ May("crash")
    /\ pc # "idle"
    /\ pc' = "idle"
    /\ todo' = {}
    /\ Rest
    /\ clean' = FALSE
    /\ UNCHANGED <<desired, rows, zone, quiet, unwanted, mistaken>>

UserCreates(id) ==
    /\ May("user")
    /\ id \in FreshIds \ {curId}
    /\ \E k \in Keys, content \in Contents :
          ~AlreadyExists(k, content) /\ Publish(id, k, content)
    /\ UNCHANGED <<desired, rows, pc, todo, cur, curId, quiet, clean, unwanted, mistaken>>

UserEdits(id) ==
    /\ May("user")
    /\ zone[id] # NoRecord
    /\ \E content \in Contents : Publish(id, zone[id].key, content)
    /\ UNCHANGED <<desired, rows, pc, todo, cur, curId, quiet, clean, unwanted, mistaken>>

UserDeletes(id) ==
    /\ May("user")
    /\ zone[id] # NoRecord
    /\ Unpublish(id)
    /\ UNCHANGED <<desired, rows, pc, todo, cur, curId, quiet, clean, unwanted, mistaken>>

Tick ==
    /\ rows' = AgeRows(rows, AgeCap)
    /\ unwanted' = [k \in Keys |-> NextAge(unwanted[k], AgeCap)]
    /\ UNCHANGED <<desired, zone, pc, todo, cur, curId, quiet, clean, mistaken>>

BecomeQuiet ==
    /\ ~quiet
    /\ quiet' = TRUE
    /\ UNCHANGED <<desired, rows, zone, pc, todo, cur, curId, clean, unwanted, mistaken>>

----------------------------------------------------------------------------

Reconciling ==
    \/ \E view \in Views : StartReconcile(view)
    \/ \E k \in Keys :
          \/ CreateRecord(k) \/ CreateFails(k)
          \/ TakeAgent(k)
          \/ MarkOrphaned(k)
          \/ DeleteRecord(k) \/ DeleteFails(k)
          \/ ExpireRow(k)
    \/ SaveCreated \/ SaveCreatedFails \/ PatchAgent \/ Rollback
    \/ KeepRecord \/ PushRecord \/ PushFails
    \/ SavePushed \/ SavePushedFails \/ Activate
    \/ ListForCleanup \/ DeleteRow \/ ListExpired \/ FinishReconcile

Environment ==
    \/ Crash
    \/ \E id \in RecordIds : UserCreates(id) \/ UserEdits(id) \/ UserDeletes(id)
    \/ Tick
    \/ BecomeQuiet

Next == Reconciling \/ Environment

Spec == Init /\ [][Next]_vars

(* The select loop of Run never stops (its ticker restarts a cycle even    *)
(* when nothing happens), time passes, and the environment's trouble ends. *)
Fairness == WF_vars(Reconciling) /\ WF_vars(Tick) /\ WF_vars(BecomeQuiet)

FairSpec == Spec /\ Fairness

----------------------------------------------------------------------------
(* Properties.                                                             *)

Claimed(k) == HasStatus(rows, k, "active") \/ HasStatus(rows, k, "error")
Unclaimed(k) == rows[k] = NoRow \/ HasStatus(rows, k, "orphaned")

Settled(k) ==
    IF Wanted(k) THEN Claimed(k) /\ rows[k].agent = desired[k].agent
                 ELSE Unclaimed(k)

(* Every variable has its type, and when a cycle in which no SQLite        *)
(* statement failed ends, the table agrees with the labels it looked at,   *)
(* whatever Cloudflare answered: what they ask for has a row in status     *)
(* active or error (an orphan whose container came back is reactivated)    *)
(* that names the agent its container runs on, and every other row is an   *)
(* orphan.                                                                 *)
CycleSettles ==
    /\ TypeOK
    /\ clean /\ pc = "idle" => \A k \in Keys : Settled(k)

(* The reconciler never takes down a record that the labels of the same    *)
(* cycle ask for, although the list of what to take down is made from the  *)
(* table, after a pass over Cloudflare that may have failed in part.       *)
OnlyUnwantedDeleted ==
    [][\A k \in Keys : clean /\ DeleteRecord(k) => ~Wanted(k)]_vars

(* remove_delay: a record is taken down only when no pass over the labels  *)
(* that ran to its end has asked for it for longer than the delay; neither *)
(* an error nor a return of the container leaves an old age in the row.    *)
GraceRespected ==
    [][\A k \in Keys : DeleteRecord(k) => unwanted[k] > RemoveDelay]_vars

(* A row in status active tells the truth: its record is there and holds   *)
(* what the row says.  (While a push is under way the record is ahead; and *)
(* of two records that refused deletions left to a key, a later creation   *)
(* may adopt the wrong one.)                                               *)
ActiveRowsMirrorZone ==
    \A k \in Keys \ mistaken :
        HasStatus(rows, k, "active") /\ cur # k =>
            /\ rows[k].cfid \in RecordsOf(k)
            /\ zone[rows[k].cfid].content = rows[k].content

(* No record of Labelgate's is left behind at Cloudflare without a row to  *)
(* remember it by, however calls failed and replies were lost: a row is    *)
(* dropped only after its record.  The exception is in DeleteDNSRecord:    *)
(* isNotFoundError takes any error with "404" in its text for a record     *)
(* that is gone, and a key this has happened to may have one left.         *)
NothingLeftBehind ==
    \A k \in Keys \ mistaken : rows[k] = NoRow /\ cur # k => RecordsOf(k) = {}

(* The record the labels ask for is there, and the table says so.          *)
Published(k, spec) ==
    /\ HasStatus(rows, k, "active")
    /\ \E id \in RecordsOf(k) : zone[id].content = Resolve(spec.target)

(* Labels that stop changing are published in the end, once the            *)
(* environment has stopped failing.                                        *)
Converges ==
    \A k \in Keys : \A spec \in Specs :
        <>[](desired[k] = spec) => <>[]Published(k, spec)

(* The same, but for the two cases the code has no way out of.             *)
(* UpdateDNSRecord never creates, so a row without a record stays in       *)
(* error; and it does not resolve the target "container", which needs an   *)
(* update in every cycle (the row holds the address, or the word itself)   *)
(* and is refused by Cloudflare each time.                                 *)
HasNoRecord(k) == rows[k] # NoRow /\ PushableIds(k) = {}


(* Nothing is left of the key, or only what cleanup = false leaves.        *)
Released(k) ==
    \/ rows[k] = NoRow
    \/ HasStatus(rows, k, "orphaned") /\ ~rows[k].cleanup

(* Labels that are dropped for good are released, but for the rows that    *)
(* never got a record id, which the SDK refuses to delete.                 *)
ReleasesWhatHasAnId ==
    \A k \in Keys :
        <>[](desired[k] = NoSpec) =>
            <>[](Released(k) \/ rows[k].cfid = NoId)

----------------------------------------------------------------------------
(* The life of a key that the table stands for.                            *)

LifeOf(k) ==
    IF rows[k] = NoRow THEN "none"
    ELSE IF rows[k].status = "orphaned" THEN "orphan" ELSE "claimed"

Lifecycle == INSTANCE ManagedRecord WITH life <- [k \in Keys |-> LifeOf(k)]

(* As long as SQLite works, crashes, failed calls and lost replies         *)
(* notwithstanding, the table only ever shows what ManagedRecord allows.   *)
ImplementsLifecycle == Lifecycle!Spec

(* And no key is neglected.                                                *)
ImplementsFairLifecycle == Lifecycle!FairSpec
=============================================================================

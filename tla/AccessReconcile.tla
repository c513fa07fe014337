-------------------------- MODULE AccessReconcile ---------------------------
(***************************************************************************)
(* The Zero Trust half of one reconciliation cycle: AccessOperatorImpl     *)
(* (internal/operator/access/access.go) over AccessClient                  *)
(* (internal/cloudflare/access.go), followed by the two orphan passes of   *)
(* the reconciler.                                                         *)
(*                                                                         *)
(* Cloudflare keeps two things: applications, each for one hostname and    *)
(* linked to a policy, and the account's reusable policies, found again by *)
(* their name.  A row of the table remembers the id of an application and  *)
(* nothing of its policies.  Every cycle sends every binding again.        *)
(*                                                                         *)
(* Cloudflare refuses a second application for a hostname, as the code     *)
(* expects ("let CF API reject if conflicting"), and refuses to delete a   *)
(* policy an application is linked to.  Three ids are enough: that of a    *)
(* new application must only differ from the one the hostname's row names  *)
(* and the one the goroutine holds.  Policies of one name and the same     *)
(* rules are one policy.                                                   *)
(*                                                                         *)
(* Left out: names and durations of applications, and the account, which   *)
(* is one.  A policy definition has one policy, as the label parser makes  *)
(* it.  Faults: "list", "create", "update" and "delete" are API calls that *)
(* fail without effect, "lost" ones that fail after their effect; "user"   *)
(* deletes an application by hand, "hand" makes one; "storage" is a        *)
(* statement that fails, "crash" the end of the process, and with "slow"   *)
(* time passes in the middle of a cycle.  "text404" is the refusal of a    *)
(* deletion with "404" or "not found" in its text, the address of the call *)
(* included.                                                               *)
(***************************************************************************)
EXTENDS ResourceStore

CONSTANTS
    Hosts,
    Names,          \* of reusable policies
    Rules,          \* what a policy lets in
    NoBinding,      \* no running container asks for the hostname's protection
    NoApp,
    NoPolicy,
    Nobody,         \* no hostname
    RemoveDelay,
    OrphanTTL,
    Faults

Policies == [name : Names, rules : Rules]
Bindings == [policy : Policies, cleanup : BOOLEAN]
Views == [Hosts -> Bindings \cup {NoBinding}]

NoId == 0
Ids == 1 .. 3
Apps == [id : Ids, policy : Policies \cup {NoPolicy}, ours : BOOLEAN]

AgeCap == 1 + IF RemoveDelay > OrphanTTL THEN RemoveDelay ELSE OrphanTTL

Row == [status : Statuses, app : Ids \cup {NoId}, cleanup : BOOLEAN, age : 0 .. AgeCap]

ASSUME AccessDelaysAreNaturals == RemoveDelay \in Nat /\ OrphanTTL \in Nat

ASSUME NothingIsNoRowOrApp == NoRow \notin Row /\ NoApp \notin Apps

VARIABLES
    desired,    \* the cycle's bindings
    rows,       \* the managed_resources table, by hostname
    apps,       \* the applications at Cloudflare, by hostname
    policies,   \* the account's reusable policies
    pc,
    cur,        \* the hostname the goroutine is at
    todo,       \* the hostnames it has still to visit
    listed,     \* currentMap: the rows listed and not yet dealt with
    appID,      \* the application to update, NoId to create one
    old,        \* the policy that application is linked to
    link,       \* the policy it shall be linked to
    quiet,
    clean       \* since it began, the last cycle saw no storage failure, no crash

cycle == <<pc, cur, todo, listed, appID, old, link>>
vars == <<desired, rows, apps, policies, cycle, quiet, clean>>

Phases == {"idle", "bindings", "policy", "app", "tidy", "save", "activate", "failed",
           "cleanup", "unlink", "removed", "expire"}

TypeOK ==
    /\ desired \in Views
    /\ rows \in [Hosts -> Row \cup {NoRow}]
    /\ apps \in [Hosts -> Apps \cup {NoApp}]
    /\ policies \subseteq Policies
    /\ pc \in Phases
    /\ cur \in Hosts \cup {Nobody}
    /\ todo \subseteq Hosts
    /\ listed \in [Hosts -> Row \cup {NoRow}]
    /\ appID \in Ids \cup {NoId}
    /\ old \in Policies \cup {NoPolicy}
    /\ link \in Policies \cup {NoPolicy}
    /\ quiet \in BOOLEAN
    /\ clean \in BOOLEAN

NoRows == [h \in Hosts |-> NoRow]

Init ==
    /\ desired = [h \in Hosts |-> NoBinding]
    /\ rows = NoRows
    /\ apps = [h \in Hosts |-> NoApp]
    /\ policies = {}
    /\ pc = "idle"
    /\ cur = Nobody
    /\ todo = {}
    /\ listed = NoRows
    /\ appID = NoId
    /\ old = NoPolicy
    /\ link = NoPolicy
    /\ quiet = FALSE
    /\ clean = FALSE

May(fault) == fault \in Faults /\ ~quiet

Wanted(h) == desired[h] # NoBinding

Store(table) ==
    \/ rows' = table /\ UNCHANGED clean
    \/ May("storage") /\ UNCHANGED rows /\ clean' = FALSE

(* Does the id name an application that is there?                          *)
IsApp(h, id) == apps[h] # NoApp /\ apps[h].id = id

IdsHeld(h) ==
    (IF rows[h] = NoRow THEN {} ELSE {rows[h].app}) \cup (IF cur = h THEN {appID} ELSE {})

FreshId(h) == CHOOSE i \in Ids : i \notin IdsHeld(h)

InUse(p) == \E h \in Hosts : apps[h] # NoApp /\ apps[h].policy = p

(* The goroutine is done with its hostname.                                *)
Leave(next) ==
    /\ pc' = next
    /\ cur' = Nobody
    /\ appID' = NoId
    /\ old' = NoPolicy
    /\ link' = NoPolicy

----------------------------------------------------------------------------
(* AccessOperatorImpl.ReconcileBindings.                                   *)

StartReconcile(view) ==
    /\ pc = "idle"
    /\ desired' = view
    /\ \/ /\ pc' = "bindings"
          /\ todo' = {h \in Hosts : view[h] # NoBinding}
          /\ listed' = rows
          /\ clean' = TRUE
       \/ /\ May("storage")
          /\ pc' = "bindings"
          /\ clean' = FALSE
          /\ UNCHANGED <<todo, listed>>
    /\ UNCHANGED <<rows, apps, policies, cur, appID, old, link, quiet>>

(* listAppPolicyIDs: a failed listing counts as an empty one.              *)
PolicyOf(h, id) == IF IsApp(h, id) THEN apps[h].policy ELSE NoPolicy

(* updateAccess: the application the row names, NoId if it names none.     *)
BeginUpdate(h) ==
    /\ pc = "bindings"
    /\ h \in todo
    /\ listed[h] # NoRow
    /\ pc' = "policy"
    /\ cur' = h
    /\ todo' = todo \ {h}
    /\ appID' = listed[h].app
    /\ \/ old' = PolicyOf(h, listed[h].app)
       \/ May("list") /\ old' = NoPolicy
    /\ UNCHANGED <<desired, rows, apps, policies, listed, link, quiet, clean>>

(* Mutant: an application that is found is taken over.                     *)
BeginCreate_Adopts(h) ==
    /\ pc = "bindings"
    /\ h \in todo
    /\ listed[h] = NoRow
    /\ cur' = h
    /\ todo' = todo \ {h}
    /\ pc' = "policy"
    /\ appID' = IF apps[h] = NoApp THEN NoId ELSE apps[h].id
    /\ UNCHANGED <<desired, rows, apps, policies, listed, old, link, quiet, clean>>

(* EnsureAccess: an application that exists already is nobody's to touch,  *)
(* if the listing that would show it succeeds.                             *)
BeginCreate(h) ==
    /\ pc = "bindings"
    /\ h \in todo
    /\ listed[h] = NoRow
    /\ cur' = h
    /\ todo' = todo \ {h}
    /\ \/ apps[h] # NoApp /\ pc' = "failed"
       \/ apps[h] = NoApp /\ pc' = "policy"
       \/ May("list") /\ pc' = "policy"
    /\ UNCHANGED <<desired, rows, apps, policies, listed, appID, old, link, quiet, clean>>

(* ensureReusablePolicy: a policy of the name is taken as it is.           *)
FindPolicy(p) ==
    /\ pc = "policy"
    /\ p \in policies
    /\ p.name = desired[cur].policy.name
    /\ link' = p
    /\ pc' = "app"
    /\ UNCHANGED <<desired, rows, apps, policies, cur, todo, listed, appID, old, quiet,
                   clean>>

(* None was found, or the search failed.                                   *)
CreatePolicy ==
    /\ pc = "policy"
    /\ \/ \A p \in policies : p.name # desired[cur].policy.name
       \/ May("list")
    /\ policies' = policies \cup {desired[cur].policy}
    /\ link' = desired[cur].policy
    /\ pc' = "app"
    /\ UNCHANGED <<desired, rows, apps, cur, todo, listed, appID, old, quiet, clean>>

(* Mutant: an application that is gone stays an error.                     *)
Fail_NoRetry ==
    /\ pc' = "failed"
    /\ appID' = NoId
    /\ old' = NoPolicy
    /\ link' = NoPolicy

(* EnsureAccessForHostname returned an error: an update is tried again, as *)
(* a creation.                                                             *)
Fail ==
    /\ pc' = IF appID = NoId THEN "failed" ELSE "policy"
    /\ appID' = NoId
    /\ old' = NoPolicy
    /\ link' = NoPolicy

PolicyFails ==
    /\ pc = "policy"
    /\ \/ May("create") /\ UNCHANGED policies
       \/ May("lost") /\ policies' = policies \cup {desired[cur].policy}
    /\ Fail
    /\ UNCHANGED <<desired, rows, apps, cur, todo, listed, quiet, clean>>

Linked == [apps EXCEPT ![cur].policy = link]

UpdateApplication ==
    /\ pc = "app"
    /\ appID # NoId
    /\ IsApp(cur, appID)
    /\ apps' = Linked
    /\ pc' = "tidy"
    /\ UNCHANGED <<desired, rows, policies, cur, todo, listed, appID, old, link, quiet,
                   clean>>

(* The application is not there any more, or the call fails otherwise.     *)
UpdateFails ==
    /\ pc = "app"
    /\ appID # NoId
    /\ \/ (~IsApp(cur, appID) \/ May("update")) /\ UNCHANGED apps
       \/ May("lost") /\ IsApp(cur, appID) /\ apps' = Linked
    /\ Fail
    /\ UNCHANGED <<desired, rows, policies, cur, todo, listed, quiet, clean>>

Created == [apps EXCEPT ![cur] = [id |-> FreshId(cur), policy |-> link, ours |-> TRUE]]

(* The id the row will hold: updateAccess keeps it when the row named an   *)
(* application that could not be updated, and discards it when the row     *)
(* named none.                                                             *)
CreateApplication ==
    /\ pc = "app"
    /\ appID = NoId
    /\ apps[cur] = NoApp
    /\ apps' = Created
    /\ appID' = IF listed[cur] # NoRow /\ listed[cur].app = NoId
                THEN NoId ELSE FreshId(cur)
    /\ pc' = "tidy"
    /\ UNCHANGED <<desired, rows, policies, cur, todo, listed, old, link, quiet, clean>>

CreateFails ==
    /\ pc = "app"
    /\ appID = NoId
    /\ \/ (apps[cur] # NoApp \/ May("create")) /\ UNCHANGED apps
       \/ May("lost") /\ apps[cur] = NoApp /\ apps' = Created
    /\ Fail
    /\ UNCHANGED <<desired, rows, policies, cur, todo, listed, quiet, clean>>

(* tryDeleteReusablePolicy of the policy the application had before:       *)
(* nobody minds when it is in use, or the call fails.                      *)
TryDeleteReusablePolicy ==
    \/ policies' = policies \ {p \in {old} : ~InUse(p)}
    \/ May("delete") /\ UNCHANGED policies

Tidy ==
    /\ pc = "tidy"
    /\ IF old # link THEN TryDeleteReusablePolicy ELSE UNCHANGED policies
    /\ pc' = "save"
    /\ UNCHANGED <<desired, rows, apps, cur, todo, listed, appID, old, link, quiet, clean>>

(* A new row is active; a row that was listed keeps its status for now.    *)
SavedRow ==
    [status |-> IF listed[cur] = NoRow THEN "active" ELSE listed[cur].status,
     app |-> appID, cleanup |-> desired[cur].cleanup, age |-> 0]

SaveBinding ==
    /\ pc = "save"
    /\ \/ /\ rows' = SaveResource(rows, cur, SavedRow)
          /\ pc' = IF listed[cur] = NoRow THEN "bindings" ELSE "activate"
          /\ cur' = IF listed[cur] = NoRow THEN Nobody ELSE cur
          /\ UNCHANGED clean
       \/ /\ May("storage")
          /\ pc' = "failed"
          /\ clean' = FALSE
          /\ UNCHANGED <<rows, cur>>
    /\ appID' = NoId
    /\ old' = NoPolicy
    /\ link' = NoPolicy
    /\ UNCHANGED <<desired, apps, policies, todo, listed, quiet>>

(* Mutant: only a row with an error is made active again.                  *)
Activate_NotOrphans ==
    /\ pc = "activate"
    /\ IF listed[cur].status = "error"
       THEN Store(UpdateResourceError(rows, cur, "active"))
       ELSE UNCHANGED <<rows, clean>>
    /\ listed' = [listed EXCEPT ![cur] = NoRow]
    /\ Leave("bindings")
    /\ UNCHANGED <<desired, apps, policies, todo, quiet>>

Activate ==
    /\ pc = "activate"
    /\ IF listed[cur].status # "active"
       THEN Store(UpdateResourceError(rows, cur, "active"))
       ELSE UNCHANGED <<rows, clean>>
    /\ listed' = [listed EXCEPT ![cur] = NoRow]
    /\ Leave("bindings")
    /\ UNCHANGED <<desired, apps, policies, todo, quiet>>

(* The row of a binding that could not be created names no application.    *)
RecordFailure ==
    /\ pc = "failed"
    /\ IF listed[cur] # NoRow
       THEN Store(UpdateResourceError(rows, cur, "error"))
       ELSE Store(SaveResource(rows, cur,
                [status |-> "error", app |-> NoId, cleanup |-> desired[cur].cleanup,
                 age |-> 0]))
    /\ listed' = [listed EXCEPT ![cur] = NoRow]
    /\ Leave("bindings")
    /\ UNCHANGED <<desired, apps, policies, todo, quiet>>

(* What the list still has when every binding is dealt with.               *)
MarkOrphaned(h) ==
    /\ pc = "bindings"
    /\ todo = {}
    /\ listed[h] # NoRow
    /\ IF listed[h].status = "orphaned"
       THEN UNCHANGED <<rows, clean>>
       ELSE Store(UpdateResourceStatus(rows, h, "orphaned"))
    /\ listed' = [listed EXCEPT ![h] = NoRow]
    /\ UNCHANGED <<desired, apps, policies, pc, cur, todo, appID, old, link, quiet>>

----------------------------------------------------------------------------
(* The orphan passes.                                                      *)

ListForCleanup ==
    /\ pc = "bindings"
    /\ todo = {}
    /\ listed = NoRows
    /\ pc' = "cleanup"
    /\ \/ todo' = ListOrphanedForCleanup(rows, RemoveDelay) /\ UNCHANGED clean
       \/ May("storage") /\ todo' = {} /\ clean' = FALSE
    /\ UNCHANGED <<desired, rows, apps, policies, cur, listed, appID, old, link, quiet>>

(* Mutant: the policies are listed when the application is gone.           *)
DeleteApplication_ListsAfter(h) ==
    /\ pc = "cleanup"
    /\ h \in todo
    /\ todo' = todo \ {h}
    /\ cur' = h
    /\ apps' = IF IsApp(h, rows[h].app) THEN [apps EXCEPT ![h] = NoApp] ELSE apps
    /\ pc' = "removed"
    /\ UNCHANGED <<desired, rows, policies, listed, appID, old, link, quiet, clean>>

(* Mutant: "not found" is an error like any other.                         *)
DeleteApplication_NotFoundFails(h) ==
    /\ pc = "cleanup"
    /\ h \in todo
    /\ todo' = todo \ {h}
    /\ IF IsApp(h, rows[h].app)
       THEN /\ apps' = [apps EXCEPT ![h] = NoApp]
            /\ pc' = "unlink"
            /\ cur' = h
            /\ old' = apps[h].policy
       ELSE UNCHANGED <<apps, pc, cur, old>>
    /\ UNCHANGED <<desired, rows, policies, listed, appID, link, quiet, clean>>

(* RemoveAccess.  An application that is gone already, that the row does   *)
(* not name, or that Cloudflare refuses to delete in words that pass for   *)
(* "gone", leaves only the row to delete.                                  *)
DeleteApplication(h) ==
    /\ pc = "cleanup"
    /\ h \in todo
    /\ todo' = todo \ {h}
    /\ cur' = h
    /\ \/ /\ IsApp(h, rows[h].app)
          /\ apps' = [apps EXCEPT ![h] = NoApp]
          /\ pc' = "unlink"
          /\ \/ old' = apps[h].policy
             \/ May("list") /\ old' = NoPolicy
       \/ /\ ~IsApp(h, rows[h].app) \/ May("text404")
          /\ pc' = "removed"
          /\ UNCHANGED <<apps, old>>
    /\ UNCHANGED <<desired, rows, policies, listed, appID, link, quiet, clean>>

(* The row stays for the next cycle.                                       *)
DeleteFails(h) ==
    /\ pc = "cleanup"
    /\ h \in todo
    /\ rows[h].app # NoId
    /\ \/ May("delete") /\ UNCHANGED apps
       \/ May("lost") /\ IsApp(h, rows[h].app) /\ apps' = [apps EXCEPT ![h] = NoApp]
    /\ todo' = todo \ {h}
    /\ UNCHANGED <<desired, rows, policies, pc, cur, listed, appID, old, link, quiet,
                   clean>>

UnlinkPolicy ==
    /\ pc = "unlink"
    /\ TryDeleteReusablePolicy
    /\ pc' = "removed"
    /\ old' = NoPolicy
    /\ UNCHANGED <<desired, rows, apps, cur, todo, listed, appID, link, quiet, clean>>

DeleteRow ==
    /\ pc = "removed"
    /\ Store(DeleteResource(rows, cur))
    /\ Leave("cleanup")
    /\ UNCHANGED <<desired, apps, policies, todo, listed, quiet>>

ListExpired ==
    /\ pc = "cleanup"
    /\ todo = {}
    /\ pc' = "expire"
    /\ \/ /\ todo' = IF OrphanTTL > 0 THEN ListExpiredOrphans(rows, OrphanTTL) ELSE {}
          /\ UNCHANGED clean
       \/ May("storage") /\ OrphanTTL > 0 /\ todo' = {} /\ clean' = FALSE
    /\ UNCHANGED <<desired, rows, apps, policies, cur, listed, appID, old, link, quiet>>

ExpireRow(h) ==
    /\ pc = "expire"
    /\ h \in todo
    /\ Store(DeleteResource(rows, h))
    /\ todo' = todo \ {h}
    /\ UNCHANGED <<desired, apps, policies, pc, cur, listed, appID, old, link, quiet>>

FinishReconcile ==
    /\ pc = "expire"
    /\ todo = {}
    /\ pc' = "idle"
    /\ UNCHANGED <<desired, rows, apps, policies, cur, todo, listed, appID, old, link,
                   quiet, clean>>

----------------------------------------------------------------------------
(* The environment.                                                        *)

Crash ==
    /\ May("crash")
    /\ pc # "idle"
    /\ Leave("idle")
    /\ todo' = {}
    /\ listed' = NoRows
    /\ clean' = FALSE
    /\ UNCHANGED <<desired, rows, apps, policies, quiet>>

UserDeletes(h) ==
    /\ May("user")
    /\ apps[h] # NoApp
    /\ apps' = [apps EXCEPT ![h] = NoApp]
    /\ UNCHANGED <<desired, rows, policies, cycle, quiet, clean>>

UserCreates(h) ==
    /\ May("hand")
    /\ apps[h] = NoApp
    /\ apps' = [apps EXCEPT ![h] = [id |-> FreshId(h), policy |-> NoPolicy, ours |-> FALSE]]
    /\ UNCHANGED <<desired, rows, policies, cycle, quiet, clean>>

Tick ==
    /\ pc = "idle" \/ May("slow")
    /\ rows' = AgeRows(rows, AgeCap)
    /\ listed' = AgeRows(listed, AgeCap)
    /\ UNCHANGED <<desired, apps, policies, pc, cur, todo, appID, old, link, quiet, clean>>

BecomeQuiet ==
    /\ ~quiet
    /\ quiet' = TRUE
    /\ UNCHANGED <<desired, rows, apps, policies, cycle, clean>>

----------------------------------------------------------------------------

Reconciling ==
    \/ \E view \in Views : StartReconcile(view)
    \/ \E h \in Hosts :
          \/ BeginUpdate(h) \/ BeginCreate(h)
          \/ MarkOrphaned(h)
          \/ DeleteApplication(h) \/ DeleteFails(h)
          \/ ExpireRow(h)
    \/ \E p \in Policies : FindPolicy(p)
    \/ CreatePolicy \/ PolicyFails
    \/ UpdateApplication \/ UpdateFails
    \/ CreateApplication \/ CreateFails
    \/ Tidy \/ SaveBinding \/ Activate \/ RecordFailure
    \/ ListForCleanup \/ UnlinkPolicy \/ DeleteRow \/ ListExpired \/ FinishReconcile

Environment ==
    \/ Crash
    \/ \E h \in Hosts : UserDeletes(h) \/ UserCreates(h)
    \/ Tick
    \/ BecomeQuiet

Next == Reconciling \/ Environment

Spec == Init /\ [][Next]_vars

(* The loop goes on, as its ticker is always there; time passes, strongly  *)
(* so since it may only pass between cycles; the failures end.             *)
Fairness == WF_vars(Reconciling) /\ SF_vars(Tick) /\ WF_vars(BecomeQuiet)

FairSpec == Spec /\ Fairness

----------------------------------------------------------------------------
(* Properties.                                                             *)

IsOurs(h) == apps[h] # NoApp /\ apps[h].ours

(* An application somebody made by hand is neither changed nor deleted,    *)
(* although labelgate has no record of what is its own but an id in a row, *)
(* and its own application of the hostname may have come and gone before.  *)
HandMadeAppsKept ==
    [][Reconciling => \A h \in Hosts :
          apps[h] # NoApp /\ ~apps[h].ours => apps'[h] = apps[h]]_vars

(* A hostname whose protection the labels of the same cycle ask for never  *)
(* loses it to the cleanup, although its row may be a former orphan's and  *)
(* may have been saved with that status on the way.                        *)
OnlyUnwantedRemoved ==
    [][\A h \in Hosts : clean /\ DeleteApplication(h) => ~Wanted(h)]_vars

(* The row names the application there is; one made by hand is not ours.   *)
Tracked(h) ==
    apps[h] # NoApp => IsOurs(h) /\ rows[h] # NoRow /\ rows[h].app = apps[h].id

(* Labels that stop changing are in force in the end: the application is   *)
(* there, linked to a policy of the name they give it, whatever failed or  *)
(* was deleted by hand before, unless the record of the application was    *)
(* lost on the way.                                                        *)
AppsPublished ==
    \A h \in Hosts, p \in Policies :
        /\ <>[](Wanted(h) /\ desired[h].policy = p)
        /\ <>[](pc = "idle" => Tracked(h))
        => <>[](IsOurs(h) /\ apps[h].policy.name = p.name)

(* Nothing is left of the hostname, or only what cleanup = false leaves.   *)
Released(h) ==
    \/ rows[h] = NoRow /\ ~IsOurs(h)
    \/ HasStatus(rows, h, "orphaned") /\ ~rows[h].cleanup

(* The application of a hostname nobody asks for any more is removed in    *)
(* the end, unless its record was lost, as it is when a refusal passes for *)
(* "gone": a failed or lost deletion is otherwise tried again, one that    *)
(* was done is not taken for a failure.                                    *)
TrackedAppsReleased ==
    \A h \in Hosts :
        <>[](~Wanted(h)) /\ <>[](pc = "idle" => Tracked(h)) => <>[]Released(h)

(* "The associated reusable policies are also cleaned up if no other       *)
(* application references them": when a cycle ends, whatever hostnames     *)
(* shared a policy and in whatever order they left it.                     *)
NoStrayPolicies == pc = "idle" => \A p \in policies : InUse(p)

(* The same, with the types of all that is at Cloudflare and in the table. *)
PoliciesTidy == TypeOK /\ NoStrayPolicies

(* What the table says of a hostname, in the terms of ManagedRecord.       *)
LifeOf(h) ==
    IF rows[h] = NoRow THEN "none"
    ELSE IF rows[h].status = "orphaned" THEN "orphan" ELSE "claimed"

Lifecycle == INSTANCE ManagedRecord
    WITH Keys <- Hosts, Specs <- Bindings, NoSpec <- NoBinding,
         life <- [h \in Hosts |-> LifeOf(h)]

(* The table of applications implements the life of a record: a hostname   *)
(* the labels ask for is never given up, nor forgotten, half-way through a *)
(* pass that saves its row with the status it had before.                  *)
ImplementsLifecycle == Lifecycle!Spec
=============================================================================

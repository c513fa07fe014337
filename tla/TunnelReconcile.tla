-------------------------- MODULE TunnelReconcile ---------------------------
(***************************************************************************)
(* The tunnel half of one reconciliation cycle: TunnelOperatorImpl         *)
(* (internal/operator/tunnel/tunnel.go) followed by the two orphan passes  *)
(* of the reconciler.                                                      *)
(*                                                                         *)
(* A tunnel has one ingress configuration, which is read and written as a  *)
(* whole.  A rule of it serves a route, a hostname with a path; the table, *)
(* because of its UNIQUE constraint, has one row for a hostname whatever   *)
(* its paths and tunnels.  The operator lists the table once and works on  *)
(* that list while it writes the table.                                    *)
(*                                                                         *)
(* Left out: the catch-all rule, which every push appends and every read   *)
(* skips, the origin settings of a rule, the order of the rules, and two   *)
(* names for one tunnel.  A route is asked for in one tunnel at a time.    *)
(* The kinds of Faults are those of DNSReconcile.                          *)
(***************************************************************************)
EXTENDS ResourceStore

CONSTANTS
    Hosts,
    Paths,
    Services,           \* backends a rule may point to
    Cleanups,           \* values of the label cleanup
    Tunnels,
    NoRule,             \* no rule for a route in a configuration
    NoSpec,             \* no running container asks for a route
    Nothing,            \* no tunnel, no host
    RemoveDelay,
    OrphanTTL,
    CycleTime,          \* ticks a cycle may take
    AutoCreateDNS,      \* autoCreateDNS: the operator sees to the CNAMEs
    Faults

Routes == [host : Hosts, path : Paths]
Specs == [tunnel : Tunnels, service : Services, cleanup : Cleanups]
Views == [Routes -> Specs \cup {NoSpec}]

AgeCap == 1 + IF RemoveDelay > OrphanTTL THEN RemoveDelay ELSE OrphanTTL
Ages == 0 .. AgeCap

(* The columns service and agent_id decide nothing and are left out.       *)
Row == [status : Statuses, tunnel : Tunnels, path : Paths, cleanup : BOOLEAN,
        age : Ages]

ASSUME TunnelDelaysAreNaturals ==
    RemoveDelay \in Nat /\ OrphanTTL \in Nat /\ CycleTime \in Nat

ASSUME TunnelFlags == AutoCreateDNS \in BOOLEAN /\ Cleanups \subseteq BOOLEAN

ASSUME NoRowIsNotARow == NoRow \notin Row

VARIABLES
    desired,    \* the cycle's snapshot of what the labels ask for
    rows,       \* the managed_resources table, by hostname
    config,     \* the ingress configurations at Cloudflare
    cname,      \* the tunnel a hostname's CNAME points to
    pc,
    cur,        \* the tunnel, or the row, the goroutine is at
    todo,       \* the tunnels, or the rows, it has still to visit
    routes,     \* the routes of the current tunnel still to visit
    listed,     \* currentByTunnel: the rows listed and not yet dealt with
    quiet,
    clean,      \* since it began, the last cycle saw no storage failure, no crash
    elapsed,    \* ticks since the running cycle read the labels
    unwanted    \* ticks since a clean cycle last saw the hostname asked for

vars == <<desired, rows, config, cname, pc, cur, todo, routes, listed, quiet, clean,
          unwanted, elapsed>>

Phases == {"idle", "tunnels", "failed", "cnames", "rows", "rest", "cleanup",
           "removed", "expire"}

TypeOK ==
    /\ desired \in Views
    /\ rows \in [Hosts -> Row \cup {NoRow}]
    /\ config \in [Tunnels -> [Routes -> Services \cup {NoRule}]]
    /\ cname \in [Hosts -> Tunnels \cup {Nothing}]
    /\ pc \in Phases
    /\ cur \in Tunnels \cup Hosts \cup {Nothing}
    /\ todo \in (SUBSET Tunnels) \cup (SUBSET Hosts)
    /\ routes \subseteq Routes
    /\ listed \in [Hosts -> Row \cup {NoRow}]
    /\ quiet \in BOOLEAN
    /\ clean \in BOOLEAN
    /\ elapsed \in Ages
    /\ unwanted \in [Hosts -> Ages]

NoRows == [h \in Hosts |-> NoRow]

Init ==
    /\ desired = [r \in Routes |-> NoSpec]
    /\ rows = NoRows
    /\ config = [t \in Tunnels |-> [r \in Routes |-> NoRule]]
    /\ cname = [h \in Hosts |-> Nothing]
    /\ pc = "idle"
    /\ cur = Nothing
    /\ todo = {}
    /\ routes = {}
    /\ listed = NoRows
    /\ quiet = FALSE
    /\ clean = FALSE
    /\ elapsed = 0
    /\ unwanted = [h \in Hosts |-> 0]

May(fault) == fault \in Faults /\ ~quiet

AsksFor(view, t) == {r \in Routes : view[r] # NoSpec /\ view[r].tunnel = t}
RoutesOf(t) == AsksFor(desired, t)
Wanted(h) == \E r \in Routes : r.host = h /\ desired[r] # NoSpec

Store(table) ==
    \/ rows' = table /\ UNCHANGED clean
    \/ May("storage") /\ UNCHANGED rows /\ clean' = FALSE

----------------------------------------------------------------------------
(* TunnelOperatorImpl.Reconcile.                                           *)

StartReconcile(view) ==
    /\ pc = "idle"
    /\ desired' = view
    /\ pc' = "tunnels"
    /\ \/ /\ todo' = {t \in Tunnels : AsksFor(view, t) # {}}
          /\ listed' = rows
          /\ clean' = TRUE
       \/ /\ May("storage")
          /\ clean' = FALSE
          /\ UNCHANGED <<todo, listed>>
    /\ UNCHANGED <<rows, config, cname, cur, routes, quiet, unwanted, elapsed>>

(* The rules a push leaves in the configuration: those of the labels, and  *)
(* nothing else; those of stopped containers go at once.                   *)
IngressOf(t) ==
    [r \in Routes |-> IF r \in RoutesOf(t) THEN desired[r].service ELSE NoRule]

(* Mutant: a row stands for every route of its hostname.                   *)
Known_AnyPath(r) ==
    /\ listed[r.host] # NoRow
    /\ listed[r.host].tunnel = cur

(* A row of the list that stands for the route in the current tunnel.      *)
Known(r) ==
    /\ listed[r.host] # NoRow
    /\ listed[r.host].tunnel = cur
    /\ listed[r.host].path = r.path

Forget(h) == listed' = [listed EXCEPT ![h] = NoRow]

RowOf(r, status) ==
    [status |-> status, tunnel |-> cur, path |-> r.path,
     cleanup |-> desired[r].cleanup, age |-> 0]

(* Mutant: rows that are active stand for rules that are there.            *)
PushConfig_TrustsRows(t) ==
    /\ pc = "tunnels"
    /\ t \in todo
    /\ config' = IF \A r \in RoutesOf(t) :
                       /\ listed[r.host] # NoRow /\ listed[r.host].tunnel = t
                       /\ listed[r.host].status = "active"
                 THEN config
                 ELSE [config EXCEPT ![t] = IngressOf(t)]
    /\ pc' = "cnames"
    /\ cur' = t
    /\ todo' = todo \ {t}
    /\ routes' = RoutesOf(t)
    /\ UNCHANGED <<desired, rows, cname, listed, quiet, clean, unwanted, elapsed>>

(* The configuration is read; it is pushed as a whole unless it was the    *)
(* desired one already.                                                    *)
PushConfig(t) ==
    /\ pc = "tunnels"
    /\ t \in todo
    /\ config' = [config EXCEPT ![t] = IngressOf(t)]
    /\ pc' = "cnames"
    /\ cur' = t
    /\ todo' = todo \ {t}
    /\ routes' = RoutesOf(t)
    /\ UNCHANGED <<desired, rows, cname, listed, quiet, clean, unwanted, elapsed>>

(* The configuration differed, or could not be read, and the push failed.  *)
PushFails(t) ==
    /\ pc = "tunnels"
    /\ t \in todo
    /\ \/ May("api") /\ UNCHANGED config
       \/ May("lost") /\ config' = [config EXCEPT ![t] = IngressOf(t)]
    /\ pc' = "failed"
    /\ cur' = t
    /\ todo' = todo \ {t}
    /\ routes' = RoutesOf(t)
    /\ UNCHANGED <<desired, rows, cname, listed, quiet, clean, unwanted, elapsed>>

RecordFailure(r) ==
    /\ pc = "failed"
    /\ r \in routes
    /\ routes' = routes \ {r}
    /\ IF Known(r)
       THEN Store(UpdateResourceError(rows, r.host, "error")) /\ Forget(r.host)
       ELSE Store(SaveResource(rows, r.host, RowOf(r, "error"))) /\ UNCHANGED listed
    /\ UNCHANGED <<desired, config, cname, pc, cur, todo, quiet, unwanted, elapsed>>

EndFailure ==
    /\ pc = "failed"
    /\ routes = {}
    /\ pc' = "tunnels"
    /\ cur' = Nothing
    /\ UNCHANGED <<desired, rows, config, cname, todo, routes, listed, quiet, clean,
                   unwanted, elapsed>>

(* ensureTunnelDNSRecords: hostnames already active are skipped; errors    *)
(* are logged.                                                             *)
EnsureCNAME(r) ==
    /\ pc = "cnames"
    /\ AutoCreateDNS
    /\ r \in routes
    /\ routes' = routes \ {r}
    /\ \/ Known(r) /\ listed[r.host].status = "active" /\ UNCHANGED cname
       \/ /\ ~(Known(r) /\ listed[r.host].status = "active")
          /\ \/ cname' = [cname EXCEPT ![r.host] = cur]
             \/ May("api") /\ UNCHANGED cname
    /\ UNCHANGED <<desired, rows, config, pc, cur, todo, listed, quiet, clean, unwanted,
                   elapsed>>

EndCNAMEs ==
    /\ pc = "cnames"
    /\ routes = {} \/ ~AutoCreateDNS
    /\ pc' = "rows"
    /\ routes' = RoutesOf(cur)
    /\ UNCHANGED <<desired, rows, config, cname, cur, todo, listed, quiet, clean,
                   unwanted, elapsed>>

(* Mutant: an orphan that is wanted again is not "dirty".                  *)
Dirty_NotStatus(r) == listed[r.host].cleanup # desired[r].cleanup

Dirty(r) ==
    \/ listed[r.host].cleanup # desired[r].cleanup
    \/ listed[r.host].status # "active"

(* The storage pass.  A route whose row the list does not have is saved as *)
(* a new row, on top of the one its hostname may have.                     *)
SaveRoute(r) ==
    /\ pc = "rows"
    /\ r \in routes
    /\ routes' = routes \ {r}
    /\ IF Known(r)
       THEN /\ IF Dirty(r)
               THEN Store(SaveResource(rows, r.host,
                        [listed[r.host] EXCEPT !.cleanup = desired[r].cleanup,
                                               !.status = "active"]))
               ELSE UNCHANGED <<rows, clean>>
            /\ Forget(r.host)
       ELSE Store(SaveResource(rows, r.host, RowOf(r, "active"))) /\ UNCHANGED listed
    /\ UNCHANGED <<desired, config, cname, pc, cur, todo, quiet, unwanted, elapsed>>

EndRows ==
    /\ pc = "rows"
    /\ routes = {}
    /\ pc' = "rest"
    /\ UNCHANGED <<desired, rows, config, cname, cur, todo, routes, listed, quiet, clean,
                   unwanted, elapsed>>

(* What the list still has for the current tunnel, or, after the last      *)
(* tunnel, for any.                                                        *)
Remaining(h) ==
    /\ listed[h] # NoRow
    /\ \/ pc = "rest" /\ listed[h].tunnel = cur
       \/ pc = "tunnels" /\ todo = {}

MarkOrphaned(h) ==
    /\ Remaining(h)
    /\ IF listed[h].status = "orphaned"
       THEN UNCHANGED <<rows, clean>>
       ELSE Store(UpdateResourceStatus(rows, h, "orphaned"))
    /\ Forget(h)
    /\ UNCHANGED <<desired, config, cname, pc, cur, todo, routes, quiet, unwanted,
                   elapsed>>

EndRest ==
    /\ pc = "rest"
    /\ \A h \in Hosts : ~Remaining(h)
    /\ pc' = "tunnels"
    /\ cur' = Nothing
    /\ UNCHANGED <<desired, rows, config, cname, todo, routes, listed, quiet, clean,
                   unwanted, elapsed>>

----------------------------------------------------------------------------
(* The orphan passes.                                                      *)

ListForCleanup ==
    /\ pc = "tunnels"
    /\ todo = {}
    /\ listed = NoRows
    /\ pc' = "cleanup"
    /\ \/ todo' = ListOrphanedForCleanup(rows, RemoveDelay) /\ UNCHANGED clean
       \/ May("storage") /\ todo' = {} /\ clean' = FALSE
    /\ unwanted' = [h \in Hosts |-> IF clean /\ Wanted(h) THEN elapsed ELSE unwanted[h]]
    /\ UNCHANGED <<desired, rows, config, cname, cur, routes, listed, quiet, elapsed>>

Without(h) == [r \in Routes |-> IF r.host = h THEN NoRule ELSE config[rows[h].tunnel][r]]

(* Mutant: the rule of the row's path goes, those of other paths stay.     *)
RemoveIngressRule_PathOnly(h) ==
    /\ pc = "cleanup"
    /\ h \in todo
    /\ config' = [config EXCEPT ![rows[h].tunnel][[host |-> h, path |-> rows[h].path]] = NoRule]
    /\ pc' = "removed"
    /\ cur' = h
    /\ UNCHANGED <<desired, rows, cname, todo, routes, listed, quiet, clean, unwanted,
                   elapsed>>

(* All rules of the hostname go; that there is none is no error.           *)
RemoveIngressRule(h) ==
    /\ pc = "cleanup"
    /\ h \in todo
    /\ config' = [config EXCEPT ![rows[h].tunnel] = Without(h)]
    /\ pc' = "removed"
    /\ cur' = h
    /\ UNCHANGED <<desired, rows, cname, todo, routes, listed, quiet, clean, unwanted,
                   elapsed>>

RemoveFails(h) ==
    /\ pc = "cleanup"
    /\ h \in todo
    /\ \/ May("api") /\ UNCHANGED config
       \/ May("lost") /\ config' = [config EXCEPT ![rows[h].tunnel] = Without(h)]
    /\ todo' = todo \ {h}
    /\ UNCHANGED <<desired, rows, cname, pc, cur, routes, listed, quiet, clean, unwanted,
                   elapsed>>

DeleteRow ==
    /\ pc = "removed"
    /\ Store(DeleteResource(rows, cur))
    /\ pc' = "cleanup"
    /\ todo' = todo \ {cur}
    /\ cur' = Nothing
    /\ UNCHANGED <<desired, config, cname, routes, listed, quiet, unwanted, elapsed>>

ListExpired ==
    /\ pc = "cleanup"
    /\ todo = {}
    /\ pc' = "expire"
    /\ \/ /\ todo' = IF OrphanTTL > 0 THEN ListExpiredOrphans(rows, OrphanTTL) ELSE {}
          /\ UNCHANGED clean
       \/ May("storage") /\ OrphanTTL > 0 /\ todo' = {} /\ clean' = FALSE
    /\ UNCHANGED <<desired, rows, config, cname, cur, routes, listed, quiet, unwanted,
                   elapsed>>

ExpireRow(h) ==
    /\ pc = "expire"
    /\ h \in todo
    /\ Store(DeleteResource(rows, h))
    /\ todo' = todo \ {h}
    /\ UNCHANGED <<desired, config, cname, pc, cur, routes, listed, quiet, unwanted,
                   elapsed>>

FinishReconcile ==
    /\ pc = "expire"
    /\ todo = {}
    /\ pc' = "idle"
    /\ elapsed' = 0
    /\ UNCHANGED <<desired, rows, config, cname, cur, todo, routes, listed, quiet, clean,
                   unwanted>>

----------------------------------------------------------------------------
(* The environment.                                                        *)

Crash ==
    /\ May("crash")
    /\ pc # "idle"
    /\ pc' = "idle"
    /\ cur' = Nothing
    /\ todo' = {}
    /\ routes' = {}
    /\ listed' = NoRows
    /\ clean' = FALSE
    /\ elapsed' = 0
    /\ UNCHANGED <<desired, rows, config, cname, quiet, unwanted>>

(* Somebody changes or removes a rule.                                     *)
UserEdits(t, r) ==
    /\ May("user")
    /\ config[t][r] # NoRule
    /\ \E rule \in Services \cup {NoRule} : config' = [config EXCEPT ![t][r] = rule]
    /\ UNCHANGED <<desired, rows, cname, pc, cur, todo, routes, listed, quiet, clean,
                   unwanted, elapsed>>

Tick ==
    /\ \/ pc = "idle" /\ UNCHANGED elapsed
       \/ pc # "idle" /\ elapsed < CycleTime /\ elapsed' = NextAge(elapsed, AgeCap)
    /\ rows' = AgeRows(rows, AgeCap)
    /\ listed' = AgeRows(listed, AgeCap)
    /\ unwanted' = [h \in Hosts |-> NextAge(unwanted[h], AgeCap)]
    /\ UNCHANGED <<desired, config, cname, pc, cur, todo, routes, quiet, clean>>

BecomeQuiet ==
    /\ ~quiet
    /\ quiet' = TRUE
    /\ UNCHANGED <<desired, rows, config, cname, pc, cur, todo, routes, listed, clean,
                   unwanted, elapsed>>

----------------------------------------------------------------------------

Reconciling ==
    \/ \E view \in Views : StartReconcile(view)
    \/ \E t \in Tunnels : PushConfig(t) \/ PushFails(t)
    \/ \E r \in Routes : RecordFailure(r) \/ EnsureCNAME(r) \/ SaveRoute(r)
    \/ EndFailure \/ EndCNAMEs \/ EndRows \/ EndRest
    \/ \E h \in Hosts :
          \/ MarkOrphaned(h)
          \/ RemoveIngressRule(h) \/ RemoveFails(h)
          \/ ExpireRow(h)
    \/ ListForCleanup \/ DeleteRow \/ ListExpired \/ FinishReconcile

Environment ==
    \/ Crash
    \/ \E t \in Tunnels, r \in Routes : UserEdits(t, r)
    \/ Tick
    \/ BecomeQuiet

Next == Reconciling \/ Environment

Spec == Init /\ [][Next]_vars

(* As in DNSReconcile; time passes, if only between cycles.                *)
Fairness == WF_vars(Reconciling) /\ SF_vars(Tick) /\ WF_vars(BecomeQuiet)

FairSpec == Spec /\ Fairness

----------------------------------------------------------------------------
(* Properties.                                                             *)

(* The labels ask for the route the row names, in its tunnel, whose        *)
(* configuration has the rule.                                             *)
Served(h) ==
    LET row == rows[h]
        r == [host |-> h, path |-> row.path]
    IN  /\ desired[r] # NoSpec
        /\ desired[r].tunnel = row.tunnel
        /\ config[row.tunnel][r] = desired[r].service

Settled(h) ==
    \/ rows[h] = NoRow
    \/ rows[h].status = "orphaned"
    \/ rows[h].status = "error" /\ Wanted(h)
    \/ rows[h].status = "active" /\ Served(h)

(* Every variable has its type, and when a cycle without a storage failure *)
(* ends, the table tells no lie: a row is active only if the labels of the *)
(* cycle and the configuration have the very route it names, in the tunnel *)
(* it names, although one row stands for all routes of its hostname and is *)
(* written from a list that is older than it; and no row of a hostname     *)
(* nobody asks for is left but as an orphan.                               *)
CycleSettles ==
    /\ TypeOK
    /\ clean /\ pc = "idle" => \A h \in Hosts : Settled(h)

(* A hostname the labels of the same cycle ask for is never taken out of a *)
(* configuration by the cleanup, although its row may have been marked     *)
(* orphaned by mistake in an earlier cycle.                                *)
OnlyUnwantedRemoved ==
    [][\A h \in Hosts : clean /\ RemoveIngressRule(h) => ~Wanted(h)]_vars

(* remove_delay, for the cleanup pass.                                     *)
GraceRespected ==
    [][\A h \in Hosts : RemoveIngressRule(h) => unwanted[h] > RemoveDelay]_vars

(* The route has its rule, in its tunnel.                                  *)
Routed(r) == config[desired[r].tunnel][r] = desired[r].service

(* Labels that stop changing are in the configurations in the end,         *)
(* whatever failed, crashed or was edited before and whatever tunnel or    *)
(* path they named; and their hostnames have an active row, although a     *)
(* change of path or tunnel leaves the row of a wanted hostname marked     *)
(* orphaned for a while.                                                   *)
RoutesPublished ==
    <>[][desired' = desired]_vars =>
        /\ <>[](\A r \in Routes : desired[r] # NoSpec => Routed(r))
        /\ <>[](pc = "idle" => \A h \in Hosts : Wanted(h) => HasStatus(rows, h, "active"))

(* Nothing is left of the hostname, or only what cleanup = false leaves.   *)
Released(h) ==
    \/ /\ rows[h] = NoRow
       /\ \A t \in Tunnels, p \in Paths : config[t][[host |-> h, path |-> p]] = NoRule
    \/ HasStatus(rows, h, "orphaned") /\ ~rows[h].cleanup

(* All rules of the hostname are in the tunnel its row names.              *)
Tracked(h) ==
    \A t \in Tunnels, p \in Paths :
        config[t][[host |-> h, path |-> p]] # NoRule =>
            rows[h] # NoRow /\ rows[h].tunnel = t

(* A hostname no label asks for any more is released in the end, when all  *)
(* its rules are in the tunnel its row names: the one row its routes share *)
(* is enough to find them there, whatever fails or crashes meanwhile.  A   *)
(* rule in another tunnel is left for ever: one of a route that moved, and *)
(* took the row along, while no label uses its former tunnel, or one of a  *)
(* push whose row was not saved.                                           *)
HostsReleased ==
    \A h \in Hosts :
        []((pc = "idle" /\ Tracked(h) /\ []~Wanted(h)) => <>[]Released(h))
=============================================================================

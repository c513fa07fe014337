---------------------------- MODULE DesiredState ----------------------------
(***************************************************************************)
(* What a cycle asks the operators for: the labels of the running          *)
(* containers parsed, put in one list, rid of hostnames that are asked for *)
(* both as a record and as a tunnel route, and turned into the maps the    *)
(* operators work on (internal/reconciler/reconciler.go and the heads of   *)
(* the operators' Reconcile).                                              *)
(*                                                                         *)
(* The containers of the main instance come first, in the order of a Go    *)
(* map, which is another one each time; so do the agents and, when labels  *)
(* are parsed, the services of a container.  Each cycle may find one       *)
(* container started, stopped or replaced.                                 *)
(***************************************************************************)
EXTENDS LabelParser

CONSTANTS
    Containers,
    Local,              \* those of the main instance's own host
    Images,             \* the labels each container may have
    NotRunning

ASSUME LocalsAreContainers == Local \subseteq Containers

(* A host runs some containers, and each has some labels.                  *)
ASSUME FiniteInput ==
    /\ IsFiniteSet(Containers)
    /\ \A c \in Containers : \A labels \in Images[c] : IsFiniteSet(DOMAIN labels)

VARIABLES
    seen,       \* the labels of each container at the last cycle
    published   \* the operators' maps in the last cycle

vars == <<seen, published>>

(* A record ("dns") or a route ("tunnel") a container asks for.            *)
Claim(kind, c, name, svc) == [kind |-> kind, container |-> c, name |-> name, svc |-> svc]

Running(view) == {c \in Containers : view[c] # NotRunning /\ Labelled(view[c])}

----------------------------------------------------------------------------
(* getDesiredState.                                                        *)

(* The containers in some order, those of the main instance's host first.  *)
Orders(running) ==
    {order \in SetToSeqs(running) :
        \A i, j \in DOMAIN order : i < j /\ order[j] \in Local => order[i] \in Local}

ClaimSeqs(kind, c, services) ==
    {[i \in DOMAIN names |-> Claim(kind, c, names[i], services[names[i]])] :
        names \in SetToSeqs(DOMAIN services)}

(* The parsed container, for some order of its services: routes come       *)
(* before records, which matters where access is decided.                  *)
Parses(c, labels) ==
    UNION {{[services |-> t \o d, access |-> ParsedPolicies(labels)] :
               t \in ClaimSeqs("tunnel", c, ParsedTunnels(labels))} :
           d \in ClaimSeqs("dns", c, ParsedDNS(labels))}

GetDesiredState(view) ==
    LET running == Running(view)
        parses == [c \in running |-> Parses(c, view[c])]
        lists(order) ==
            {l \in [DOMAIN order -> UNION Range(parses)] :
                \A i \in DOMAIN order : l[i] \in parses[order[i]]}
    IN UNION {lists(order) : order \in Orders(running)}

----------------------------------------------------------------------------
(* filterHostnameConflicts and resolveAccessReferences.                    *)

(* The services of the list by their places: which container, which of its *)
(* services.                                                               *)
Services(desired) ==
    [p \in UNION {{i} \X DOMAIN desired[i].services : i \in DOMAIN desired} |->
        desired[p[1]].services[p[2]]]

(* The place a loop over the list gets to first.                           *)
Before(p, q) == p[1] < q[1] \/ (p[1] = q[1] /\ p[2] < q[2])

FirstOf(places) == CHOOSE p \in places : \A q \in places \ {p} : Before(p, q)

OfKind(claims, kind) == Restrict(claims, {p \in DOMAIN claims : claims[p].kind = kind})

HostsIn(claims) == {claims[p].svc.hostname : p \in DOMAIN claims}

(* Mutant: it is the record that goes.                                     *)
FilterHostnameConflicts_DropsDNS(claims) ==
    LET both == HostsIn(OfKind(claims, "dns")) \cap HostsIn(OfKind(claims, "tunnel"))
    IN Restrict(claims, {p \in DOMAIN claims :
                           claims[p].kind = "dns" => claims[p].svc.hostname \notin both})

FilterHostnameConflicts(claims) ==
    LET both == HostsIn(OfKind(claims, "dns")) \cap HostsIn(OfKind(claims, "tunnel"))
    IN Restrict(claims, {p \in DOMAIN claims :
                           claims[p].kind = "tunnel" => claims[p].svc.hostname \notin both})

(* The first claim for each key; key tells that of each place.             *)
FirstWins(claims, key) ==
    [k \in Range(key) |-> claims[FirstOf({p \in DOMAIN claims : key[p] = k})]]

(* The first policy of each name.                                          *)
GlobalPolicies(desired) ==
    [n \in UNION {DOMAIN desired[i].access : i \in DOMAIN desired} |->
        desired[Min({i \in DOMAIN desired : n \in DOMAIN desired[i].access})].access[n]]

Hostnames(claims) == [p \in DOMAIN claims |-> claims[p].svc.hostname]

(* Mutant: a service finds the policies of its own container only.         *)
ResolveAccessReferences_Own(desired, claims) ==
    LET own == Restrict(claims, {p \in DOMAIN claims :
                   claims[p].svc.access \in DOMAIN desired[p[1]].access})
        first == FirstWins(own, Hostnames(own))
    IN [h \in DOMAIN first |->
           [policy |-> GlobalPolicies(desired)[first[h].svc.access],
            cleanup |-> first[h].svc.cleanup]]

(* A reference to a policy nobody defines is skipped; the first service    *)
(* that has one decides for its hostname.                                  *)
ResolveAccessReferences(desired, claims) ==
    LET policies == GlobalPolicies(desired)
        known == Restrict(claims, {p \in DOMAIN claims :
                     claims[p].svc.access \in DOMAIN policies})
        first == FirstWins(known, Hostnames(known))
    IN [h \in DOMAIN first |->
           [policy |-> policies[first[h].svc.access], cleanup |-> first[h].svc.cleanup]]

----------------------------------------------------------------------------
(* The maps of the operators.                                              *)

DNSKey(claim) == <<claim.svc.hostname, claim.svc.type>>

TunnelKey(claim) ==
    <<IF claim.svc.tunnel = "" THEN "default" ELSE claim.svc.tunnel,
      claim.svc.hostname, claim.svc.path>>

Publication(desired) ==
    LET filtered == FilterHostnameConflicts(Services(desired))
        records == OfKind(filtered, "dns")
        routes == OfKind(filtered, "tunnel")
    IN [dns |-> FirstWins(records, [p \in DOMAIN records |-> DNSKey(records[p])]),
        tunnel |-> FirstWins(routes, [p \in DOMAIN routes |-> TunnelKey(routes[p])]),
        bindings |-> ResolveAccessReferences(desired, filtered)]

Nothing == [c \in Containers |-> NotRunning]

Init ==
    /\ seen = Nothing
    /\ published = Publication(<<>>)

(* A cycle, after at most one container has changed since the last one.    *)
Cycle(c, labels) ==
    /\ seen' = [seen EXCEPT ![c] = labels]
    /\ \E desired \in GetDesiredState(seen') : published' = Publication(desired)

Next == \E c \in Containers : \E labels \in Images[c] \cup {NotRunning} : Cycle(c, labels)

Spec == Init /\ [][Next]_vars

----------------------------------------------------------------------------
(* Properties: first what labels declare, without going over anything.     *)

Readable(kind, v) ==
    CASE kind = "bool" -> ParseBool(v, TRUE) = ParseBool(v, FALSE)
      [] kind = "int" -> ParseInt(v, 0) = ParseInt(v, 1)
      [] OTHER -> TRUE

Gives(fields, props, f) == f \in DOMAIN props /\ Readable(fields[f], props[f])

Declared(fields, own, inherited, general, base, f) ==
    IF Gives(fields, own, f) THEN Convert(fields[f], own[f], base[f])
    ELSE IF f \in inherited /\ Gives(fields, general, f)
    THEN Convert(fields[f], general[f], base[f])
    ELSE base[f]

(* The labels of the service leave the property to the built-in value.     *)
LeftOpen(fields, own, inherited, general, f) ==
    ~Gives(fields, own, f) /\ ~(f \in inherited /\ Gives(fields, general, f))

(* A property of a service is what its own label says; where that says     *)
(* nothing that can be read, what the label of "default" says; else the    *)
(* built-in value: whatever order the labels come in.  Of the built-in     *)
(* value of cleanup nothing is said: it is "true" in the code              *)
(* (types/dns.go:94, types/tunnel.go:96) and "false" in the documents      *)
(* (labels/dns.mdx:22, labels/tunnel.mdx:21).                              *)
FieldsAsDeclared ==
    \A c \in Running(seen) :
        LET asDeclared(type, fields, inherited, base, Parsed(_, _, _)) ==
               LET general == PropsOf(seen[c], type, "default")
               IN \A n \in NamesOf(seen[c], type) \ {"default"} :
                     LET own == PropsOf(seen[c], type, n)
                     IN \A order \in SetToSeqs(DOMAIN own), f \in DOMAIN fields :
                           \/ f = "cleanup" /\ LeftOpen(fields, own, inherited, general, f)
                           \/ Parsed(seen[c], n, order)[f] =
                                  Declared(fields, own, inherited, general, base, f)
        IN /\ asDeclared("dns", DNSFields, DNSInherited, DefaultDNSService, ParseDNSService)
           /\ asDeclared("tunnel", TunnelFields, TunnelInherited, DefaultTunnelService,
                         ParseTunnelService)

(* A policy is in force as it is written or not at all: no rule of its     *)
(* labels, and no item of one, is dropped on the way to Cloudflare or      *)
(* added there, and one that allows or blocks never comes without somebody *)
(* to allow or to block.                                                   *)
PoliciesWhole ==
    \A c \in Running(seen) : \A n \in DOMAIN ParsedPolicies(seen[c]) :
        LET policy == ParsedPolicies(seen[c])[n]
            inFull(kind, sent) ==
                LET written == RulesOf(seen[c], n, kind)
                IN /\ DOMAIN written = {rule.selector : rule \in sent}
                   /\ \A s \in DOMAIN written \ Valueless :
                         written[s] = {rule.item : rule \in {x \in sent : x.selector = s}}
        IN /\ inFull("policy.include", policy.include)
           /\ inFull("policy.require", policy.require)
           /\ inFull("policy.exclude", policy.exclude)
           /\ policy.decision \in {"allow", "block"} => policy.include # {}

(* What the containers ask for, in no order.                               *)
ClaimsOf(kind, c, services) == {Claim(kind, c, n, services[n]) : n \in DOMAIN services}

DNSClaims(view) == UNION {ClaimsOf("dns", c, ParsedDNS(view[c])) : c \in Running(view)}

TunnelRequests(view) ==
    UNION {ClaimsOf("tunnel", c, ParsedTunnels(view[c])) : c \in Running(view)}

(* Routes of hostnames that have records, of any container, do not count.  *)
TunnelClaims(view) ==
    {t \in TunnelRequests(view) :
        \A d \in DNSClaims(view) : d.svc.hostname # t.svc.hostname}

(* "The same hostname cannot have both a DNS record and a Tunnel ingress   *)
(* rule": the records stay, everything else that is asked for is           *)
(* published, and the order of the maps decides at most for whom.          *)
ServicesPublished ==
    /\ DOMAIN published.dns = {DNSKey(d) : d \in DNSClaims(seen)}
    /\ DOMAIN published.tunnel = {TunnelKey(t) : t \in TunnelClaims(seen)}
    /\ \A k \in DOMAIN published.dns :
          published.dns[k] \in {d \in DNSClaims(seen) : DNSKey(d) = k}
    /\ \A k \in DOMAIN published.tunnel :
          published.tunnel[k] \in {t \in TunnelClaims(seen) : TunnelKey(t) = k}

Defined(view) == UNION {DOMAIN ParsedPolicies(view[c]) : c \in Running(view)}

Resolved(view) ==
    {x \in DNSClaims(view) \cup TunnelClaims(view) : x.svc.access \in Defined(view)}

(* A published hostname is protected exactly when a service that has not   *)
(* been taken out refers to a policy some container defines, and by such a *)
(* policy.                                                                 *)
BindingsPublished ==
    /\ DOMAIN published.bindings = {x.svc.hostname : x \in Resolved(seen)}
    /\ \A h \in DOMAIN published.bindings :
          \E x \in Resolved(seen), c \in Running(seen) :
             /\ x.svc.hostname = h
             /\ x.svc.access \in DOMAIN ParsedPolicies(seen[c])
             /\ published.bindings[h] =
                   [policy |-> ParsedPolicies(seen[c])[x.svc.access],
                    cleanup |-> x.svc.cleanup]
=============================================================================

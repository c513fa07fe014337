---------------------------- MODULE LabelParser -----------------------------
(***************************************************************************)
(* The labels of a container turned into services and policies             *)
(* (pkg/labels/parser.go), and a policy's rules into those of Cloudflare   *)
(* (internal/cloudflare/access.go), as operators.                          *)
(*                                                                         *)
(* The labels of a container are a function from keys to values.  A key is *)
(* a label's name taken apart at its dots,                                 *)
(* "<prefix>.<type>.<name>.<prop>", with what follows "origin." or         *)
(* "policy.include." as sub, "" otherwise.  The value of a rule is the set *)
(* of its items, trimmed, without the empty ones; other values are texts.  *)
(* An operator that goes over a Go map takes the order it goes in.         *)
(*                                                                         *)
(* Left out: the prefix, keys with fewer parts, white space and the case   *)
(* of boolean words and decisions, negative numbers, and the names and the *)
(* session duration of a policy.                                           *)
(***************************************************************************)
EXTENDS Naturals, FiniteSets, SequencesExt, TLC

CONSTANTS
    MaxInt,             \* no number in a label is greater
    BadNames            \* service names the pattern does not match

ReservedNames ==
    {"hostname", "service", "type", "target", "proxied", "ttl", "cleanup", "credential",
     "tunnel", "path", "origin", "access", "default", "priority", "weight", "port",
     "flags", "tag", "comment"}

(* The properties of a service, and how the value of each is read.         *)
DNSFields ==
    [hostname |-> "text", type |-> "type", target |-> "text", proxied |-> "bool",
     ttl |-> "int", credential |-> "text", cleanup |-> "bool", comment |-> "text",
     access |-> "text", priority |-> "int", weight |-> "int", port |-> "int",
     flags |-> "int", tag |-> "text"]

TunnelFields ==
    [hostname |-> "text", service |-> "text", tunnel |-> "text", path |-> "text",
     credential |-> "text", cleanup |-> "bool", access |-> "text"]

DefaultDNSService ==
    [hostname |-> "", type |-> "A", target |-> "auto", proxied |-> TRUE, ttl |-> 0,
     credential |-> "default", cleanup |-> TRUE, comment |-> "", access |-> "",
     priority |-> 0, weight |-> 0, port |-> 0, flags |-> 0, tag |-> ""]

DefaultTunnelService ==
    [hostname |-> "", service |-> "", tunnel |-> "default", path |-> "",
     credential |-> "default", cleanup |-> TRUE, access |-> "", origin |-> <<>>]

(* The properties a service takes from the labels of "default".            *)
DNSInherited == {"type", "target", "proxied", "ttl", "credential", "cleanup"}
TunnelInherited == {"tunnel", "credential", "cleanup"}

OriginFields ==
    [connect_timeout |-> "text", tls_timeout |-> "text", tcp_keepalive |-> "text",
     keep_alive_connections |-> "int", keep_alive_timeout |-> "text",
     no_tls_verify |-> "bool", origin_server_name |-> "text", ca_pool |-> "text",
     http_host_header |-> "text", no_happy_eyeballs |-> "bool",
     disable_chunked_encoding |-> "bool", proxy_type |-> "text"]

RecordTypes == {"A", "AAAA", "CNAME", "TXT", "MX", "SRV", "CAA"}

----------------------------------------------------------------------------
(* Values.                                                                 *)

ParseBool(v, def) ==
    IF v \in {"true", "1", "yes", "on"} THEN TRUE
    ELSE IF v \in {"false", "0", "no", "off"} THEN FALSE
    ELSE def

ParseInt(v, def) ==
    IF \E n \in 0 .. MaxInt : ToString(n) = v
    THEN CHOOSE n \in 0 .. MaxInt : ToString(n) = v
    ELSE def

(* strings.ToUpper, for what a label may give as a record type.            *)
ToUpper(v) == IF v = "a" THEN "A" ELSE IF v = "cname" THEN "CNAME" ELSE v

Convert(kind, v, def) ==
    CASE kind = "text" -> v
      [] kind = "type" -> ToUpper(v)
      [] kind = "bool" -> ParseBool(v, def)
      [] kind = "int" -> ParseInt(v, def)

(* The value is read; where that fails, what the service has stays.        *)
Apply(fields, svc, prop, v) ==
    IF prop \in DOMAIN fields
    THEN [svc EXCEPT ![prop] = Convert(fields[prop], v, @)]
    ELSE svc

(* One value after the other; after[i] is the service after the first i.   *)
ApplyAll(fields, svc, props, order) ==
    LET after[i \in 0 .. Len(order)] ==
            IF i = 0 THEN svc
            ELSE Apply(fields, after[i - 1], order[i], props[order[i]])
    IN after[Len(order)]

----------------------------------------------------------------------------
(* Grouping by type and name.                                              *)

Valid(name) == name = "default" \/ name \notin ReservedNames \cup BadNames

NamesOf(labels, type) ==
    {k.name : k \in {l \in DOMAIN labels : l.type = type /\ Valid(l.name)}}

(* The properties of one service, those with a sub apart.                  *)
PropsOf(labels, type, name) ==
    [prop \in {k.prop : k \in {l \in DOMAIN labels :
                                  l.type = type /\ l.name = name /\ l.sub = ""}} |->
        labels[[type |-> type, name |-> name, prop |-> prop, sub |-> ""]]]

SubsOf(labels, type, name, prop) ==
    [sub \in {k.sub : k \in {l \in DOMAIN labels :
                                l.type = type /\ l.name = name /\ l.prop = prop
                                /\ l.sub # ""}} |->
        labels[[type |-> type, name |-> name, prop |-> prop, sub |-> sub]]]

----------------------------------------------------------------------------
(* Services.                                                               *)

Inherit(svc, fields, inherited, props) ==
    ApplyAll(fields, svc, props, SetToSeq(inherited \cap DOMAIN props))

(* Mutant: the defaults are applied on top of the service's own labels.    *)
ParseDNSService_DefaultsLast(labels, name, order) ==
    Inherit(ApplyAll(DNSFields, DefaultDNSService, PropsOf(labels, "dns", name), order),
            DNSFields, DNSInherited, PropsOf(labels, "dns", "default"))

ParseDNSService(labels, name, order) ==
    ApplyAll(DNSFields,
             Inherit(DefaultDNSService, DNSFields, DNSInherited,
                     PropsOf(labels, "dns", "default")),
             PropsOf(labels, "dns", name), order)

ValidDNS(svc) == svc.hostname # "" /\ svc.type \in RecordTypes

(* The origin settings of a tunnel service; a value that cannot be read    *)
(* counts as zero or FALSE.                                                *)
ParseOrigin(labels, name) ==
    LET given == SubsOf(labels, "tunnel", name, "origin")
    IN [f \in DOMAIN given \cap DOMAIN OriginFields |->
           Convert(OriginFields[f], given[f], IF OriginFields[f] = "int" THEN 0 ELSE FALSE)]

ParseTunnelService(labels, name, order) ==
    [ApplyAll(TunnelFields,
              Inherit(DefaultTunnelService, TunnelFields, TunnelInherited,
                      PropsOf(labels, "tunnel", "default")),
              PropsOf(labels, "tunnel", name), order)
        EXCEPT !.origin = ParseOrigin(labels, name)]

ValidTunnel(svc) == svc.hostname # "" /\ svc.service # ""

----------------------------------------------------------------------------
(* Policies.                                                               *)

Selectors ==
    {"emails", "emails_ending_in", "ip_ranges", "country", "everyone", "service_token",
     "access_groups", "certificate", "login_methods"}

Valueless == {"everyone", "certificate"}

Decisions == {"allow", "block", "bypass", "service_auth"}

RulesOf(labels, name, kind) == SubsOf(labels, "access", name, kind)

(* parseAccessRule does not fail.                                          *)
ValidRule(selector, items) == selector \in Selectors /\ (selector \in Valueless \/ items # {})

DecisionOf(labels, name) ==
    LET props == PropsOf(labels, "access", name)
    IN IF "policy.decision" \in DOMAIN props THEN props["policy.decision"] ELSE "allow"

RuleKinds == {"policy.include", "policy.require", "policy.exclude"}

(* Mutant: a rule that is not understood is left out of the policy.        *)
ValidPolicy_SkipsRules(labels, name) ==
    /\ DecisionOf(labels, name) \in Decisions
    /\ DecisionOf(labels, name) \in {"allow", "block"} =>
          DOMAIN RulesOf(labels, name, "policy.include") # {}

(* parseAccessPolicyDef does not fail.                                     *)
ValidPolicy(labels, name) ==
    /\ DecisionOf(labels, name) \in Decisions
    /\ \A kind \in RuleKinds :
          LET rules == RulesOf(labels, name, kind)
          IN \A selector \in DOMAIN rules : ValidRule(selector, rules[selector])
    /\ DecisionOf(labels, name) \in {"allow", "block"} =>
          DOMAIN RulesOf(labels, name, "policy.include") # {}

(* convertAccessRule: one rule for every value.                            *)
ConvertAccessRule(selector, items) ==
    IF selector \in Valueless THEN {[selector |-> selector, item |-> ""]}
    ELSE IF selector \in Selectors THEN {[selector |-> selector, item |-> i] : i \in items}
    ELSE {}

BuildAccessRules(rules) == UNION {ConvertAccessRule(s, rules[s]) : s \in DOMAIN rules}

ParsePolicy(labels, name) ==
    [decision |-> DecisionOf(labels, name),
     include |-> BuildAccessRules(RulesOf(labels, name, "policy.include")),
     require |-> BuildAccessRules(RulesOf(labels, name, "policy.require")),
     exclude |-> BuildAccessRules(RulesOf(labels, name, "policy.exclude"))]

----------------------------------------------------------------------------
(* Parse.  The parts that fail are left out, whatever the others do.       *)

(* Some order of the properties of a service; that it does not matter is   *)
(* a property.                                                             *)
AnyOrder(props) == SetToSeq(DOMAIN props)

ParsedDNS(labels) ==
    LET svc(n) == ParseDNSService(labels, n, AnyOrder(PropsOf(labels, "dns", n)))
    IN [n \in {m \in NamesOf(labels, "dns") \ {"default"} : ValidDNS(svc(m))} |-> svc(n)]

ParsedTunnels(labels) ==
    LET svc(n) == ParseTunnelService(labels, n, AnyOrder(PropsOf(labels, "tunnel", n)))
    IN [n \in {m \in NamesOf(labels, "tunnel") \ {"default"} : ValidTunnel(svc(m))} |-> svc(n)]

ParsedPolicies(labels) ==
    [n \in {m \in NamesOf(labels, "access") \ {"default"} : ValidPolicy(labels, m)} |->
        ParsePolicy(labels, n)]

(* parseContainer: a container without any of these is no container.       *)
Labelled(labels) ==
    {} # DOMAIN ParsedDNS(labels) \cup DOMAIN ParsedTunnels(labels)
         \cup DOMAIN ParsedPolicies(labels)
=============================================================================

--------------------------- MODULE MCDesiredState ---------------------------
(* Instances of DesiredState for TLC.                                      *)
EXTENDS DesiredState

CONSTANTS c1, c2, c3, None

Key(type, name, prop, sub) == [type |-> type, name |-> name, prop |-> prop, sub |-> sub]

DNS(name, prop) == Key("dns", name, prop, "")
Tunnel(name, prop) == Key("tunnel", name, prop, "")
Include(selector) == Key("access", "p", "policy.include", selector)

(* Labels with every choice of the values given for each key, None for a   *)
(* label that is missing.                                                  *)
Labelings(choices) ==
    {[k \in {key \in DOMAIN choices : f[key] # None} |-> f[k]] :
        f \in {g \in [DOMAIN choices -> UNION Range(choices)] :
                  \A k \in DOMAIN choices : g[k] \in choices[k]}}

(* Services with and without a hostname, defaults and values that can and  *)
(* cannot be read; the second service is in order; two names are refused.   *)
DNSLabels ==
    {labels @@ (DNS("default", "hostname") :> "h2") @@ (DNS("api", "hostname") :> "h2") :
        labels \in Labelings((DNS("web", "hostname") :> {"h1"})
                          @@ (DNS("default", "ttl") :> {None, "6"})
                          @@ (DNS("web", "ttl") :> {None, "9", "soon"}))
            \cup Labelings((DNS("default", "cleanup") :> {None, "no"})
                       @@ (DNS("web", "hostname") :> {"h1"})
                       @@ (DNS("web", "type") :> {"a", "bogus"}))
            \cup {DNS("web", "ttl") :> "6", DNS("ttl", "hostname") :> "h1",
                  DNS("Web", "hostname") :> "h1"}}

(* Policies that do and do not pass, with the service that refers to them. *)
PolicyLabels ==
    {decision @@ rule @@ (DNS("web", "hostname") :> "h1") @@ (DNS("web", "access") :> "p") :
        decision \in Labelings((Key("access", "p", "policy.decision", "")
                                   :> {None, "bypass", "deny"})),
        rule \in {Include("emails") :> {"e1", "e2"}, Include("emails") :> {},
                  (Include("everyone") :> {}) @@ (Include("colour") :> {"red"}),
                  Key("access", "p", "policy.exclude", "emails") :> {"e1"}}}

OtherLabels ==
    { (* a route for the same hostname, and one for another *)
      (Tunnel("a", "hostname") :> "h1") @@ (Tunnel("a", "service") :> "s1")
         @@ (Tunnel("a", "access") :> "p") @@ (Tunnel("default", "tunnel") :> "t2")
         @@ (Tunnel("default", "service") :> "s2") @@ (Tunnel("b", "hostname") :> "h2")
         @@ (Tunnel("b", "service") :> "s1") @@ (Tunnel("b", "access") :> "p")
         @@ (Tunnel("b", "tunnel") :> "t1") @@ (Tunnel("b", "cleanup") :> "maybe")
         @@ (Key("tunnel", "b", "origin", "keep_alive_connections") :> "many"),
      (* two services for one hostname *)
      (DNS("a", "hostname") :> "h1") @@ (DNS("b", "hostname") :> "h1")
         @@ (DNS("b", "target") :> "t1") @@ (DNS("b", "access") :> "p"),
      (* a policy for others *)
      (Key("access", "p", "policy.decision", "") :> "bypass") }

ImagesOf ==
    (c1 :> DNSLabels \cup PolicyLabels) @@ (c2 :> OtherLabels) @@ (c3 :> OtherLabels)
=============================================================================

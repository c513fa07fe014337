------------------------ MODULE DesiredState_proofs ------------------------
(***************************************************************************)
(* What is published, for any containers with any labels.                  *)
(***************************************************************************)
EXTENDS DesiredState, TLAPS, FiniteSetTheorems, WellFoundedInduction

----------------------------------------------------------------------------
(* Lists in any order.                                                     *)

(* A set in some order is a list of all its elements.                      *)
LEMMA OrderedSet ==
    ASSUME NEW S, IsFiniteSet(S), NEW f \in SetToSeqs(S)
    PROVE  f \in Seq(S) /\ \A x \in S : \E i \in DOMAIN f : f[i] = x
<1> DEFINE D == 1 .. Cardinality(S)
<1>1. Cardinality(S) \in Nat
  BY FS_CardinalityType
<1>2. f \in [D -> S] /\ \A i, j \in D : i # j => f[i] # f[j]
  BY DEF SetToSeqs
<1>3. Cardinality(D) = Cardinality(S)
  BY <1>1, FS_Interval
<1>4. f \in Injection(D, S)
  BY <1>2 DEF Injection, IsInjective
<1>5. f \in Surjection(D, S)
  BY <1>3, <1>4, FS_Injection
<1>6. \A x \in S : \E i \in D : f[i] = x
  BY <1>5 DEF Surjection
<1> QED
  BY <1>1, <1>2, <1>6

(* The containers in the order of a cycle are all that run.                *)
LEMMA OrderedContainers ==
    ASSUME NEW running, IsFiniteSet(running), NEW order \in Orders(running)
    PROVE  order \in Seq(running) /\ \A c \in running : \E i \in DOMAIN order : order[i] = c
BY OrderedSet DEF Orders

(* A container's services of one kind are all it asks for.                 *)
LEMMA OrderedClaims ==
    ASSUME NEW kind, NEW c, NEW services, IsFiniteSet(DOMAIN services),
           NEW s \in ClaimSeqs(kind, c, services)
    PROVE  /\ s \in Seq(ClaimsOf(kind, c, services))
           /\ \A claim \in ClaimsOf(kind, c, services) : \E i \in DOMAIN s : s[i] = claim
<1> DEFINE A == ClaimsOf(kind, c, services)
<1> PICK names \in SetToSeqs(DOMAIN services) :
        s = [i \in DOMAIN names |-> Claim(kind, c, names[i], services[names[i]])]
  BY DEF ClaimSeqs
<1>1. /\ names \in Seq(DOMAIN services)
      /\ \A n \in DOMAIN services : \E i \in DOMAIN names : names[i] = n
  BY OrderedSet
<1>2. DOMAIN s = 1 .. Len(names) /\ Len(names) \in Nat
  BY <1>1
<1>3. \A i \in DOMAIN s :
         /\ s[i] = Claim(kind, c, names[i], services[names[i]])
         /\ names[i] \in DOMAIN services
  BY <1>1
<1>4. s \in [1 .. Len(names) -> A]
  BY <1>2, <1>3 DEF ClaimsOf
<1>5. s \in Seq(A)
  <2> HIDE DEF A
  <2> QED
    BY <1>2, <1>4
<1> QED
  BY <1>1, <1>2, <1>3, <1>5 DEF ClaimsOf

(* A container has finitely many names.                                    *)
LEMMA FinitelyManyNames ==
    ASSUME NEW labels, IsFiniteSet(DOMAIN labels), NEW type
    PROVE  IsFiniteSet(NamesOf(labels, type))
<1> DEFINE keys == {l \in DOMAIN labels : l.type = type /\ Valid(l.name)}
           f == [k \in keys |-> k.name]
<1>1. IsFiniteSet(keys)
  BY FS_Subset
<1>2. f \in Surjection(keys, NamesOf(labels, type))
  BY DEF Surjection, NamesOf
<1> HIDE DEF f, keys
<1> QED
  BY <1>1, <1>2, FS_Surjection

LEMMA FinitelyManyServices ==
    ASSUME NEW labels, IsFiniteSet(DOMAIN labels)
    PROVE  /\ IsFiniteSet(DOMAIN ParsedDNS(labels))
           /\ IsFiniteSet(DOMAIN ParsedTunnels(labels))
<1>1. DOMAIN ParsedDNS(labels) \subseteq NamesOf(labels, "dns")
  BY DEF ParsedDNS
<1>2. DOMAIN ParsedTunnels(labels) \subseteq NamesOf(labels, "tunnel")
  BY DEF ParsedTunnels
<1> QED
  BY <1>1, <1>2, FinitelyManyNames, FS_Subset
----------------------------------------------------------------------------
(* The list a cycle starts from.                                           *)

DNSOf(c, labels) == ClaimsOf("dns", c, ParsedDNS(labels))
TunnelsOf(c, labels) == ClaimsOf("tunnel", c, ParsedTunnels(labels))

(* A parsed container has all its services and no other.                   *)
LEMMA ParsedContainer ==
    ASSUME NEW c, NEW labels, IsFiniteSet(DOMAIN labels), NEW x \in Parses(c, labels)
    PROVE  /\ x.access = ParsedPolicies(labels)
           /\ x.services \in Seq(DNSOf(c, labels) \cup TunnelsOf(c, labels))
           /\ \A claim \in DNSOf(c, labels) \cup TunnelsOf(c, labels) :
                 \E j \in DOMAIN x.services : x.services[j] = claim
<1> DEFINE A == DNSOf(c, labels) \cup TunnelsOf(c, labels)
<1> PICK d \in ClaimSeqs("dns", c, ParsedDNS(labels)),
         t \in ClaimSeqs("tunnel", c, ParsedTunnels(labels)) :
            x = [services |-> t \o d, access |-> ParsedPolicies(labels)]
  BY DEF Parses
<1>1. /\ d \in Seq(DNSOf(c, labels))
      /\ \A claim \in DNSOf(c, labels) : \E i \in DOMAIN d : d[i] = claim
  BY OrderedClaims, FinitelyManyServices DEF DNSOf
<1>2. /\ t \in Seq(TunnelsOf(c, labels))
      /\ \A claim \in TunnelsOf(c, labels) : \E i \in DOMAIN t : t[i] = claim
  BY OrderedClaims, FinitelyManyServices DEF TunnelsOf
<1>3. d \in Seq(A) /\ t \in Seq(A)
  BY <1>1, <1>2
<1> HIDE DEF A
<1>4. t \o d \in Seq(A)
  BY <1>3
<1>5. \A i \in DOMAIN t : i \in DOMAIN (t \o d) /\ (t \o d)[i] = t[i]
  BY <1>3
<1>6. \A i \in DOMAIN d :
         Len(t) + i \in DOMAIN (t \o d) /\ (t \o d)[Len(t) + i] = d[i]
  BY <1>3
<1>7. ASSUME NEW claim \in A PROVE \E j \in DOMAIN (t \o d) : (t \o d)[j] = claim
  <2>1. CASE claim \in DNSOf(c, labels)
    BY <1>1, <1>6, <2>1
  <2>2. CASE claim \in TunnelsOf(c, labels)
    BY <1>2, <1>5, <2>2
  <2> QED
    BY <2>1, <2>2 DEF A
<1> QED
  BY <1>4, <1>7 DEF A

FiniteView(view) == \A c \in Running(view) : IsFiniteSet(DOMAIN view[c])

(* The list has the running containers and no other.                       *)
LEMMA ListOfContainers ==
    ASSUME NEW view, NEW desired \in GetDesiredState(view)
    PROVE  /\ DOMAIN desired \subseteq Nat
           /\ \A i \in DOMAIN desired :
                 \E c \in Running(view) : desired[i] \in Parses(c, view[c])
           /\ \A c \in Running(view) :
                 \E i \in DOMAIN desired : desired[i] \in Parses(c, view[c])
<1> DEFINE running == Running(view)
           parses == [c \in running |-> Parses(c, view[c])]
<1>1. PICK order \in Orders(running) :
         desired \in {l \in [DOMAIN order -> UNION Range(parses)] :
                         \A i \in DOMAIN order : l[i] \in parses[order[i]]}
  BY DEF GetDesiredState
<1>2. /\ DOMAIN desired = DOMAIN order
      /\ \A i \in DOMAIN order : desired[i] \in parses[order[i]]
  BY <1>1
<1>3. running \subseteq Containers /\ IsFiniteSet(running)
  BY FiniteInput, FS_Subset DEF Running
<1>4. /\ order \in Seq(running)
      /\ \A c \in running : \E i \in DOMAIN order : order[i] = c
  BY <1>3, OrderedContainers
<1>5. \A i \in DOMAIN order : i \in Nat /\ order[i] \in running
  BY <1>4
<1> QED
  BY <1>2, <1>4, <1>5

Requests(view) == DNSClaims(view) \cup TunnelRequests(view)

(* The services of the list are those the running containers ask for.      *)
LEMMA ServicesOfList ==
    ASSUME NEW view, FiniteView(view), NEW desired \in GetDesiredState(view)
    PROVE  /\ DOMAIN Services(desired) \subseteq Nat \X Nat
           /\ \A p \in DOMAIN Services(desired) : Services(desired)[p] \in Requests(view)
           /\ \A x \in Requests(view) :
                 \E p \in DOMAIN Services(desired) : Services(desired)[p] = x
<1>1. Requests(view) =
         UNION {DNSOf(c, view[c]) \cup TunnelsOf(c, view[c]) : c \in Running(view)}
  BY DEF Requests, DNSClaims, TunnelRequests, DNSOf, TunnelsOf
<1>2. /\ \A p \in DOMAIN Services(desired) :
            /\ p = <<p[1], p[2]>>
            /\ p[1] \in DOMAIN desired
            /\ p[2] \in DOMAIN desired[p[1]].services
            /\ Services(desired)[p] = desired[p[1]].services[p[2]]
      /\ \A i \in DOMAIN desired : \A j \in DOMAIN desired[i].services :
            <<i, j>> \in DOMAIN Services(desired)
  BY DEF Services
<1>3. ASSUME NEW c \in Running(view), NEW i \in DOMAIN desired,
             desired[i] \in Parses(c, view[c])
      PROVE  /\ desired[i].services \in Seq(DNSOf(c, view[c]) \cup TunnelsOf(c, view[c]))
             /\ \A claim \in DNSOf(c, view[c]) \cup TunnelsOf(c, view[c]) :
                   \E j \in DOMAIN desired[i].services : desired[i].services[j] = claim
  <2> DEFINE labels == view[c]
             x == desired[i]
  <2>1. IsFiniteSet(DOMAIN labels) /\ x \in Parses(c, labels)
    BY <1>3 DEF FiniteView
  <2> HIDE DEF labels, x
  <2>2. /\ x.services \in Seq(DNSOf(c, labels) \cup TunnelsOf(c, labels))
        /\ \A claim \in DNSOf(c, labels) \cup TunnelsOf(c, labels) :
              \E j \in DOMAIN x.services : x.services[j] = claim
    BY <2>1, ParsedContainer
  <2> QED
    BY <2>2 DEF labels, x
<1>4. ASSUME NEW p \in DOMAIN Services(desired)
      PROVE  p \in Nat \X Nat /\ Services(desired)[p] \in Requests(view)
  <2> PICK c \in Running(view) : desired[p[1]] \in Parses(c, view[c])
    BY <1>2, ListOfContainers
  <2>1. desired[p[1]].services \in Seq(DNSOf(c, view[c]) \cup TunnelsOf(c, view[c]))
    BY <1>2, <1>3
  <2>2. p[2] \in Nat
        /\ desired[p[1]].services[p[2]] \in DNSOf(c, view[c]) \cup TunnelsOf(c, view[c])
    BY <1>2, <2>1
  <2>3. p[1] \in Nat
    BY <1>2, ListOfContainers
  <2> QED
    BY <1>1, <1>2, <2>2, <2>3
<1>5. ASSUME NEW x \in Requests(view)
      PROVE  \E p \in DOMAIN Services(desired) : Services(desired)[p] = x
  <2> PICK c \in Running(view) : x \in DNSOf(c, view[c]) \cup TunnelsOf(c, view[c])
    BY <1>1
  <2> PICK i \in DOMAIN desired : desired[i] \in Parses(c, view[c])
    BY ListOfContainers
  <2>0. \A claim \in DNSOf(c, view[c]) \cup TunnelsOf(c, view[c]) :
           \E j \in DOMAIN desired[i].services : desired[i].services[j] = claim
    BY <1>3
  <2> PICK j \in DOMAIN desired[i].services : desired[i].services[j] = x
    BY <2>0
  <2>1. <<i, j>> \in DOMAIN Services(desired)
    BY <1>2
  <2>2. Services(desired)[<<i, j>>] = x
    BY <1>2, <2>1
  <2> QED
    BY <2>1, <2>2
<1> QED
  BY <1>4, <1>5
----------------------------------------------------------------------------
(* The first of several places.                                            *)

LEMMA Least ==
    ASSUME NEW S \in SUBSET Nat, S # {}
    PROVE  \E i \in S : \A j \in S : i <= j
<1> DEFINE R == {p \in Nat \X Nat : p[1] < p[2]}
<1>1. IsWellFoundedOn(R, Nat)
  BY NatLessThanWellFounded DEF OpToRel
<1>2. \A i, j \in Nat : j < i => <<j, i>> \in R
  OBVIOUS
<1> HIDE DEF R
<1>3. PICK i \in S : \A j \in S : <<j, i>> \notin R
  BY <1>1, WFMin
<1>4. \A j \in S : ~(j < i)
  BY <1>2, <1>3
<1> QED
  BY <1>4

(* Whatever places remain, one of them is the first.                       *)
LEMMA FirstPlace ==
    ASSUME NEW places \in SUBSET (Nat \X Nat), places # {}
    PROVE  /\ FirstOf(places) \in places
           /\ \A q \in places \ {FirstOf(places)} : Before(FirstOf(places), q)
<1> DEFINE rows == {p[1] : p \in places}
<1>1. rows \in SUBSET Nat /\ rows # {}
  OBVIOUS
<1>2. PICK i \in rows : \A k \in rows : i <= k
  <2> HIDE DEF rows
  <2> QED
    BY <1>1, Least
<1> DEFINE columns == {p[2] : p \in {q \in places : q[1] = i}}
<1>3. columns \in SUBSET Nat /\ columns # {}
  OBVIOUS
<1>4. PICK j \in columns : \A k \in columns : j <= k
  <2> HIDE DEF columns
  <2> QED
    BY <1>3, Least
<1>5. PICK p \in places : p[1] = i /\ p[2] = j
  OBVIOUS
<1>6. ASSUME NEW q \in places \ {p} PROVE Before(p, q)
  <2>1. q[1] \in Nat /\ q[2] \in Nat /\ i \in Nat /\ j \in Nat /\ i <= q[1]
    BY <1>2, <1>3, <1>1
  <2>2. CASE q[1] = i
    <3>1. j <= q[2]
      BY <1>4, <2>2
    <3>2. q[2] # j
      BY <1>5, <2>2
    <3> QED
      BY <1>5, <2>1, <2>2, <3>1, <3>2 DEF Before
  <2>3. CASE q[1] # i
    BY <1>5, <2>1, <2>3 DEF Before
  <2> QED
    BY <2>2, <2>3
<1> QED
  BY <1>6 DEF FirstOf

----------------------------------------------------------------------------
(* What is left without the routes of hostnames that have records.         *)

Filtered(desired) == FilterHostnameConflicts(Services(desired))

LEMMA Kinds ==
    ASSUME NEW view
    PROVE  /\ \A x \in DNSClaims(view) : x.kind = "dns"
           /\ \A x \in TunnelRequests(view) : x.kind = "tunnel"
BY DEF DNSClaims, TunnelRequests, ClaimsOf, Claim

(* The hostnames the filter compares are those of the requests.            *)
LEMMA HostsOfRequests ==
    ASSUME NEW view, FiniteView(view), NEW desired \in GetDesiredState(view)
    PROVE  /\ HostsIn(OfKind(Services(desired), "dns")) =
                 {x.svc.hostname : x \in DNSClaims(view)}
           /\ HostsIn(OfKind(Services(desired), "tunnel")) =
                 {x.svc.hostname : x \in TunnelRequests(view)}
<1> DEFINE claims == Services(desired)
<1>1. /\ \A p \in DOMAIN claims : claims[p] \in DNSClaims(view) \cup TunnelRequests(view)
      /\ \A x \in DNSClaims(view) \cup TunnelRequests(view) :
            \E p \in DOMAIN claims : claims[p] = x
  BY ServicesOfList DEF Requests
<1> HIDE DEF claims
<1>2. \A kind : HostsIn(OfKind(claims, kind)) =
         {claims[p].svc.hostname : p \in {q \in DOMAIN claims : claims[q].kind = kind}}
  BY DEF HostsIn, OfKind, Restrict
<1>3. \A p \in DOMAIN claims :
         /\ claims[p].kind = "dns" => claims[p] \in DNSClaims(view)
         /\ claims[p].kind = "tunnel" => claims[p] \in TunnelRequests(view)
  BY <1>1, Kinds
<1> QED
  BY <1>1, <1>2, <1>3, Kinds DEF claims

LEMMA FilteredRequests ==
    ASSUME NEW view, FiniteView(view), NEW desired \in GetDesiredState(view)
    PROVE  /\ DOMAIN Filtered(desired) \subseteq Nat \X Nat
           /\ \A p \in DOMAIN Filtered(desired) :
                 Filtered(desired)[p] \in DNSClaims(view) \cup TunnelClaims(view)
           /\ \A x \in DNSClaims(view) \cup TunnelClaims(view) :
                 \E p \in DOMAIN Filtered(desired) : Filtered(desired)[p] = x
<1> DEFINE claims == Services(desired)
           both == {x.svc.hostname : x \in DNSClaims(view)}
                   \cap {x.svc.hostname : x \in TunnelRequests(view)}
           left == {p \in DOMAIN claims :
                      claims[p].kind = "tunnel" => claims[p].svc.hostname \notin both}
<1>1. Filtered(desired) = [p \in left |-> claims[p]]
  BY HostsOfRequests DEF Filtered, FilterHostnameConflicts, Restrict
<1>2. /\ DOMAIN claims \subseteq Nat \X Nat
      /\ \A p \in DOMAIN claims : claims[p] \in DNSClaims(view) \cup TunnelRequests(view)
      /\ \A x \in DNSClaims(view) \cup TunnelRequests(view) :
            \E p \in DOMAIN claims : claims[p] = x
  BY ServicesOfList DEF Requests
<1> HIDE DEF claims
<1>3. \A t \in TunnelRequests(view) : t \in TunnelClaims(view) <=> t.svc.hostname \notin both
  BY DEF TunnelClaims
<1>4. TunnelClaims(view) \subseteq TunnelRequests(view)
  BY DEF TunnelClaims
<1> HIDE DEF both
<1>5. \A p \in left : claims[p] \in DNSClaims(view) \cup TunnelClaims(view)
  BY <1>2, <1>3, Kinds
<1>6. ASSUME NEW x \in DNSClaims(view) \cup TunnelClaims(view)
      PROVE  \E p \in left : claims[p] = x
  <2>1. PICK p \in DOMAIN claims : claims[p] = x
    BY <1>2, <1>4
  <2>2. x.kind = "tunnel" => x.svc.hostname \notin both
    BY <1>3, <1>4, Kinds
  <2> QED
    BY <2>1, <2>2
<1> QED
  BY <1>1, <1>2, <1>5, <1>6
----------------------------------------------------------------------------
(* The operators' maps.                                                    *)

(* Every key is won by one of its claims.                                  *)
LEMMA Winners ==
    ASSUME NEW claims, DOMAIN claims \subseteq Nat \X Nat,
           NEW key, DOMAIN key = DOMAIN claims
    PROVE  /\ DOMAIN FirstWins(claims, key) = Range(key)
           /\ \A k \in DOMAIN FirstWins(claims, key) :
                 \E p \in DOMAIN claims : key[p] = k /\ FirstWins(claims, key)[k] = claims[p]
<1> DEFINE places(k) == {p \in DOMAIN claims : key[p] = k}
<1>1. DOMAIN FirstWins(claims, key) = Range(key)
  BY DEF FirstWins
<1>2. ASSUME NEW k \in DOMAIN FirstWins(claims, key)
      PROVE  FirstOf(places(k)) \in places(k)
  <2>1. places(k) \in SUBSET (Nat \X Nat) /\ places(k) # {}
    BY <1>1 DEF Range
  <2> HIDE DEF places
  <2> QED
    BY <2>1, FirstPlace
<1>3. \A k \in DOMAIN FirstWins(claims, key) :
         FirstWins(claims, key)[k] = claims[FirstOf(places(k))]
  BY DEF FirstWins
<1> QED
  BY <1>1, <1>2, <1>3

Records(desired) == OfKind(Filtered(desired), "dns")
Routes(desired) == OfKind(Filtered(desired), "tunnel")

LEMMA PublishedKinds ==
    ASSUME NEW view, FiniteView(view), NEW desired \in GetDesiredState(view)
    PROVE  /\ DOMAIN Records(desired) \subseteq Nat \X Nat
           /\ \A p \in DOMAIN Records(desired) : Records(desired)[p] \in DNSClaims(view)
           /\ \A x \in DNSClaims(view) :
                 \E p \in DOMAIN Records(desired) : Records(desired)[p] = x
           /\ DOMAIN Routes(desired) \subseteq Nat \X Nat
           /\ \A p \in DOMAIN Routes(desired) : Routes(desired)[p] \in TunnelClaims(view)
           /\ \A x \in TunnelClaims(view) :
                 \E p \in DOMAIN Routes(desired) : Routes(desired)[p] = x
<1> DEFINE left == Filtered(desired)
           places(kind) == {p \in DOMAIN left : left[p].kind = kind}
<1>1. TunnelClaims(view) \subseteq TunnelRequests(view)
  BY DEF TunnelClaims
<1>2. Records(desired) = [p \in places("dns") |-> left[p]]
  BY DEF Records, OfKind, Restrict
<1>3. Routes(desired) = [p \in places("tunnel") |-> left[p]]
  BY DEF Routes, OfKind, Restrict
<1>4. /\ DOMAIN Records(desired) = places("dns")
      /\ \A p \in DOMAIN Records(desired) : Records(desired)[p] = left[p]
  BY <1>2
<1>5. /\ DOMAIN Routes(desired) = places("tunnel")
      /\ \A p \in DOMAIN Routes(desired) : Routes(desired)[p] = left[p]
  BY <1>3
<1> QED
  BY <1>1, <1>4, <1>5, FilteredRequests, Kinds

(* The records that are published are those asked for, one for each key,   *)
(* and so are the routes.                                                  *)
LEMMA PublishedServices ==
    ASSUME NEW view, FiniteView(view), NEW desired \in GetDesiredState(view)
    PROVE  /\ DOMAIN Publication(desired).dns = {DNSKey(d) : d \in DNSClaims(view)}
           /\ \A k \in DOMAIN Publication(desired).dns :
                 Publication(desired).dns[k] \in {d \in DNSClaims(view) : DNSKey(d) = k}
           /\ DOMAIN Publication(desired).tunnel = {TunnelKey(t) : t \in TunnelClaims(view)}
           /\ \A k \in DOMAIN Publication(desired).tunnel :
                 Publication(desired).tunnel[k] \in {t \in TunnelClaims(view) : TunnelKey(t) = k}
<1> DEFINE r == Records(desired)
           t == Routes(desired)
           rkey == [p \in DOMAIN r |-> DNSKey(r[p])]
           tkey == [p \in DOMAIN t |-> TunnelKey(t[p])]
<1>1. /\ Publication(desired).dns = FirstWins(r, rkey)
      /\ Publication(desired).tunnel = FirstWins(t, tkey)
  BY DEF Publication, Filtered, Records, Routes
<1>2. /\ DOMAIN r \subseteq Nat \X Nat
      /\ \A p \in DOMAIN r : r[p] \in DNSClaims(view)
      /\ \A x \in DNSClaims(view) : \E p \in DOMAIN r : r[p] = x
      /\ DOMAIN t \subseteq Nat \X Nat
      /\ \A p \in DOMAIN t : t[p] \in TunnelClaims(view)
      /\ \A x \in TunnelClaims(view) : \E p \in DOMAIN t : t[p] = x
  BY PublishedKinds
<1> HIDE DEF r, t
<1>3. DOMAIN rkey = DOMAIN r /\ DOMAIN tkey = DOMAIN t
  OBVIOUS
<1>4. /\ \A p \in DOMAIN r : rkey[p] = DNSKey(r[p])
      /\ \A p \in DOMAIN t : tkey[p] = TunnelKey(t[p])
  OBVIOUS
<1> HIDE DEF rkey, tkey
<1>5. /\ DOMAIN FirstWins(r, rkey) = Range(rkey)
      /\ \A k \in DOMAIN FirstWins(r, rkey) :
            \E p \in DOMAIN r : rkey[p] = k /\ FirstWins(r, rkey)[k] = r[p]
  BY <1>2, <1>3, Winners
<1>6. /\ DOMAIN FirstWins(t, tkey) = Range(tkey)
      /\ \A k \in DOMAIN FirstWins(t, tkey) :
            \E p \in DOMAIN t : tkey[p] = k /\ FirstWins(t, tkey)[k] = t[p]
  BY <1>2, <1>3, Winners
<1>7. /\ Range(rkey) = {DNSKey(d) : d \in DNSClaims(view)}
      /\ Range(tkey) = {TunnelKey(x) : x \in TunnelClaims(view)}
  BY <1>2, <1>3, <1>4 DEF Range
<1> QED
  BY <1>1, <1>2, <1>4, <1>5, <1>6, <1>7
----------------------------------------------------------------------------
(* Access.                                                                 *)

(* Every rule of a policy that is read reaches Cloudflare, none is added.  *)
LEMMA RulesSent ==
    ASSUME NEW rules, \A s \in DOMAIN rules : ValidRule(s, rules[s])
    PROVE  {rule.selector : rule \in BuildAccessRules(rules)} = DOMAIN rules
<1>1. ASSUME NEW s \in DOMAIN rules
      PROVE  /\ \A rule \in ConvertAccessRule(s, rules[s]) : rule.selector = s
             /\ \E rule \in ConvertAccessRule(s, rules[s]) : rule.selector = s
  <2>1. s \in Selectors /\ (s \in Valueless \/ rules[s] # {})
    BY DEF ValidRule
  <2>2. CASE s \in Valueless
    <3>1. ConvertAccessRule(s, rules[s]) = {[selector |-> s, item |-> ""]}
      BY <2>2 DEF ConvertAccessRule
    <3>2. [selector |-> s, item |-> ""].selector = s
      OBVIOUS
    <3> QED
      BY <3>1, <3>2
  <2>3. CASE s \notin Valueless
    <3>1. ConvertAccessRule(s, rules[s]) = {[selector |-> s, item |-> i] : i \in rules[s]}
      BY <2>1, <2>3 DEF ConvertAccessRule
    <3>2. PICK i : i \in rules[s]
      BY <2>1, <2>3
    <3>3. \A item : [selector |-> s, item |-> item].selector = s
      OBVIOUS
    <3>4. [selector |-> s, item |-> i] \in ConvertAccessRule(s, rules[s])
      BY <3>1, <3>2
    <3> QED
      BY <3>1, <3>3, <3>4
  <2> QED
    BY <2>2, <2>3
<1>2. \A rule : rule \in BuildAccessRules(rules) <=>
         \E s \in DOMAIN rules : rule \in ConvertAccessRule(s, rules[s])
  BY DEF BuildAccessRules
<1> QED
  BY <1>1, <1>2

(* Each rule comes with its own items.                                     *)
LEMMA ItemsSent ==
    ASSUME NEW rules, \A s \in DOMAIN rules : ValidRule(s, rules[s]),
           NEW s \in DOMAIN rules \ Valueless
    PROVE  rules[s] = {rule.item : rule \in {x \in BuildAccessRules(rules) : x.selector = s}}
<1> DEFINE of(t) == ConvertAccessRule(t, rules[t])
           sent == {x \in BuildAccessRules(rules) : x.selector = s}
<1>1. of(s) = {[selector |-> s, item |-> i] : i \in rules[s]}
  BY DEF ValidRule, ConvertAccessRule
<1>2. \A t \in DOMAIN rules : \A x \in of(t) : x.selector = t
  <2> SUFFICES ASSUME NEW t \in DOMAIN rules, NEW x \in of(t) PROVE x.selector = t
    OBVIOUS
  <2>1. CASE t \in Valueless
    <3>1. x = [selector |-> t, item |-> ""]
      BY <2>1 DEF ConvertAccessRule
    <3> QED
      BY <3>1
  <2>2. CASE t \notin Valueless
    <3>1. of(t) = {[selector |-> t, item |-> i] : i \in rules[t]}
      BY <2>2 DEF ValidRule, ConvertAccessRule
    <3> HIDE DEF of
    <3>2. PICK i : x = [selector |-> t, item |-> i]
      BY <3>1
    <3> QED
      BY <3>2
  <2> QED
    BY <2>1, <2>2
<1>3. \A x : x \in BuildAccessRules(rules) <=> \E t \in DOMAIN rules : x \in of(t)
  BY DEF BuildAccessRules
<1>4. s \in DOMAIN rules
  OBVIOUS
<1> HIDE DEF of
<1>5. \A x : x \in sent <=> x \in of(s)
  BY <1>2, <1>3, <1>4
<1>6. sent = of(s)
  BY <1>5
<1> HIDE DEF sent
<1>7. ASSUME NEW i PROVE i \in rules[s] <=> \E rule \in sent : i = rule.item
  <2> DEFINE rule(j) == [selector |-> s, item |-> j]
  <2>1. \A j : rule(j).item = j
    OBVIOUS
  <2>2. \A x : x \in sent <=> \E j \in rules[s] : x = rule(j)
    BY <1>1, <1>6
  <2> HIDE DEF rule
  <2> QED
    BY <2>1, <2>2
<1>8. {rule.item : rule \in sent} = rules[s]
  BY <1>7
<1> QED
  BY <1>8 DEF sent

LEMMA PolicyWhole ==
    ASSUME NEW labels, NEW n \in DOMAIN ParsedPolicies(labels)
    PROVE  LET policy == ParsedPolicies(labels)[n]
               inFull(kind, sent) ==
                   LET written == RulesOf(labels, n, kind)
                   IN /\ DOMAIN written = {rule.selector : rule \in sent}
                      /\ \A s \in DOMAIN written \ Valueless :
                            written[s] =
                                {rule.item : rule \in {x \in sent : x.selector = s}}
           IN /\ inFull("policy.include", policy.include)
              /\ inFull("policy.require", policy.require)
              /\ inFull("policy.exclude", policy.exclude)
              /\ policy.decision \in {"allow", "block"} => policy.include # {}
<1> DEFINE rules(kind) == RulesOf(labels, n, kind)
<1>1. ParsedPolicies(labels)[n] = ParsePolicy(labels, n) /\ ValidPolicy(labels, n)
  BY DEF ParsedPolicies
<1>2. \A kind \in RuleKinds : \A s \in DOMAIN rules(kind) : ValidRule(s, rules(kind)[s])
  BY <1>1 DEF ValidPolicy
<1>3. \A kind \in RuleKinds :
         /\ DOMAIN rules(kind) = {r.selector : r \in BuildAccessRules(rules(kind))}
         /\ \A s \in DOMAIN rules(kind) \ Valueless :
               rules(kind)[s] =
                   {r.item : r \in {x \in BuildAccessRules(rules(kind)) : x.selector = s}}
  BY <1>2, RulesSent, ItemsSent
<1>4. DecisionOf(labels, n) \in {"allow", "block"} => DOMAIN rules("policy.include") # {}
  BY <1>1 DEF ValidPolicy
<1> QED
  BY <1>1, <1>3, <1>4 DEF ParsePolicy, RuleKinds

(* The policies of all containers, each as one of them defines it.         *)
LEMMA PoliciesOfAll ==
    ASSUME NEW view, FiniteView(view), NEW desired \in GetDesiredState(view)
    PROVE  /\ DOMAIN GlobalPolicies(desired) = Defined(view)
           /\ \A n \in Defined(view) : \E c \in Running(view) :
                 /\ n \in DOMAIN ParsedPolicies(view[c])
                 /\ GlobalPolicies(desired)[n] = ParsedPolicies(view[c])[n]
<1>1. \A c \in Running(view) : \A i \in DOMAIN desired :
         desired[i] \in Parses(c, view[c]) => desired[i].access = ParsedPolicies(view[c])
  BY ParsedContainer DEF FiniteView
<1>2. DOMAIN GlobalPolicies(desired) = UNION {DOMAIN desired[i].access : i \in DOMAIN desired}
  BY DEF GlobalPolicies
<1>3. DOMAIN GlobalPolicies(desired) = Defined(view)
  BY <1>1, <1>2, ListOfContainers DEF Defined
<1>4. ASSUME NEW n \in Defined(view)
      PROVE  \E c \in Running(view) :
                /\ n \in DOMAIN ParsedPolicies(view[c])
                /\ GlobalPolicies(desired)[n] = ParsedPolicies(view[c])[n]
  <2> DEFINE where == {i \in DOMAIN desired : n \in DOMAIN desired[i].access}
  <2>1. where \in SUBSET Nat /\ where # {}
    BY <1>2, <1>3, ListOfContainers
  <2>2. GlobalPolicies(desired)[n] = desired[Min(where)].access[n]
    BY <1>3 DEF GlobalPolicies
  <2>3. Min(where) \in where
    <3> HIDE DEF where
    <3> QED
      BY <2>1, Least DEF Min
  <2>4. PICK c \in Running(view) : desired[Min(where)] \in Parses(c, view[c])
    BY <2>3, ListOfContainers
  <2> QED
    BY <1>1, <2>2, <2>3, <2>4
<1> QED
  BY <1>3, <1>4

(* What is protected, by what.                                             *)
LEMMA PublishedBindings ==
    ASSUME NEW view, FiniteView(view), NEW desired \in GetDesiredState(view)
    PROVE  /\ DOMAIN Publication(desired).bindings = {x.svc.hostname : x \in Resolved(view)}
           /\ \A h \in DOMAIN Publication(desired).bindings :
                 \E x \in Resolved(view), c \in Running(view) :
                    /\ x.svc.hostname = h
                    /\ x.svc.access \in DOMAIN ParsedPolicies(view[c])
                    /\ Publication(desired).bindings[h] =
                          [policy |-> ParsedPolicies(view[c])[x.svc.access],
                           cleanup |-> x.svc.cleanup]
<1> DEFINE claims == Filtered(desired)
           policies == GlobalPolicies(desired)
           known == Restrict(claims, {p \in DOMAIN claims :
                       claims[p].svc.access \in DOMAIN policies})
           hosts == Hostnames(known)
           first == FirstWins(known, hosts)
<1>1. Publication(desired).bindings =
         [h \in DOMAIN first |->
            [policy |-> policies[first[h].svc.access], cleanup |-> first[h].svc.cleanup]]
  BY DEF Publication, ResolveAccessReferences, Filtered
<1>2. /\ DOMAIN policies = Defined(view)
      /\ \A n \in Defined(view) : \E c \in Running(view) :
            n \in DOMAIN ParsedPolicies(view[c]) /\ policies[n] = ParsedPolicies(view[c])[n]
  BY PoliciesOfAll
<1>3. /\ DOMAIN claims \subseteq Nat \X Nat
      /\ \A p \in DOMAIN claims : claims[p] \in DNSClaims(view) \cup TunnelClaims(view)
      /\ \A x \in DNSClaims(view) \cup TunnelClaims(view) : \E p \in DOMAIN claims : claims[p] = x
  BY FilteredRequests
<1> HIDE DEF claims, policies
<1>4. /\ DOMAIN known = {p \in DOMAIN claims : claims[p].svc.access \in Defined(view)}
      /\ \A p \in DOMAIN known : known[p] = claims[p]
  BY <1>2 DEF Restrict
<1> HIDE DEF known
<1>5. /\ DOMAIN known \subseteq Nat \X Nat
      /\ \A p \in DOMAIN known : known[p] \in Resolved(view)
      /\ \A x \in Resolved(view) : \E p \in DOMAIN known : known[p] = x
  BY <1>3, <1>4 DEF Resolved
<1>6. DOMAIN hosts = DOMAIN known /\ \A p \in DOMAIN known : hosts[p] = known[p].svc.hostname
  BY DEF Hostnames
<1> HIDE DEF hosts
<1>7. /\ DOMAIN first = Range(hosts)
      /\ \A h \in DOMAIN first : \E p \in DOMAIN known : hosts[p] = h /\ first[h] = known[p]
  BY <1>5, <1>6, Winners
<1>8. Range(hosts) = {x.svc.hostname : x \in Resolved(view)}
  BY <1>5, <1>6 DEF Range
<1> HIDE DEF first
<1>9. ASSUME NEW h \in DOMAIN first
      PROVE  \E x \in Resolved(view), c \in Running(view) :
                /\ x.svc.hostname = h
                /\ x.svc.access \in DOMAIN ParsedPolicies(view[c])
                /\ [policy |-> policies[first[h].svc.access], cleanup |-> first[h].svc.cleanup] =
                      [policy |-> ParsedPolicies(view[c])[x.svc.access],
                       cleanup |-> x.svc.cleanup]
  <2>1. first[h] \in Resolved(view) /\ first[h].svc.hostname = h
    BY <1>5, <1>6, <1>7
  <2>2. first[h].svc.access \in Defined(view)
    BY <2>1 DEF Resolved
  <2>3. PICK c \in Running(view) :
           /\ first[h].svc.access \in DOMAIN ParsedPolicies(view[c])
           /\ policies[first[h].svc.access] = ParsedPolicies(view[c])[first[h].svc.access]
    BY <1>2, <2>2
  <2> QED
    BY <2>1, <2>3
<1> DEFINE binding(h) == [policy |-> policies[first[h].svc.access],
                          cleanup |-> first[h].svc.cleanup]
<1>10. /\ DOMAIN Publication(desired).bindings = DOMAIN first
       /\ \A h \in DOMAIN first : Publication(desired).bindings[h] = binding(h)
  BY <1>1
<1>11. DOMAIN Publication(desired).bindings = {x.svc.hostname : x \in Resolved(view)}
  BY <1>7, <1>8, <1>10
<1>12. ASSUME NEW h \in DOMAIN Publication(desired).bindings
       PROVE  \E x \in Resolved(view), c \in Running(view) :
                 /\ x.svc.hostname = h
                 /\ x.svc.access \in DOMAIN ParsedPolicies(view[c])
                 /\ Publication(desired).bindings[h] =
                       [policy |-> ParsedPolicies(view[c])[x.svc.access],
                        cleanup |-> x.svc.cleanup]
  <2>1. h \in DOMAIN first /\ Publication(desired).bindings[h] = binding(h)
    BY <1>10
  <2>2. PICK x \in Resolved(view), c \in Running(view) :
           /\ x.svc.hostname = h
           /\ x.svc.access \in DOMAIN ParsedPolicies(view[c])
           /\ binding(h) = [policy |-> ParsedPolicies(view[c])[x.svc.access],
                            cleanup |-> x.svc.cleanup]
    BY <1>9, <2>1
  <2> QED
    BY <2>1, <2>2
<1> QED
  BY <1>11, <1>12
----------------------------------------------------------------------------
(* Values.                                                                 *)

FieldKinds == {"text", "type", "bool", "int"}

(* A value that is read does not depend on what the service had, one that  *)
(* is not leaves that as it was.                                           *)
LEMMA ReadOrKept ==
    ASSUME NEW kind \in FieldKinds, NEW v, NEW def
    PROVE  /\ Readable(kind, v) => \A other : Convert(kind, v, other) = Convert(kind, v, def)
           /\ ~Readable(kind, v) => Convert(kind, v, def) = def
<1>1. CASE kind \in {"text", "type"}
  BY <1>1 DEF Readable, Convert
<1>2. CASE kind = "bool"
  <2>1. TRUE # FALSE
    OBVIOUS
  <2> QED
    BY <1>2, <2>1 DEF Readable, Convert, ParseBool
<1>3. CASE kind = "int"
  BY <1>3 DEF Readable, Convert, ParseInt
<1> QED
  BY <1>1, <1>2, <1>3 DEF FieldKinds

----------------------------------------------------------------------------
(* The loop over the labels of a service.                                  *)

Step(fields, svc, props, order, i, before) ==
    IF i = 0 THEN svc ELSE Apply(fields, before, order[i], props[order[i]])

(* after[i] is the service after the first i of n labels.                  *)
IsLoop(fields, svc, props, order, n, after) ==
    after = [i \in 0 .. n |-> Step(fields, svc, props, order, i, after[i - 1])]

(* Such a loop exists: were there one too long, there would be a shortest. *)
LEMMA LoopExists ==
    ASSUME NEW fields, NEW svc, NEW props, NEW order, NEW len \in Nat
    PROVE  \E after : IsLoop(fields, svc, props, order, len, after)
<1> DEFINE Loop(n, after) == IsLoop(fields, svc, props, order, n, after)
           S == {n \in Nat : \A after : ~Loop(n, after)}
<1>1. SUFFICES ASSUME S # {} PROVE FALSE
  OBVIOUS
<1>2. PICK n \in S : \A m \in S : n <= m
  BY <1>1, Least
<1>3. n # 0
  <2> DEFINE none == [i \in 0 .. 0 |-> svc]
  <2>1. none = [i \in 0 .. 0 |-> Step(fields, svc, props, order, i, none[i - 1])]
    BY DEF Step
  <2>2. Loop(0, none)
    BY <2>1 DEF IsLoop
  <2> QED
    BY <2>2
<1>4. n \in Nat /\ n - 1 \in Nat /\ n - 1 \notin S
  BY <1>2, <1>3
<1>5. PICK before : Loop(n - 1, before)
  BY <1>4
<1> DEFINE last == Step(fields, svc, props, order, n, before[n - 1])
           after == [i \in 0 .. n |-> IF i = n THEN last ELSE before[i]]
<1>6. ASSUME NEW i \in 0 .. n
      PROVE  after[i] = Step(fields, svc, props, order, i, after[i - 1])
  <2>1. CASE i = n
    BY <1>3, <1>4, <2>1
  <2>2. CASE i = 0
    <3>1. before[0] = Step(fields, svc, props, order, 0, before[0 - 1])
      BY <1>4, <1>5 DEF IsLoop
    <3> QED
      BY <1>3, <2>2, <3>1 DEF Step
  <2>3. CASE i # n /\ i # 0
    <3>1. i \in 0 .. n - 1 /\ i - 1 \in 0 .. n /\ i - 1 # n
      BY <1>4, <2>3
    <3>2. before[i] = Step(fields, svc, props, order, i, before[i - 1])
      BY <1>5, <3>1 DEF IsLoop
    <3> QED
      BY <2>3, <3>1, <3>2
  <2> QED
    BY <2>1, <2>2, <2>3
<1>7. Loop(n, after)
  BY <1>6 DEF IsLoop
<1> QED
  BY <1>2, <1>7

(* What the loop leaves in a service: the property that a label has is     *)
(* converted once, from what was there, and no other property changes.     *)
Applied(fields, svc, props, done, f) ==
    IF f \in done THEN Convert(fields[f], props[f], svc[f]) ELSE svc[f]

HasApplied(fields, svc, props, done, result) ==
    /\ DOMAIN result = DOMAIN svc
    /\ \A f \in DOMAIN fields : result[f] = Applied(fields, svc, props, done, f)

Done(order, n) == {order[i] : i \in 1 .. n}

Distinct(order, n) == \A i, j \in 1 .. n : i # j => order[i] # order[j]

(* No label is read twice, so each finds what the service had at first.   *)
LEMMA LoopApplies ==
    ASSUME NEW fields, NEW svc, DOMAIN fields \subseteq DOMAIN svc, NEW props,
           NEW order, NEW len \in Nat, Distinct(order, len),
           NEW after, IsLoop(fields, svc, props, order, len, after)
    PROVE  HasApplied(fields, svc, props, Done(order, len), after[len])
<1> DEFINE done(i) == Done(order, i)
           As(i) == HasApplied(fields, svc, props, done(i), after[i])
           S == {i \in 0 .. len : ~As(i)}
<1>1. SUFFICES ASSUME S # {} PROVE FALSE
  <2> len \in 0 .. len
    OBVIOUS
  <2> QED
    OBVIOUS
<1>2. PICK i \in S : \A m \in S : i <= m
  <2> S \in SUBSET Nat
    OBVIOUS
  <2> QED
    BY <1>1, Least
<1>3. \A m \in 0 .. len : after[m] = Step(fields, svc, props, order, m, after[m - 1])
  BY DEF IsLoop
<1>4. i # 0
  <2>1. after[0] = svc
    BY <1>3 DEF Step
  <2>2. done(0) = {}
    BY DEF Done
  <2>3. As(0)
    BY <2>1, <2>2 DEF HasApplied, Applied
  <2> QED
    BY <1>2, <2>3
<1>5. i \in 1 .. len /\ i - 1 \in 0 .. len /\ i - 1 \notin S
  BY <1>2, <1>4
<1>6. As(i - 1)
  BY <1>5
<1> DEFINE p == order[i]
           before == after[i - 1]
<1>7. after[i] = Apply(fields, before, p, props[p])
  BY <1>3, <1>4, <1>5 DEF Step
<1>8. done(i) = done(i - 1) \cup {p} /\ p \notin done(i - 1)
  <2>1. 1 .. i = (1 .. i - 1) \cup {i}
    BY <1>5
  <2>2. \A j \in 1 .. i - 1 : j \in 1 .. len /\ j # i
    BY <1>5
  <2> QED
    BY <1>5, <2>1, <2>2 DEF Done, Distinct
<1> HIDE DEF done, p, before
<1>9. DOMAIN before = DOMAIN svc /\ \A f \in DOMAIN fields :
         before[f] = Applied(fields, svc, props, done(i - 1), f)
  BY <1>6 DEF before, HasApplied
<1>10. DOMAIN after[i] = DOMAIN svc
  BY <1>7, <1>9 DEF Apply
<1>11. ASSUME NEW f \in DOMAIN fields
       PROVE  after[i][f] = Applied(fields, svc, props, done(i), f)
  <2>1. CASE f = p
    <3>1. before[f] = svc[f]
      BY <1>8, <1>9, <2>1 DEF Applied
    <3>2. after[i][f] = Convert(fields[f], props[f], svc[f])
      BY <1>7, <1>9, <2>1, <3>1 DEF Apply
    <3> QED
      BY <1>8, <2>1, <3>2 DEF Applied
  <2>2. CASE f # p
    <3>1. after[i][f] = before[f]
      BY <1>7, <1>9, <2>2 DEF Apply
    <3> QED
      BY <1>8, <1>9, <2>2, <3>1 DEF Applied
  <2> QED
    BY <2>1, <2>2
<1>12. As(i)
  BY <1>10, <1>11 DEF HasApplied
<1> QED
  BY <1>2, <1>12

(* And so whatever the order of the labels was.                            *)
LEMMA AllApplied ==
    ASSUME NEW fields, NEW svc, DOMAIN fields \subseteq DOMAIN svc, NEW props,
           NEW given, IsFiniteSet(given), NEW order \in SetToSeqs(given)
    PROVE  HasApplied(fields, svc, props, given, ApplyAll(fields, svc, props, order))
<1> DEFINE len == Len(order)
<1>1. order \in Seq(given) /\ \A x \in given : \E i \in DOMAIN order : order[i] = x
  BY OrderedSet
<1>2. len \in Nat /\ DOMAIN order = 1 .. len
  BY <1>1
<1>3. Distinct(order, len)
  BY <1>2 DEF SetToSeqs, Distinct
<1>4. Done(order, len) = given
  BY <1>1, <1>2 DEF Done
<1> DEFINE after == CHOOSE a : a = [i \in 0 .. len |->
                        IF i = 0 THEN svc
                        ELSE Apply(fields, a[i - 1], order[i], props[order[i]])]
<1>5. ApplyAll(fields, svc, props, order) = after[len]
  BY DEF ApplyAll
<1>6. IsLoop(fields, svc, props, order, len, after)
  <2>1. \E a : IsLoop(fields, svc, props, order, len, a)
    BY <1>2, LoopExists
  <2> QED
    BY <2>1 DEF IsLoop, Step
<1> HIDE DEF len, after
<1>7. HasApplied(fields, svc, props, Done(order, len), after[len])
  <2>1. len \in Nat
    BY <1>2
  <2> QED
    BY <1>3, <1>6, <2>1, LoopApplies
<1> QED
  BY <1>4, <1>5, <1>7

(* SetToSeq finds one of the orders.                                       *)
LEMMA SomeOrder ==
    ASSUME NEW S, IsFiniteSet(S)
    PROVE  SetToSeq(S) \in SetToSeqs(S)
<1> DEFINE D == 1 .. Cardinality(S)
<1>1. ExistsBijection(D, S)
  BY FS_CountingElements, FS_CardinalityType
<1>2. PICK f \in [D -> S] : IsInjective(f)
  BY <1>1 DEF ExistsBijection, Bijection, Injection, IsInjective
<1> QED
  BY <1>2 DEF SetToSeq, SetToSeqs, IsInjective

(* A service from its own labels on top of those of "default".             *)
LEMMA ServiceAsDeclared ==
    ASSUME NEW fields, \A f \in DOMAIN fields : fields[f] \in FieldKinds,
           NEW base, DOMAIN fields \subseteq DOMAIN base,
           NEW inherited, NEW general, IsFiniteSet(DOMAIN general),
           NEW own, IsFiniteSet(DOMAIN own), NEW order \in SetToSeqs(DOMAIN own),
           NEW svc, svc = ApplyAll(fields, Inherit(base, fields, inherited, general), own, order)
    PROVE  /\ DOMAIN svc = DOMAIN base
           /\ \A f \in DOMAIN fields :
                 svc[f] = Declared(fields, own, inherited, general, base, f)
<1> DEFINE given == inherited \cap DOMAIN general
           first == SetToSeq(given)
           middle == Inherit(base, fields, inherited, general)
<1>1. IsFiniteSet(given)
  BY FS_Subset
<1>2. first \in SetToSeqs(given)
  BY <1>1, SomeOrder
<1>3. middle = ApplyAll(fields, base, general, first)
  BY DEF Inherit
<1> HIDE DEF given, first, middle
<1>4. HasApplied(fields, base, general, given, middle)
  BY <1>1, <1>2, <1>3, AllApplied
<1>5. DOMAIN middle = DOMAIN base
  BY <1>4 DEF HasApplied
<1>6. HasApplied(fields, middle, own, DOMAIN own, svc)
  BY <1>5, AllApplied DEF middle
<1>7. ASSUME NEW f \in DOMAIN fields
      PROVE  svc[f] = Declared(fields, own, inherited, general, base, f)
  <2> DEFINE kind == fields[f]
  <2>1. kind \in FieldKinds
    OBVIOUS
  <2>2. /\ svc[f] = Applied(fields, middle, own, DOMAIN own, f)
        /\ middle[f] = Applied(fields, base, general, given, f)
    BY <1>4, <1>6 DEF HasApplied
  <2>3. \A v, def, other : Readable(kind, v) =>
                              Convert(kind, v, other) = Convert(kind, v, def)
    BY <2>1, ReadOrKept
  <2>4. \A v, def : ~Readable(kind, v) => Convert(kind, v, def) = def
    BY <2>1, ReadOrKept
  <2> HIDE DEF kind
  <2>5. middle[f] = IF f \in inherited /\ Gives(fields, general, f)
                    THEN Convert(kind, general[f], base[f]) ELSE base[f]
    BY <2>2, <2>4 DEF Applied, Gives, given, kind
  <2>6. svc[f] = IF Gives(fields, own, f) THEN Convert(kind, own[f], base[f]) ELSE middle[f]
    BY <2>2, <2>3, <2>4 DEF Applied, Gives, kind
  <2> QED
    BY <2>5, <2>6 DEF Declared, kind
<1> QED
  BY <1>5, <1>6, <1>7 DEF HasApplied

(* A service has finitely many labels.                                    *)
LEMMA FinitelyManyProps ==
    ASSUME NEW labels, IsFiniteSet(DOMAIN labels), NEW type, NEW name
    PROVE  IsFiniteSet(DOMAIN PropsOf(labels, type, name))
<1> DEFINE keys == {l \in DOMAIN labels : l.type = type /\ l.name = name /\ l.sub = ""}
           f == [k \in keys |-> k.prop]
<1>1. IsFiniteSet(keys)
  BY FS_Subset
<1>2. f \in Surjection(keys, DOMAIN PropsOf(labels, type, name))
  BY DEF Surjection, PropsOf
<1> HIDE DEF f, keys
<1> QED
  BY <1>1, <1>2, FS_Surjection

(* The two kinds of services: a record's ...                              *)
LEMMA DNSAsDeclared ==
    ASSUME NEW labels, IsFiniteSet(DOMAIN labels), NEW name,
           NEW order \in SetToSeqs(DOMAIN PropsOf(labels, "dns", name)),
           NEW f \in DOMAIN DNSFields
    PROVE  ParseDNSService(labels, name, order)[f] =
              Declared(DNSFields, PropsOf(labels, "dns", name), DNSInherited,
                       PropsOf(labels, "dns", "default"), DefaultDNSService, f)
<1> DEFINE own == PropsOf(labels, "dns", name)
           general == PropsOf(labels, "dns", "default")
           svc == ParseDNSService(labels, name, order)
<1>1. IsFiniteSet(DOMAIN own) /\ IsFiniteSet(DOMAIN general)
  BY FinitelyManyProps
<1>2. DOMAIN DNSFields \subseteq DOMAIN DefaultDNSService
  BY DEF DNSFields, DefaultDNSService
<1>3. \A g \in DOMAIN DNSFields : DNSFields[g] \in FieldKinds
  BY DEF DNSFields, FieldKinds
<1>4. svc = ApplyAll(DNSFields, Inherit(DefaultDNSService, DNSFields, DNSInherited, general),
                     own, order)
  BY DEF ParseDNSService
<1>5. order \in SetToSeqs(DOMAIN own)
  OBVIOUS
<1> HIDE DEF own, general, svc
<1>6. \A g \in DOMAIN DNSFields :
         svc[g] = Declared(DNSFields, own, DNSInherited, general, DefaultDNSService, g)
  BY <1>1, <1>2, <1>3, <1>4, <1>5, ServiceAsDeclared
<1> QED
  BY <1>6 DEF own, general, svc

(* ... and a route's, whose origin settings are apart.                     *)
LEMMA TunnelAsDeclared ==
    ASSUME NEW labels, IsFiniteSet(DOMAIN labels), NEW name,
           NEW order \in SetToSeqs(DOMAIN PropsOf(labels, "tunnel", name)),
           NEW f \in DOMAIN TunnelFields
    PROVE  ParseTunnelService(labels, name, order)[f] =
              Declared(TunnelFields, PropsOf(labels, "tunnel", name), TunnelInherited,
                       PropsOf(labels, "tunnel", "default"), DefaultTunnelService, f)
<1> DEFINE own == PropsOf(labels, "tunnel", name)
           general == PropsOf(labels, "tunnel", "default")
           svc == ApplyAll(TunnelFields,
                           Inherit(DefaultTunnelService, TunnelFields, TunnelInherited, general),
                           own, order)
<1>1. IsFiniteSet(DOMAIN own) /\ IsFiniteSet(DOMAIN general)
  BY FinitelyManyProps
<1>2. DOMAIN TunnelFields \subseteq DOMAIN DefaultTunnelService
  BY DEF TunnelFields, DefaultTunnelService
<1>3. \A g \in DOMAIN TunnelFields : TunnelFields[g] \in FieldKinds
  BY DEF TunnelFields, FieldKinds
<1>4. order \in SetToSeqs(DOMAIN own)
  OBVIOUS
<1>5. PICK all : all = svc
  OBVIOUS
<1>6. f # "origin"
  BY DEF TunnelFields
<1>7. ParseTunnelService(labels, name, order) =
         [all EXCEPT !["origin"] = ParseOrigin(labels, name)]
  BY <1>5 DEF ParseTunnelService
<1> HIDE DEF own, general
<1>8. /\ DOMAIN all = DOMAIN DefaultTunnelService
      /\ \A g \in DOMAIN TunnelFields :
            all[g] = Declared(TunnelFields, own, TunnelInherited, general,
                              DefaultTunnelService, g)
  BY <1>1, <1>2, <1>3, <1>4, <1>5, ServiceAsDeclared
<1> HIDE DEF svc
<1>9. [all EXCEPT !["origin"] = ParseOrigin(labels, name)][f] = all[f]
  BY <1>2, <1>6, <1>8
<1> QED
  BY <1>7, <1>8, <1>9 DEF own, general

----------------------------------------------------------------------------
(* The theorems.                                                           *)

KnownLabels ==
    /\ seen = [c \in Containers |-> seen[c]]
    /\ \A c \in Containers : seen[c] \in Images[c] \cup {NotRunning}

(* What was published came from a list of the containers as they were seen. *)
PublishedFromSeen == \E desired \in GetDesiredState(seen) : published = Publication(desired)

IInv == KnownLabels /\ PublishedFromSeen

LEMMA NothingListed == <<>> \in GetDesiredState(Nothing)
<1>1. Running(Nothing) = {}
  BY DEF Running, Nothing
<1>2. <<>> \in SetToSeqs({})
  <2>1. Cardinality({}) = 0
    BY FS_EmptySet
  <2> QED
    BY <2>1 DEF SetToSeqs
<1>3. <<>> \in Orders({})
  BY <1>2 DEF Orders
<1> DEFINE parses == [c \in {} |-> Parses(c, Nothing[c])]
<1>4. <<>> \in {l \in [DOMAIN <<>> -> UNION Range(parses)] :
                   \A i \in DOMAIN <<>> : l[i] \in parses[<<>>[i]]}
  OBVIOUS
<1> QED
  BY <1>1, <1>3, <1>4 DEF GetDesiredState

LEMMA SeenIsFinite ==
    ASSUME KnownLabels
    PROVE  FiniteView(seen)
BY FiniteInput DEF KnownLabels, FiniteView, Running

LEMMA Inductive == Spec => []IInv
<1>1. Init => IInv
  <2> SUFFICES ASSUME Init PROVE IInv
    OBVIOUS
  <2>1. KnownLabels
    BY DEF Init, Nothing, KnownLabels
  <2>2. PublishedFromSeen
    BY NothingListed DEF Init, PublishedFromSeen
  <2> QED
    BY <2>1, <2>2 DEF IInv
<1>2. IInv /\ [Next]_vars => IInv'
  <2> SUFFICES ASSUME IInv, [Next]_vars PROVE IInv'
    OBVIOUS
  <2>1. CASE Next
    <3> PICK c \in Containers :
           \E labels \in Images[c] \cup {NotRunning} : Cycle(c, labels)
      BY <2>1 DEF Next
    <3> PICK labels \in Images[c] \cup {NotRunning} : Cycle(c, labels)
      OBVIOUS
    <3>1. KnownLabels'
      BY DEF IInv, KnownLabels, Cycle
    <3>2. PublishedFromSeen'
      BY DEF PublishedFromSeen, Cycle
    <3> QED
      BY <3>1, <3>2 DEF IInv
  <2>2. CASE UNCHANGED vars
    BY <2>2 DEF IInv, KnownLabels, PublishedFromSeen, vars
  <2> QED
    BY <2>1, <2>2
<1> QED
  BY <1>1, <1>2, PTL DEF Spec

(* No rule of a policy is lost on the way to Cloudflare, and a policy that *)
(* allows or blocks always says whom: whatever the labels are, since       *)
(* parseAccessPolicyDef gives up a policy of which any rule fails.         *)
THEOREM PoliciesWholeHolds == Spec => []PoliciesWhole
<1>1. IInv => PoliciesWhole
  BY PolicyWhole DEF PoliciesWhole
<1> QED
  BY <1>1, Inductive, PTL

(* Whatever labels a service has, in whatever order Go goes over them,      *)
(* each of its properties is what its own label says, or else that of       *)
(* "default", or else, but for cleanup, what is built in; a value that      *)
(* cannot be read changes nothing.                                          *)
THEOREM FieldsAsDeclaredHolds == Spec => []FieldsAsDeclared
<1>1. IInv => FieldsAsDeclared
  <2> SUFFICES ASSUME IInv PROVE FieldsAsDeclared
    OBVIOUS
  <2>1. FiniteView(seen)
    BY SeenIsFinite DEF IInv
  <2>2. \A c \in Running(seen) : IsFiniteSet(DOMAIN seen[c])
    BY <2>1 DEF FiniteView
  <2>3. \A c \in Running(seen) : \A n :
           \A order \in SetToSeqs(DOMAIN PropsOf(seen[c], "dns", n)), f \in DOMAIN DNSFields :
              ParseDNSService(seen[c], n, order)[f] =
                 Declared(DNSFields, PropsOf(seen[c], "dns", n), DNSInherited,
                          PropsOf(seen[c], "dns", "default"), DefaultDNSService, f)
    BY <2>2, DNSAsDeclared
  <2>4. \A c \in Running(seen) : \A n :
           \A order \in SetToSeqs(DOMAIN PropsOf(seen[c], "tunnel", n)),
              f \in DOMAIN TunnelFields :
              ParseTunnelService(seen[c], n, order)[f] =
                 Declared(TunnelFields, PropsOf(seen[c], "tunnel", n), TunnelInherited,
                          PropsOf(seen[c], "tunnel", "default"), DefaultTunnelService, f)
    BY <2>2, TunnelAsDeclared
  <2> QED
    BY <2>3, <2>4 DEF FieldsAsDeclared
<1> QED
  BY <1>1, Inductive, PTL

(* For any number of containers, hosts and services and in whatever order  *)
(* Go goes over its maps, every record is published, and every route whose *)
(* hostname has none.                                                      *)
THEOREM ServicesPublishedHolds == Spec => []ServicesPublished
<1>1. IInv => ServicesPublished
  <2> SUFFICES ASSUME IInv PROVE ServicesPublished
    OBVIOUS
  <2> PICK desired \in GetDesiredState(seen) : published = Publication(desired)
    BY DEF IInv, PublishedFromSeen
  <2> QED
    BY SeenIsFinite, PublishedServices DEF IInv, ServicesPublished
<1> QED
  BY <1>1, Inductive, PTL

(* And a hostname is protected exactly when a service that is left refers  *)
(* to a policy that some container defines.                                *)
THEOREM BindingsPublishedHolds == Spec => []BindingsPublished
<1>1. IInv => BindingsPublished
  <2> SUFFICES ASSUME IInv PROVE BindingsPublished
    OBVIOUS
  <2> PICK desired \in GetDesiredState(seen) : published = Publication(desired)
    BY DEF IInv, PublishedFromSeen
  <2> QED
    BY SeenIsFinite, PublishedBindings DEF IInv, BindingsPublished
<1> QED
  BY <1>1, Inductive, PTL
=============================================================================

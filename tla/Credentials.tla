---------------------------- MODULE Credentials -----------------------------
(***************************************************************************)
(* Which API token and which zone a DNS record goes through: the           *)
(* credential manager (internal/cloudflare/credentials.go), the zone cache *)
(* of each client (client.go) and the three calls of the DNS operator that *)
(* use them (internal/operator/dns/dns.go), with failing calls, lost       *)
(* replies and restarts, while zones are added at Cloudflare.              *)
(*                                                                         *)
(* The SDK answers the listing of zones page by page, and loadZones reads  *)
(* the first page only.  Of a row there is the zone it remembers: NoZone   *)
(* in one that is saved in error because its creation was not confirmed,   *)
(* to be looked up by a later update.  DNSReconcile has the rest of a      *)
(* row's life.                                                             *)
(*                                                                         *)
(* A name is the sequence of its labels; the candidates of a hostname are  *)
(* what is left of it label by label.  A pattern "*.example.com" in a      *)
(* credential's zones matches what "example.com" matches, and is not told  *)
(* apart from it.                                                          *)
(***************************************************************************)
EXTENDS Naturals, Sequences, FiniteSets

CONSTANTS
    Labels,         \* what names are made of
    Hosts,          \* hostnames of DNS services
    Zones,          \* names that may be zones
    Root,           \* the credential "default", made of the root api_token
    Named,          \* names of further credentials
    Unset,          \* no credential named
    PageSize,       \* zones on a page of Cloudflare's answer
    NoZone,         \* the row has neither zone nor record id
    NoRow

Creds == {Root} \cup Named

ASSUME CredentialsAssumption ==
    /\ Hosts \subseteq Seq(Labels) \ {<<>>}
    /\ Zones \subseteq Seq(Labels) \ {<<>>}
    /\ IsFiniteSet(Named)
    /\ Root \notin Named /\ Unset \notin Creds
    /\ PageSize \in Nat \ {0}
    /\ NoRow \notin Zones /\ NoZone \notin Zones /\ NoRow # NoZone

VARIABLES
    order,          \* cm.credentials: their names, in order
    listed,         \* the zones each credential is configured with
    label,          \* the credential each service asks for
    sees,           \* the zones each token has access to, at Cloudflare
    zonesLoaded,    \* each client's zonesLoaded
    zoneCache,      \* each client's zoneCache
    rows,           \* the zone remembered with each record
    records,        \* the records made, each in its zone
    made,           \* history: hosts the present clients made a record for
    mistaken        \* history: hosts whose refused deletion passed for done

config == <<listed, label>>
cache == <<zonesLoaded, zoneCache>>
history == <<made, mistaken>>
vars == <<order, config, sees, cache, rows, records, history>>

(* NewCredentialManager: the root's comes first, if there is one, and the  *)
(* others, each of them once, follow in the order of a map.                *)
Orders(root) ==
    {IF root THEN <<Root>> \o o ELSE o :
        o \in {s \in [1 .. Cardinality(Named) -> Named] :
                  \A n \in Named : \E i \in DOMAIN s : s[i] = n}}

Loaded(root) == order \in Orders(root)

TypeOK ==
    /\ \E root \in BOOLEAN : Loaded(root)
    /\ listed \in [Creds -> SUBSET Zones]
    /\ label \in [Hosts -> Creds]
    /\ sees \in [Creds -> SUBSET Zones]
    /\ zonesLoaded \in [Creds -> BOOLEAN]
    /\ zoneCache \in [Creds -> SUBSET Zones]
    /\ rows \in [Hosts -> Zones \cup {NoZone, NoRow}]
    /\ records \subseteq Hosts \X Zones
    /\ made \subseteq Hosts
    /\ mistaken \subseteq Hosts

(* A service without the label asks for "default": DefaultDNSService.      *)
Init ==
    /\ \E root \in BOOLEAN : order \in Orders(root)
    /\ listed \in {l \in [Creds -> SUBSET Zones] : l[Root] = {}}
    /\ label \in [Hosts -> Creds]
    /\ sees \in [Creds -> SUBSET Zones]
    /\ zonesLoaded = [c \in Creds |-> FALSE]
    /\ zoneCache = [c \in Creds |-> {}]
    /\ rows = [h \in Hosts |-> NoRow]
    /\ records = {}
    /\ made = {}
    /\ mistaken = {}

----------------------------------------------------------------------------
(* Names.                                                                  *)

NoName == <<>>

(* What is left of a name from a label on.                                 *)
From(n, i) == SubSeq(n, i, Len(n))

AtOrAbove(n) == {From(n, i) : i \in 1 .. Len(n)}

(* Mutant: the zone itself only.                                           *)
matchZone_Exact(c, h) == h \in listed[c]

matchZone(c, h) == AtOrAbove(h) \cap listed[c] # {}

(* The walk up the labels of a hostname, to the first zone in the cache.   *)
matchZoneForHostname(zones, h) ==
    LET met == {i \in 1 .. Len(h) : From(h, i) \in zones}
    IN  IF met = {} THEN NoName
        ELSE From(h, CHOOSE i \in met : \A j \in met : i <= j)

(* The credentials a service may be served with: the one it names, else    *)
(* the first whose zones match, else the first of all; none, if the name   *)
(* is unknown.                                                             *)
First(creds) ==
    {order[i] : i \in {i \in DOMAIN order :
                          order[i] \in creds /\ \A j \in 1 .. i - 1 : order[j] \notin creds}}

GetCredentialForZone(h, name) ==
    LET matching == {c \in Creds : matchZone(c, h)}
    IN  IF name # Unset THEN First({name})
        ELSE IF First(matching) # {} THEN First(matching) ELSE First(Creds)

----------------------------------------------------------------------------
(* Calls.                                                                  *)

(* Zones.List without parameters, of which loadZones takes page.Result.    *)
FirstPages(zones) ==
    IF Cardinality(zones) <= PageSize THEN {zones}
    ELSE {page \in SUBSET zones : Cardinality(page) = PageSize}

(* Mutant: the zones are listed again by every call.                       *)
loadZones_EveryCall(c) ==
    /\ zonesLoaded' = [zonesLoaded EXCEPT ![c] = TRUE]
    /\ \E page \in FirstPages(sees[c]) : zoneCache' = [zoneCache EXCEPT ![c] = page]

(* Loaded once for the life of the client.                                 *)
loadZones(c) ==
    /\ zonesLoaded' = [zonesLoaded EXCEPT ![c] = TRUE]
    /\ IF zonesLoaded[c]
       THEN UNCHANGED zoneCache
       ELSE \E page \in FirstPages(sees[c]) : zoneCache' = [zoneCache EXCEPT ![c] = page]

(* CreateDNSRecord, in the zone the client of the label's credential finds *)
(* for the hostname.  A record that is there already is adopted; of one    *)
(* whose reply is lost the row knows nothing.                              *)
CreateDNSRecord(h) ==
    /\ rows[h] = NoRow
    /\ \E c \in GetCredentialForZone(h, label[h]) :
          /\ loadZones(c)
          /\ LET z == matchZoneForHostname(zoneCache'[c], h)
             IN  /\ z # NoName /\ z \in sees[c]
                 /\ records' = records \cup {<<h, z>>}
                 /\ rows' \in {[rows EXCEPT ![h] = z], [rows EXCEPT ![h] = NoZone]}
    /\ made' = made \cup {h}
    /\ UNCHANGED <<order, config, sees, mistaken>>

(* There is no such credential, no zone for the hostname, or a call fails, *)
(* the listing of the zones or the one after it.                           *)
CreateFails(h) ==
    /\ rows[h] = NoRow
    /\ \/ UNCHANGED cache
       \/ \E c \in GetCredentialForZone(h, label[h]) : loadZones(c)
    /\ rows' = [rows EXCEPT ![h] = NoZone]
    /\ UNCHANGED <<order, config, sees, records, history>>

(* UpdateDNSRecord of a row without zone: GetRecordByName looks the record *)
(* up in the zone found for the hostname now.  What it recovers is saved   *)
(* when the update has been confirmed.                                     *)
UpdateDNSRecord(h) ==
    /\ rows[h] = NoZone
    /\ \E c \in GetCredentialForZone(h, label[h]) :
          /\ loadZones(c)
          /\ LET z == matchZoneForHostname(zoneCache'[c], h)
             IN  \/ /\ <<h, z>> \in records /\ z \in sees[c]
                    /\ rows' = [rows EXCEPT ![h] = z]
                 \/ UNCHANGED rows
    /\ UNCHANGED <<order, config, sees, records, history>>

(* Mutant: the zone is looked up again, the remembered one is not used; a  *)
(* record that is not found counts as deleted.                             *)
DeleteDNSRecord_LooksUp(h) ==
    /\ rows[h] \in Zones
    /\ \E c \in GetCredentialForZone(h, Unset) :
          /\ loadZones(c)
          /\ LET z == matchZoneForHostname(zoneCache'[c], h)
             IN  /\ z \in sees[c]
                 /\ records' = records \ {<<h, z>>}
    /\ rows' = [rows EXCEPT ![h] = NoRow]
    /\ UNCHANGED <<order, config, sees, history>>

(* The token a deletion goes through, which takes no credential from the   *)
(* service.                                                                *)
Deletes(h) == {c \in GetCredentialForZone(h, Unset) : rows[h] \in sees[c]}

(* DeleteDNSRecord, with the zone of the row, which has none when its id   *)
(* was lost and is refused by the SDK then.  The row goes when the record  *)
(* is gone, or when the deletion is refused with "404" in the text, as for *)
(* a zone the token may not see; it stays when the reply is lost.          *)
DeleteDNSRecord(h) ==
    /\ rows[h] \in Zones
    /\ \/ /\ Deletes(h) # {}
          /\ records' = records \ {<<h, rows[h]>>}
          /\ rows' \in {[rows EXCEPT ![h] = NoRow], rows}
          /\ UNCHANGED mistaken
       \/ /\ GetCredentialForZone(h, Unset) # {}
          /\ mistaken' = mistaken \cup {h}
          /\ rows' = [rows EXCEPT ![h] = NoRow]
          /\ UNCHANGED records
    /\ UNCHANGED <<order, config, sees, cache, made>>

(* The clients are gone, and the map is iterated anew.                     *)
Restart ==
    /\ \E root \in BOOLEAN : Loaded(root) /\ order' \in Orders(root)
    /\ zonesLoaded' = [c \in Creds |-> FALSE]
    /\ zoneCache' = [c \in Creds |-> {}]
    /\ made' = {}
    /\ UNCHANGED <<config, sees, rows, records, mistaken>>

(* A zone is added to what a token may edit.                               *)
AddZone(c, z) ==
    /\ z \notin sees[c]
    /\ sees' = [sees EXCEPT ![c] = @ \cup {z}]
    /\ UNCHANGED <<order, config, cache, rows, records, history>>

Next ==
    \/ \E h \in Hosts :
          \/ CreateDNSRecord(h) \/ CreateFails(h)
          \/ UpdateDNSRecord(h)
          \/ DeleteDNSRecord(h)
    \/ Restart
    \/ \E c \in Creds, z \in Zones : AddZone(c, z)

Spec == Init /\ [][Next]_vars

----------------------------------------------------------------------------
(* Properties.                                                             *)

ZonesOf(h) == {z \in Zones : <<h, z>> \in records}

(* Of the hosts no refused deletion was taken for done of.  No record is   *)
(* without a row; one that the row has the zone of is in that zone, and in *)
(* no other, although zones are added closer to the hostname and other     *)
(* clients look it up; and of a creation that was not confirmed there is   *)
(* at most one.                                                            *)
RecordsAreKnown ==
    \A h \in Hosts \ mistaken :
        /\ rows[h] = NoRow => ZonesOf(h) = {}
        /\ rows[h] = NoZone => \A y, z \in ZonesOf(h) : y = z
        /\ rows[h] \in Zones => ZonesOf(h) \subseteq {rows[h]}

(* The table of zones and the zones agree so, in every state of the right  *)
(* type: no client hands out a zone that is not one.  isNotFoundError is   *)
(* why some hosts are excepted: it takes any error with "404" in its text  *)
(* for a record that is gone.                                              *)
KnownRecords == TypeOK /\ RecordsAreKnown

(* "Recovered missing CFID from Cloudflare": while its client lives, an    *)
(* update looks for a record whose reply was lost in the zone it was made  *)
(* in, whatever zones were added meanwhile and whichever of them the page  *)
(* named.  (After a restart the page may be another, and the record is not *)
(* found.)                                                                 *)
LookupFindsRecord ==
    \A h \in made \ mistaken :
        rows[h] = NoZone =>
            \A z \in ZonesOf(h) : matchZoneForHostname(zoneCache[label[h]], h) = z

(* Each domain with all below it belongs to one token, and the named       *)
(* credentials are configured with the zones their tokens see.             *)
Related(y, z) == y \in AtOrAbove(z) \/ z \in AtOrAbove(y)

OneTokenPerDomain ==
    /\ \A c \in Named : listed[c] = sees[c]
    /\ \A c, d \in Creds : c # d =>
          \A y \in sees[c], z \in sees[d] : ~Related(y, z)

(* Under that discipline the token a deletion goes through, chosen by      *)
(* zone, can edit the zone the record was made in, by the credential the   *)
(* label named: whatever the order of the credentials since.               *)
DeletionCanReach ==
    OneTokenPerDomain =>
        \A h \in Hosts : rows[h] \in Zones => Deletes(h) # {}
=============================================================================

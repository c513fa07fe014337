------------------------ MODULE Credentials_proofs -------------------------
(***************************************************************************)
(* Theorems about Credentials, for any names, zones and finite number of   *)
(* credentials, whatever their tokens see.                                 *)
(***************************************************************************)
EXTENDS Credentials, TLAPS, FiniteSetTheorems, WellFoundedInduction

----------------------------------------------------------------------------
(* Lemmas on names.                                                        *)

LEMMA FromItems ==
    ASSUME NEW n \in Seq(Labels), NEW i \in 1 .. Len(n)
    PROVE  /\ From(n, i) \in Seq(Labels)
           /\ Len(From(n, i)) = Len(n) - i + 1 /\ Len(n) \in Nat
           /\ \A k \in 1 .. Len(n) - i + 1 : From(n, i)[k] = n[k + i - 1]
BY DEF From

(* What is left of what is left.                                           *)
LEMMA FromFrom ==
    ASSUME NEW n \in Seq(Labels), NEW i \in 1 .. Len(n), NEW j \in i .. Len(n)
    PROVE  From(n, j) = From(From(n, i), j - i + 1) /\ j - i + 1 \in 1 .. Len(From(n, i))
<1> DEFINE m == From(n, i)
           k == j - i + 1
<1>1. /\ m \in Seq(Labels) /\ Len(m) = Len(n) - i + 1 /\ Len(n) \in Nat
      /\ \A l \in 1 .. Len(n) - i + 1 : m[l] = n[l + i - 1]
  BY FromItems
<1>2. k \in 1 .. Len(m) /\ j \in 1 .. Len(n)
  BY <1>1
<1> HIDE DEF m, k
<1>3. /\ From(m, k) \in Seq(Labels) /\ Len(From(m, k)) = Len(m) - k + 1
      /\ \A l \in 1 .. Len(m) - k + 1 : From(m, k)[l] = m[l + k - 1]
  BY <1>1, <1>2, FromItems
<1>4. /\ From(n, j) \in Seq(Labels) /\ Len(From(n, j)) = Len(n) - j + 1
      /\ \A l \in 1 .. Len(n) - j + 1 : From(n, j)[l] = n[l + j - 1]
  BY <1>2, FromItems
<1>5. Len(From(m, k)) = Len(From(n, j))
  BY <1>1, <1>3, <1>4 DEF k
<1>6. ASSUME NEW l \in 1 .. Len(From(n, j)) PROVE From(m, k)[l] = From(n, j)[l]
  <2>1. l + k - 1 \in 1 .. Len(n) - i + 1 /\ (l + k - 1) + i - 1 = l + j - 1
    BY <1>1, <1>2, <1>4, <1>6 DEF k
  <2>2. From(m, k)[l] = m[l + k - 1]
    BY <1>3, <1>4, <1>5, <1>6
  <2>3. m[l + k - 1] = n[l + j - 1]
    BY <1>1, <2>1
  <2> QED
    BY <1>4, <2>2, <2>3
<1>7. From(m, k) = From(n, j)
  BY <1>3, <1>4, <1>5, <1>6
<1> QED
  BY <1>2, <1>7 DEF m, k

(* Of two names above the same one, the shorter is above the longer.       *)
LEMMA AboveIsAChain ==
    ASSUME NEW h \in Seq(Labels), NEW y \in AtOrAbove(h), NEW z \in AtOrAbove(h)
    PROVE  Related(y, z)
<1> PICK i \in 1 .. Len(h), j \in 1 .. Len(h) : y = From(h, i) /\ z = From(h, j)
  BY DEF AtOrAbove
<1>1. Len(h) \in Nat
  OBVIOUS
<1>2. CASE i <= j
  <2>1. z \in AtOrAbove(y)
    BY <1>1, <1>2, FromFrom DEF AtOrAbove
  <2> QED
    BY <2>1 DEF Related
<1>3. CASE j <= i
  <2>1. y \in AtOrAbove(z)
    BY <1>1, <1>3, FromFrom DEF AtOrAbove
  <2> QED
    BY <2>1 DEF Related
<1> QED
  BY <1>1, <1>2, <1>3

(* A set of indexes has a least one.                                       *)
LEMMA Least ==
    ASSUME NEW S \in SUBSET Nat, S # {}
    PROVE  \E i \in S : \A j \in S : i <= j
<1> DEFINE R == {p \in Nat \X Nat : p[1] < p[2]}
<1>1. IsWellFoundedOn(R, Nat)
  BY NatLessThanWellFounded DEF OpToRel
<1>2. \A i, j \in Nat : j < i => <<j, i>> \in R
  OBVIOUS
<1> HIDE DEF R
<1>3. PICK i \in S : \A j \in S : <<j, i>> \notin R
  BY <1>1, WFMin
<1>4. \A j \in S : ~(j < i)
  BY <1>2, <1>3
<1> QED
  BY <1>4

(* What the walk finds is above the hostname, and in the cache.            *)
LEMMA WalkFindsZone ==
    ASSUME NEW zones, NEW h \in Seq(Labels), matchZoneForHostname(zones, h) # NoName
    PROVE  matchZoneForHostname(zones, h) \in AtOrAbove(h) \cap zones
<1> DEFINE met == {i \in 1 .. Len(h) : From(h, i) \in zones}
           least == CHOOSE i \in met : \A j \in met : i <= j
<1>1. met # {} /\ matchZoneForHostname(zones, h) = From(h, least)
  BY DEF matchZoneForHostname
<1>2. \E i \in met : \A j \in met : i <= j
  <2>1. met \in SUBSET Nat
    OBVIOUS
  <2> HIDE DEF met
  <2> QED
    BY <1>1, <2>1, Least
<1>3. least \in met
  BY <1>2
<1> HIDE DEF least
<1> QED
  BY <1>1, <1>3 DEF AtOrAbove

----------------------------------------------------------------------------
(* Lemmas on the order of the credentials.                                 *)

(* Every named credential is in it, and the root's, if there is one, is    *)
(* the first.                                                              *)
LEMMA OrderItems ==
    ASSUME NEW root \in BOOLEAN, NEW o \in Orders(root)
    PROVE  /\ Len(o) \in Nat /\ DOMAIN o = 1 .. Len(o)
           /\ \A i \in DOMAIN o : o[i] \in Creds
           /\ \A n \in Named : \E i \in DOMAIN o : o[i] = n
           /\ root => 1 \in DOMAIN o /\ o[1] = Root
           /\ ~root => \A i \in DOMAIN o : o[i] # Root
<1> DEFINE N == Cardinality(Named)
<1>1. N \in Nat
  BY CredentialsAssumption, FS_CardinalityType
<1> HIDE DEF N
<1>2. PICK s \in [1 .. N -> Named] :
        /\ \A n \in Named : \E i \in DOMAIN s : s[i] = n
        /\ o = IF root THEN <<Root>> \o s ELSE s
  BY DEF Orders, N
<1>3. s \in Seq(Creds) /\ Len(s) = N /\ DOMAIN s = 1 .. N
  BY <1>1, <1>2 DEF Creds
<1>4. CASE ~root
  BY <1>1, <1>2, <1>3, <1>4, CredentialsAssumption DEF Creds
<1>5. CASE root
  <2>1. <<Root>> \in Seq(Creds) /\ Len(<<Root>>) = 1 /\ <<Root>>[1] = Root
    BY DEF Creds
  <2>2. /\ o \in Seq(Creds) /\ Len(o) = N + 1 /\ o[1] = Root
        /\ \A i \in 1 .. N : o[i + 1] = s[i]
    <3>1. o = <<Root>> \o s
      BY <1>2, <1>5
    <3> QED
      BY <1>1, <1>3, <2>1, <3>1
  <2>3. DOMAIN o = 1 .. N + 1 /\ 1 \in 1 .. N + 1 /\ \A i \in 1 .. N : i + 1 \in 1 .. N + 1
    BY <1>1, <2>2
  <2>4. \A i \in DOMAIN o : o[i] \in Creds
    BY <2>2
  <2>5. ASSUME NEW n \in Named PROVE \E i \in DOMAIN o : o[i] = n
    <3> PICK i \in 1 .. N : s[i] = n
      BY <1>2, <1>3
    <3> QED
      BY <2>2, <2>3
  <2>6. Len(o) \in Nat /\ DOMAIN o = 1 .. Len(o)
    BY <1>1, <2>2, <2>3
  <2> QED
    BY <1>5, <2>2, <2>3, <2>4, <2>5, <2>6
<1> QED
  BY <1>4, <1>5

(* Whoever is first is one of them, and there is one if any of them is in  *)
(* the order at all.                                                       *)
LEMMA FirstIsOneOf ==
    ASSUME NEW S, Len(order) \in Nat, DOMAIN order = 1 .. Len(order)
    PROVE  /\ First(S) \subseteq S
           /\ (\E i \in DOMAIN order : order[i] \in S) => First(S) # {}
<1>1. First(S) \subseteq S
  BY DEF First
<1>2. ASSUME NEW i \in DOMAIN order, order[i] \in S PROVE First(S) # {}
  <2> DEFINE places == {j \in DOMAIN order : order[j] \in S}
  <2>1. places \in SUBSET Nat /\ places # {}
    BY <1>2
  <2>2. \E j \in places : \A k \in places : j <= k
    <3> HIDE DEF places
    <3> QED
      BY <2>1, Least
  <2> PICK j \in places : \A k \in places : j <= k
    BY <2>2
  <2>3. j \in DOMAIN order /\ j \in Nat /\ order[j] \in S
    OBVIOUS
  <2>4. \A k \in 1 .. j - 1 : k \in DOMAIN order /\ ~(j <= k)
    BY <2>3
  <2>5. \A k \in 1 .. j - 1 : order[k] \notin S
    BY <2>4
  <2> QED
    BY <2>3, <2>5 DEF First
<1> QED
  BY <1>1, <1>2

----------------------------------------------------------------------------
(* The inductive invariant.                                                *)

(* A zone that a row remembers was found above its hostname through the    *)
(* credential the label names, whose token sees it; the root's is no named *)
(* one, and stays there.                                                   *)
RowInv ==
    \A h \in Hosts : rows[h] \in Zones =>
        /\ rows[h] \in AtOrAbove(h) \cap sees[label[h]]
        /\ label[h] = Root => Loaded(TRUE)

(* The client that made a record has its zones since, and finds in them    *)
(* the zone it made it in.                                                 *)
MadeInv ==
    \A h \in made \ mistaken :
        /\ zonesLoaded[label[h]]
        /\ \A z \in ZonesOf(h) : matchZoneForHostname(zoneCache[label[h]], h) = z

CredInv == TypeOK /\ RecordsAreKnown /\ RowInv /\ MadeInv /\ listed[Root] = {}

LEMMA InitCred == Init => CredInv
BY CredentialsAssumption
DEF Init, CredInv, TypeOK, Loaded, RecordsAreKnown, ZonesOf, RowInv, MadeInv, Creds

(* A service is served with the credential it names.                       *)
LEMMA Served ==
    ASSUME TypeOK, NEW h \in Hosts, NEW c \in GetCredentialForZone(h, label[h])
    PROVE  c = label[h] /\ c \in Creds /\ \E i \in DOMAIN order : order[i] = label[h]
<1>1. label[h] \in Creds /\ label[h] # Unset
  BY CredentialsAssumption DEF TypeOK
<1> QED
  BY <1>1 DEF GetCredentialForZone, First

(* A client that has its zones keeps them.                                 *)
LEMMA Loads ==
    ASSUME TypeOK, NEW c \in Creds, loadZones(c)
    PROVE  /\ zonesLoaded' \in [Creds -> BOOLEAN]
           /\ zoneCache' \in [Creds -> SUBSET Zones]
           /\ zonesLoaded'[c]
           /\ \A d \in Creds : zonesLoaded[d] => zonesLoaded'[d] /\ zoneCache'[d] = zoneCache[d]
<1>1. /\ zonesLoaded \in [Creds -> BOOLEAN] /\ zoneCache \in [Creds -> SUBSET Zones]
      /\ zonesLoaded' = [zonesLoaded EXCEPT ![c] = TRUE]
  BY DEF TypeOK, loadZones
<1>2. CASE zonesLoaded[c]
  BY <1>1, <1>2 DEF loadZones
<1>3. CASE ~zonesLoaded[c]
  <2>1. PICK page \in FirstPages(sees[c]) : zoneCache' = [zoneCache EXCEPT ![c] = page]
    BY <1>3 DEF loadZones
  <2>2. page \subseteq Zones
    BY DEF FirstPages, TypeOK
  <2> QED
    BY <1>1, <1>3, <2>1, <2>2
<1> QED
  BY <1>2, <1>3

(* The root's credential is in the order if a service is served with it.   *)
LEMMA RootIsLoaded ==
    ASSUME TypeOK, NEW i \in DOMAIN order, order[i] = Root
    PROVE  Loaded(TRUE)
<1> PICK root \in BOOLEAN : order \in Orders(root)
  BY DEF TypeOK, Loaded
<1>1. root = TRUE
  BY OrderItems
<1> QED
  BY <1>1 DEF Loaded

LEMMA CreateCred ==
    ASSUME CredInv, NEW h \in Hosts, CreateDNSRecord(h)
    PROVE  CredInv'
<1> PICK c \in GetCredentialForZone(h, label[h]) :
        /\ loadZones(c)
        /\ LET z == matchZoneForHostname(zoneCache'[c], h)
           IN  /\ z # NoName /\ z \in sees[c]
               /\ records' = records \cup {<<h, z>>}
               /\ rows' \in {[rows EXCEPT ![h] = z], [rows EXCEPT ![h] = NoZone]}
  BY DEF CreateDNSRecord
<1> DEFINE z == matchZoneForHostname(zoneCache'[c], h)
<1>1. /\ TypeOK /\ RecordsAreKnown /\ RowInv /\ MadeInv /\ listed[Root] = {}
      /\ rows[h] = NoRow /\ made' = made \cup {h}
      /\ UNCHANGED <<order, listed, label, sees, mistaken>>
  BY DEF CredInv, CreateDNSRecord, config
<1>2. /\ c = label[h] /\ c \in Creds /\ \E i \in DOMAIN order : order[i] = label[h]
  BY <1>1, Served
<1>3. /\ zonesLoaded' \in [Creds -> BOOLEAN] /\ zoneCache' \in [Creds -> SUBSET Zones]
      /\ zonesLoaded'[c]
      /\ \A d \in Creds : zonesLoaded[d] => zonesLoaded'[d] /\ zoneCache'[d] = zoneCache[d]
  BY <1>1, <1>2, Loads
<1>4. z \in AtOrAbove(h) \cap zoneCache'[c] \cap sees[c] /\ z \in Zones
  <2>1. h \in Seq(Labels)
    BY CredentialsAssumption
  <2>2. z \in AtOrAbove(h) \cap zoneCache'[c]
    BY <2>1, WalkFindsZone
  <2> QED
    BY <1>1, <1>2, <2>2 DEF TypeOK
<1>5. /\ records' = records \cup {<<h, z>>}
      /\ rows' \in {[rows EXCEPT ![h] = z], [rows EXCEPT ![h] = NoZone]}
  OBVIOUS
<1>6. z = matchZoneForHostname(zoneCache'[c], h)
  OBVIOUS
<1> HIDE DEF z
<1>7. /\ rows' \in [Hosts -> Zones \cup {NoZone, NoRow}] /\ rows'[h] \in {z, NoZone}
      /\ \A g \in Hosts \ {h} : rows'[g] = rows[g]
      /\ records' \subseteq Hosts \X Zones
  BY <1>1, <1>4, <1>5 DEF TypeOK
<1>8. TypeOK'
  BY <1>1, <1>3, <1>7 DEF TypeOK, Loaded
<1>9. /\ \A g \in Hosts \ {h} : ZonesOf(g)' = ZonesOf(g)
      /\ ZonesOf(h)' = ZonesOf(h) \cup {z}
      /\ h \notin mistaken => ZonesOf(h) = {}
  BY <1>1, <1>4, <1>5 DEF ZonesOf, RecordsAreKnown
<1>10. RecordsAreKnown'
  <2> SUFFICES ASSUME NEW g \in Hosts, g \notin mistaken
               PROVE  /\ rows'[g] = NoRow => ZonesOf(g)' = {}
                      /\ rows'[g] = NoZone => \A y, x \in ZonesOf(g)' : y = x
                      /\ rows'[g] \in Zones => ZonesOf(g)' \subseteq {rows'[g]}
    BY <1>1 DEF RecordsAreKnown
  <2>1. CASE g = h
    BY <1>4, <1>7, <1>9, <2>1, CredentialsAssumption
  <2>2. CASE g # h
    BY <1>1, <1>7, <1>9, <2>2 DEF RecordsAreKnown
  <2> QED
    BY <2>1, <2>2
<1>11. RowInv'
  <2>1. label[h] = Root => Loaded(TRUE)
    BY <1>1, <1>2, RootIsLoaded
  <2>2. rows'[h] \in Zones => rows'[h] = z
    BY <1>7, CredentialsAssumption
  <2> QED
    BY <1>1, <1>2, <1>4, <1>7, <2>1, <2>2 DEF RowInv, Loaded
<1>12. MadeInv'
  <2> SUFFICES ASSUME NEW g \in made', g \notin mistaken
               PROVE  /\ zonesLoaded'[label[g]]
                      /\ \A x \in ZonesOf(g)' : matchZoneForHostname(zoneCache'[label[g]], g) = x
    BY <1>1 DEF MadeInv
  <2>1. CASE g = h
    BY <1>2, <1>3, <1>6, <1>9, <2>1
  <2>2. CASE g # h
    <3>1. g \in Hosts /\ g \in made \ mistaken /\ label[g] \in Creds
      BY <1>1, <2>2 DEF TypeOK
    <3> QED
      BY <1>1, <1>3, <1>9, <2>2, <3>1 DEF MadeInv
  <2> QED
    BY <2>1, <2>2
<1> QED
  BY <1>1, <1>8, <1>10, <1>11, <1>12 DEF CredInv

(* A step that makes or takes no record and has the clients keep what they *)
(* have loaded leaves what they made findable.                             *)
LEMMA StillFound ==
    ASSUME TypeOK, MadeInv, UNCHANGED <<label, records, made, mistaken>>,
           \A d \in Creds : zonesLoaded[d] => zonesLoaded'[d] /\ zoneCache'[d] = zoneCache[d]
    PROVE  MadeInv'
<1> SUFFICES ASSUME NEW g \in made, g \notin mistaken
             PROVE  /\ zonesLoaded'[label[g]]
                    /\ \A x \in ZonesOf(g) : matchZoneForHostname(zoneCache'[label[g]], g) = x
  BY DEF MadeInv, ZonesOf
<1>1. label[g] \in Creds /\ zonesLoaded[label[g]]
  BY DEF TypeOK, MadeInv
<1> QED
  BY <1>1 DEF MadeInv

LEMMA CreateFailsCred ==
    ASSUME CredInv, NEW h \in Hosts, CreateFails(h)
    PROVE  CredInv'
<1>1. /\ TypeOK /\ RecordsAreKnown /\ RowInv /\ MadeInv /\ listed[Root] = {}
      /\ rows[h] = NoRow /\ rows' = [rows EXCEPT ![h] = NoZone]
      /\ UNCHANGED <<order, listed, label, sees, records, made, mistaken>>
  BY DEF CredInv, CreateFails, config, history
<1>2. /\ rows' \in [Hosts -> Zones \cup {NoZone, NoRow}] /\ rows'[h] = NoZone
      /\ \A g \in Hosts \ {h} : rows'[g] = rows[g]
  BY <1>1 DEF TypeOK
<1>3. /\ zonesLoaded' \in [Creds -> BOOLEAN] /\ zoneCache' \in [Creds -> SUBSET Zones]
      /\ \A d \in Creds : zonesLoaded[d] => zonesLoaded'[d] /\ zoneCache'[d] = zoneCache[d]
  <2>1. CASE UNCHANGED cache
    BY <1>1, <2>1 DEF cache, TypeOK
  <2>2. CASE \E c \in GetCredentialForZone(h, label[h]) : loadZones(c)
    BY <1>1, <2>2, Served, Loads
  <2> QED
    BY <2>1, <2>2 DEF CreateFails
<1>4. TypeOK'
  BY <1>1, <1>2, <1>3 DEF TypeOK, Loaded
<1>5. RecordsAreKnown'
  BY <1>1, <1>2, CredentialsAssumption DEF RecordsAreKnown, ZonesOf
<1>6. RowInv'
  BY <1>1, <1>2, CredentialsAssumption DEF RowInv, Loaded
<1>7. MadeInv'
  BY <1>1, <1>3, StillFound
<1> QED
  BY <1>1, <1>4, <1>5, <1>6, <1>7 DEF CredInv

LEMMA UpdateCred ==
    ASSUME CredInv, NEW h \in Hosts, UpdateDNSRecord(h)
    PROVE  CredInv'
<1> PICK c \in GetCredentialForZone(h, label[h]) :
        /\ loadZones(c)
        /\ LET z == matchZoneForHostname(zoneCache'[c], h)
           IN  \/ <<h, z>> \in records /\ z \in sees[c] /\ rows' = [rows EXCEPT ![h] = z]
               \/ UNCHANGED rows
  BY DEF UpdateDNSRecord
<1> DEFINE z == matchZoneForHostname(zoneCache'[c], h)
<1>1. /\ TypeOK /\ RecordsAreKnown /\ RowInv /\ MadeInv /\ listed[Root] = {}
      /\ rows[h] = NoZone
      /\ UNCHANGED <<order, listed, label, sees, records, made, mistaken>>
  BY DEF CredInv, UpdateDNSRecord, config, history
<1>2. c = label[h] /\ c \in Creds /\ \E i \in DOMAIN order : order[i] = label[h]
  BY <1>1, Served
<1>3. /\ zonesLoaded' \in [Creds -> BOOLEAN] /\ zoneCache' \in [Creds -> SUBSET Zones]
      /\ \A d \in Creds : zonesLoaded[d] => zonesLoaded'[d] /\ zoneCache'[d] = zoneCache[d]
  BY <1>1, <1>2, Loads
<1>4. MadeInv'
  BY <1>1, <1>3, StillFound
<1>5. CASE UNCHANGED rows
  <2>1. TypeOK'
    BY <1>1, <1>3, <1>5 DEF TypeOK, Loaded
  <2>2. RecordsAreKnown'
    BY <1>1, <1>5 DEF RecordsAreKnown, ZonesOf
  <2>3. RowInv'
    BY <1>1, <1>5 DEF RowInv, Loaded
  <2> QED
    BY <1>1, <1>4, <2>1, <2>2, <2>3 DEF CredInv
<1>6. CASE <<h, z>> \in records /\ z \in sees[c] /\ rows' = [rows EXCEPT ![h] = z]
  <2>1. z \in Zones /\ z # NoName
    BY <1>1, <1>6, CredentialsAssumption DEF TypeOK, NoName
  <2>2. z \in AtOrAbove(h)
    BY <2>1, WalkFindsZone, CredentialsAssumption
  <2> HIDE DEF z
  <2>3. /\ rows' \in [Hosts -> Zones \cup {NoZone, NoRow}] /\ rows'[h] = z
        /\ \A g \in Hosts \ {h} : rows'[g] = rows[g]
    BY <1>1, <1>6, <2>1 DEF TypeOK
  <2>4. TypeOK'
    BY <1>1, <1>3, <2>3 DEF TypeOK, Loaded
  <2>5. h \notin mistaken => ZonesOf(h) \subseteq {z}
    BY <1>1, <1>6, <2>1 DEF RecordsAreKnown, ZonesOf
  <2>6. RecordsAreKnown'
    <3> SUFFICES ASSUME NEW g \in Hosts, g \notin mistaken
                 PROVE  /\ rows'[g] = NoRow => ZonesOf(g) = {}
                        /\ rows'[g] = NoZone => \A y, x \in ZonesOf(g) : y = x
                        /\ rows'[g] \in Zones => ZonesOf(g) \subseteq {rows'[g]}
      BY <1>1 DEF RecordsAreKnown, ZonesOf
    <3>1. CASE g = h
      BY <2>1, <2>3, <2>5, <3>1, CredentialsAssumption
    <3>2. CASE g # h
      BY <1>1, <2>3, <3>2 DEF RecordsAreKnown
    <3> QED
      BY <3>1, <3>2
  <2>7. label[h] = Root => Loaded(TRUE)
    BY <1>1, <1>2, RootIsLoaded
  <2>8. RowInv'
    BY <1>1, <1>2, <1>6, <2>2, <2>3, <2>7 DEF RowInv, Loaded
  <2> QED
    BY <1>1, <1>4, <2>4, <2>6, <2>8 DEF CredInv
<1> QED
  BY <1>5, <1>6

LEMMA DeleteCred ==
    ASSUME CredInv, NEW h \in Hosts, DeleteDNSRecord(h)
    PROVE  CredInv'
<1>1. /\ TypeOK /\ RecordsAreKnown /\ RowInv /\ MadeInv /\ listed[Root] = {}
      /\ rows[h] \in Zones /\ rows[h] # NoRow /\ rows[h] # NoZone
      /\ rows' \in {[rows EXCEPT ![h] = NoRow], rows}
      /\ UNCHANGED <<order, listed, label, sees, zonesLoaded, zoneCache, made>>
  BY CredentialsAssumption DEF CredInv, DeleteDNSRecord, config, cache
<1>2. /\ rows' \in [Hosts -> Zones \cup {NoZone, NoRow}] /\ rows'[h] \in {NoRow, rows[h]}
      /\ \A g \in Hosts \ {h} : rows'[g] = rows[g]
  BY <1>1 DEF TypeOK
<1>3. RowInv'
  BY <1>1, <1>2, CredentialsAssumption DEF RowInv, Loaded
<1>4. CASE records' = records \ {<<h, rows[h]>>} /\ UNCHANGED mistaken
  <2>1. TypeOK'
    BY <1>1, <1>2, <1>4 DEF TypeOK, Loaded
  <2>2. /\ \A g \in Hosts \ {h} : ZonesOf(g)' = ZonesOf(g)
        /\ ZonesOf(h)' = ZonesOf(h) \ {rows[h]}
    BY <1>4 DEF ZonesOf
  <2>3. h \notin mistaken => ZonesOf(h)' = {}
    BY <1>1, <2>2 DEF RecordsAreKnown
  <2>4. RecordsAreKnown'
    <3> SUFFICES ASSUME NEW g \in Hosts, g \notin mistaken
                 PROVE  /\ rows'[g] = NoRow => ZonesOf(g)' = {}
                        /\ rows'[g] = NoZone => \A y, x \in ZonesOf(g)' : y = x
                        /\ rows'[g] \in Zones => ZonesOf(g)' \subseteq {rows'[g]}
      BY <1>4 DEF RecordsAreKnown
    <3>1. CASE g = h
      BY <2>3, <3>1
    <3>2. CASE g # h
      BY <1>1, <1>2, <2>2, <3>2 DEF RecordsAreKnown
    <3> QED
      BY <3>1, <3>2
  <2>5. \A g \in Hosts : ZonesOf(g)' \subseteq ZonesOf(g)
    BY <2>2
  <2>6. MadeInv'
    BY <1>1, <1>4, <2>5 DEF MadeInv, TypeOK
  <2> QED
    BY <1>1, <1>3, <2>1, <2>4, <2>6 DEF CredInv
<1>5. CASE mistaken' = mistaken \cup {h} /\ UNCHANGED records
  <2>1. TypeOK'
    BY <1>1, <1>2, <1>5 DEF TypeOK, Loaded
  <2>2. RecordsAreKnown'
    BY <1>1, <1>2, <1>5 DEF RecordsAreKnown, ZonesOf
  <2>3. MadeInv'
    BY <1>1, <1>5 DEF MadeInv, ZonesOf
  <2> QED
    BY <1>1, <1>3, <2>1, <2>2, <2>3 DEF CredInv
<1> QED
  BY <1>4, <1>5 DEF DeleteDNSRecord

LEMMA RestartCred ==
    ASSUME CredInv, Restart
    PROVE  CredInv'
<1>1. /\ TypeOK /\ RecordsAreKnown /\ RowInv /\ listed[Root] = {}
      /\ UNCHANGED <<listed, label, sees, rows, records, mistaken>> /\ made' = {}
      /\ zonesLoaded' = [c \in Creds |-> FALSE] /\ zoneCache' = [c \in Creds |-> {}]
  BY DEF CredInv, Restart, config
<1>2. PICK root \in BOOLEAN : order \in Orders(root) /\ order' \in Orders(root)
  BY DEF Restart, Loaded
<1>3. Loaded(TRUE) => Loaded(TRUE)'
  <2> SUFFICES ASSUME order \in Orders(TRUE) PROVE order' \in Orders(TRUE)
    BY DEF Loaded
  <2>1. 1 \in DOMAIN order /\ order[1] = Root
    BY OrderItems
  <2>2. root = TRUE
    BY <1>2, <2>1, OrderItems
  <2> QED
    BY <1>2, <2>2
<1>4. TypeOK'
  BY <1>1, <1>2 DEF TypeOK, Loaded
<1>5. RecordsAreKnown'
  BY <1>1 DEF RecordsAreKnown, ZonesOf
<1>6. RowInv'
  BY <1>1, <1>3 DEF RowInv
<1>7. MadeInv'
  BY <1>1 DEF MadeInv
<1> QED
  BY <1>1, <1>4, <1>5, <1>6, <1>7 DEF CredInv

LEMMA AddZoneCred ==
    ASSUME CredInv, NEW c \in Creds, NEW z \in Zones, AddZone(c, z)
    PROVE  CredInv'
<1>1. /\ TypeOK /\ RecordsAreKnown /\ RowInv /\ MadeInv /\ listed[Root] = {}
      /\ UNCHANGED <<order, listed, label, zonesLoaded, zoneCache, rows, records, made, mistaken>>
      /\ sees' = [sees EXCEPT ![c] = @ \cup {z}]
  BY DEF CredInv, AddZone, config, cache, history
<1>2. sees' \in [Creds -> SUBSET Zones] /\ \A d \in Creds : sees[d] \subseteq sees'[d]
  BY <1>1 DEF TypeOK
<1>3. TypeOK'
  BY <1>1, <1>2 DEF TypeOK, Loaded
<1>4. RowInv'
  BY <1>1, <1>2 DEF TypeOK, RowInv, Loaded
<1> QED
  BY <1>1, <1>3, <1>4 DEF CredInv, RecordsAreKnown, ZonesOf, MadeInv

LEMMA NextCred ==
    ASSUME CredInv, [Next]_vars
    PROVE  CredInv'
<1>1. CASE UNCHANGED vars
  <2>1. UNCHANGED vars /\ UNCHANGED config /\ UNCHANGED cache /\ UNCHANGED history
    BY <1>1 DEF vars, config, cache, history
  <2>2. TypeOK'
    BY <2>1 DEF CredInv, TypeOK, Loaded, vars, config, cache, history
  <2>3. RecordsAreKnown'
    BY <2>1 DEF CredInv, RecordsAreKnown, ZonesOf, vars, history
  <2>4. RowInv'
    BY <2>1 DEF CredInv, RowInv, Loaded, vars, config
  <2>5. MadeInv'
    BY <2>1, StillFound DEF CredInv, vars, config, cache, history
  <2> QED
    BY <2>1, <2>2, <2>3, <2>4, <2>5 DEF CredInv, config
<1> QED
  BY <1>1, CreateCred, CreateFailsCred, UpdateCred, DeleteCred, RestartCred, AddZoneCred DEF Next

LEMMA CredInvariant == Spec => []CredInv
<1>1. CredInv /\ [Next]_vars => CredInv'
  BY NextCred
<1> QED
  BY InitCred, <1>1, PTL DEF Spec

----------------------------------------------------------------------------
(* Theorems.                                                               *)

(* No record is without a row and every zone that is remembered is the     *)
(* record's, for all hosts but those a refused deletion of which passed    *)
(* for done, whatever zones the tokens come to see, whichever of them a    *)
(* page names and whatever a restart makes of the clients and their order. *)
THEOREM KnownRecordsHolds == Spec => []KnownRecords
<1>1. CredInv => KnownRecords
  BY DEF CredInv, KnownRecords
<1> QED
  BY CredInvariant, <1>1, PTL

(* The client that made a record looks for it in the zone it made it in.   *)
THEOREM LookupFindsRecordHolds == Spec => []LookupFindsRecord
<1>1. CredInv => LookupFindsRecord
  BY DEF CredInv, MadeInv, LookupFindsRecord
<1> QED
  BY CredInvariant, <1>1, PTL

(* Where each domain belongs to one token and the named credentials list   *)
(* what theirs see, the token chosen for a deletion by zone is the one the *)
(* record was made with, although a deletion does not know the label.      *)
THEOREM DeletionCanReachHolds == Spec => []DeletionCanReach
<1>1. ASSUME CredInv PROVE DeletionCanReach
  <2> SUFFICES ASSUME OneTokenPerDomain, NEW h \in Hosts, rows[h] \in Zones
               PROVE  Deletes(h) # {}
    BY DEF DeletionCanReach
  <2> DEFINE z == rows[h]
             d == label[h]
             matching == {c \in Creds : matchZone(c, h)}
  <2>1. /\ TypeOK /\ RowInv /\ listed[Root] = {}
        /\ z \in AtOrAbove(h) /\ z \in sees[d] /\ d \in Creds
        /\ d = Root => Loaded(TRUE)
        /\ h \in Seq(Labels)
    BY <1>1, CredentialsAssumption DEF CredInv, RowInv, TypeOK
  <2>2. PICK root \in BOOLEAN : order \in Orders(root)
    BY <2>1 DEF TypeOK, Loaded
  <2>3. /\ Len(order) \in Nat /\ DOMAIN order = 1 .. Len(order)
        /\ \A i \in DOMAIN order : order[i] \in Creds
    BY <2>2, OrderItems
  <2>4. \A c \in matching : c = d /\ c # Root
    <3> SUFFICES ASSUME NEW c \in matching PROVE c = d /\ c # Root
      OBVIOUS
    <3>1. PICK y \in AtOrAbove(h) : y \in listed[c]
      BY DEF matchZone
    <3>2. c # Root /\ c \in Named
      BY <2>1, <3>1 DEF Creds
    <3>3. y \in sees[c]
      BY <3>1, <3>2 DEF OneTokenPerDomain
    <3>4. Related(y, z)
      BY <2>1, AboveIsAChain
    <3> QED
      BY <2>1, <3>2, <3>3, <3>4 DEF OneTokenPerDomain
  <2>5. GetCredentialForZone(h, Unset) =
            IF First(matching) # {} THEN First(matching) ELSE First(Creds)
    BY DEF GetCredentialForZone
  <2>6. First(matching) \subseteq matching
    BY <2>3, FirstIsOneOf
  <2>7. CASE d # Root
    <3>1. d \in Named /\ z \in listed[d]
      BY <2>1, <2>7 DEF Creds, OneTokenPerDomain
    <3>2. d \in matching
      BY <2>1, <3>1 DEF matchZone
    <3>3. \E i \in DOMAIN order : order[i] = d
      BY <2>2, <3>1, OrderItems
    <3>4. First(matching) # {}
      BY <2>3, <3>2, <3>3, FirstIsOneOf
    <3>5. d \in GetCredentialForZone(h, Unset)
      BY <2>4, <2>5, <2>6, <3>4
    <3> QED
      BY <2>1, <3>5 DEF Deletes
  <2>8. CASE d = Root
    <3>1. First(matching) = {}
      BY <2>4, <2>6, <2>8
    <3>2. 1 \in DOMAIN order /\ order[1] = Root
      BY <2>1, <2>8, OrderItems DEF Loaded
    <3>3. Root \in First(Creds)
      BY <2>3, <3>2 DEF First
    <3>4. d \in GetCredentialForZone(h, Unset)
      BY <2>5, <2>8, <3>1, <3>3
    <3> QED
      BY <2>1, <3>4 DEF Deletes
  <2> QED
    BY <2>7, <2>8
<1> QED
  BY CredInvariant, <1>1, PTL
=============================================================================

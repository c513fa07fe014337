-------------------------- MODULE MainLoop_proofs ---------------------------
(***************************************************************************)
(* Theorems about MainLoop, for any containers and agents, any number of   *)
(* events on their way and all faults: the map keeps in step with the      *)
(* host, and the loop is the one AgentFeed describes.                      *)
(***************************************************************************)
EXTENDS MainLoop, TLAPS

----------------------------------------------------------------------------
(* What a queue of events means for one container.                         *)

About(q, c, i) == i \in 1 .. Len(q) /\ q[i].container = c

Absent(q, c) == \A i \in 1 .. Len(q) : q[i].container # c

First(q, c, i) == About(q, c, i) /\ \A j \in 1 .. i - 1 : q[j].container # c

Last(q, c, i) == About(q, c, i) /\ \A j \in i + 1 .. Len(q) : q[j].container # c

Consecutive(q, c, k, i) ==
    /\ About(q, c, k) /\ About(q, c, i) /\ k < i
    /\ \A j \in k + 1 .. i - 1 : q[j].container # c

(* The last event tells whether the container runs, and a destruction      *)
(* comes after its end and is the end of it.                               *)
Consistent(q, c, state) ==
    /\ \A i \in Nat : Last(q, c, i) => (q[i].type = "start" <=> state = "running")
    /\ \A k, i \in Nat :
          Consecutive(q, c, k, i) /\ q[i].type = "destroy" => q[k].type \in {"die", "stop"}
    /\ \A i \in Nat : About(q, c, i) /\ q[i].type = "destroy" => state = "gone"

(* The map and the start being handled are right about a container, or     *)
(* will be once its events have been handled; a destruction, which calls   *)
(* for no cycle, finds that the map has already lost it.                   *)
Matches(q, c, state, view, ev) ==
    /\ Absent(q, c) =>
          IF c = ev THEN state = "running" ELSE c \in view <=> state = "running"
    /\ \A i \in Nat : First(q, c, i) /\ q[i].type = "destroy" => c \notin view /\ c # ev
    /\ Consistent(q, c, state)

----------------------------------------------------------------------------
(* Lemmas on queues.                                                       *)

LEMMA SequenceDomain ==
    ASSUME NEW q \in Seq(Event)
    PROVE  DOMAIN q = 1 .. Len(q)
OBVIOUS

LEMMA TailItems ==
    ASSUME NEW q \in Seq(Event), q # <<>>
    PROVE  /\ Head(q) = q[1] /\ q[1] \in Event /\ Len(q) \in Nat /\ Len(q) >= 1
           /\ Tail(q) \in Seq(Event) /\ Len(Tail(q)) = Len(q) - 1
           /\ \A i \in 1 .. Len(q) - 1 : Tail(q)[i] = q[i + 1]
OBVIOUS

LEMMA JoinedItems ==
    ASSUME NEW q \in Seq(Event), NEW s \in Seq(Event)
    PROVE  /\ q \o s \in Seq(Event) /\ Len(q \o s) = Len(q) + Len(s)
           /\ Len(q) \in Nat /\ Len(s) \in Nat
           /\ \A i \in 1 .. Len(q) : (q \o s)[i] = q[i]
           /\ \A i \in Len(q) + 1 .. Len(q) + Len(s) : (q \o s)[i] = s[i - Len(q)]
OBVIOUS

LEMMA PrefixItems ==
    ASSUME NEW q \in Seq(Event), NEW n \in 0 .. Len(q)
    PROVE  /\ SubSeq(q, 1, n) \in Seq(Event) /\ Len(SubSeq(q, 1, n)) = n
           /\ Len(q) \in Nat /\ n <= Len(q)
           /\ \A i \in 1 .. n : SubSeq(q, 1, n)[i] = q[i]
OBVIOUS

(* For one container it matters only whether it is the one in question.    *)
LEMMA MatchesAlike ==
    ASSUME NEW q, NEW c, NEW state, NEW view, NEW ev, NEW other, NEW next,
           c \in other <=> c \in view, c = next <=> c = ev,
           Matches(q, c, state, view, ev)
    PROVE  Matches(q, c, state, other, next)
BY DEF Matches

(* Where an event of the rest of a queue was in the whole.                 *)
LEMMA TailPlaces ==
    ASSUME NEW q \in Seq(Event), q # <<>>, NEW c, NEW i \in Nat
    PROVE  /\ i + 1 \in Nat
           /\ About(Tail(q), c, i) => About(q, c, i + 1) /\ Tail(q)[i] = q[i + 1]
           /\ Last(Tail(q), c, i) => Last(q, c, i + 1)
           /\ First(Tail(q), c, i) =>
                 IF q[1].container = c THEN Consecutive(q, c, 1, i + 1) ELSE First(q, c, i + 1)
           /\ \A k \in Nat : Consecutive(Tail(q), c, k, i) => Consecutive(q, c, k + 1, i + 1)
<1>1. /\ Len(q) \in Nat /\ Len(q) >= 1 /\ Len(Tail(q)) = Len(q) - 1
      /\ \A j \in 1 .. Len(q) - 1 : Tail(q)[j] = q[j + 1]
  BY TailItems
<1>2. \A k \in Nat : About(Tail(q), c, k) => About(q, c, k + 1)
  BY <1>1 DEF About
<1>3. ASSUME Last(Tail(q), c, i) PROVE Last(q, c, i + 1)
  <2>1. About(q, c, i + 1)
    BY <1>2, <1>3 DEF Last
  <2>2. ASSUME NEW j \in i + 2 .. Len(q) PROVE q[j].container # c
    <3>1. j - 1 \in i + 1 .. Len(Tail(q)) /\ j - 1 \in 1 .. Len(q) - 1 /\ (j - 1) + 1 = j
      BY <1>1, <2>2
    <3>2. Tail(q)[j - 1] = q[j]
      BY <1>1, <3>1
    <3> QED
      BY <1>3, <3>1, <3>2 DEF Last
  <2>3. (i + 1) + 1 = i + 2
    OBVIOUS
  <2> QED
    BY <2>1, <2>2, <2>3 DEF Last
<1>4. ASSUME NEW k \in Nat, Consecutive(Tail(q), c, k, i)
      PROVE  Consecutive(q, c, k + 1, i + 1)
  <2>1. About(q, c, k + 1) /\ About(q, c, i + 1) /\ k + 1 < i + 1
        /\ i <= Len(q) - 1
    BY <1>1, <1>2, <1>4 DEF Consecutive, About
  <2>2. ASSUME NEW j \in k + 2 .. i PROVE q[j].container # c
    <3>1. j - 1 \in k + 1 .. i - 1 /\ j - 1 \in 1 .. Len(q) - 1 /\ (j - 1) + 1 = j
      BY <1>1, <2>1, <2>2
    <3>2. Tail(q)[j - 1] = q[j]
      BY <1>1, <3>1
    <3> QED
      BY <1>4, <3>1, <3>2 DEF Consecutive
  <2>3. (k + 1) + 1 = k + 2 /\ (i + 1) - 1 = i
    OBVIOUS
  <2> QED
    BY <2>1, <2>2, <2>3 DEF Consecutive
<1>5. ASSUME First(Tail(q), c, i)
      PROVE  IF q[1].container = c THEN Consecutive(q, c, 1, i + 1) ELSE First(q, c, i + 1)
  <2>1. About(q, c, i + 1) /\ i <= Len(q) - 1 /\ i >= 1
    BY <1>1, <1>2, <1>5 DEF First, About
  <2>2. ASSUME NEW j \in 2 .. i PROVE q[j].container # c
    <3>1. j - 1 \in 1 .. i - 1 /\ j - 1 \in 1 .. Len(q) - 1 /\ (j - 1) + 1 = j
      BY <1>1, <2>1, <2>2
    <3>2. Tail(q)[j - 1] = q[j]
      BY <1>1, <3>1
    <3> QED
      BY <1>5, <3>1, <3>2 DEF First
  <2>3. CASE q[1].container = c
    BY <1>1, <2>1, <2>2, <2>3 DEF Consecutive, About
  <2>4. CASE q[1].container # c
    BY <1>1, <2>1, <2>2, <2>4 DEF First, About
  <2> QED
    BY <2>3, <2>4
<1> QED
  BY <1>1, <1>2, <1>3, <1>4, <1>5 DEF About

LEMMA TailIsConsistent ==
    ASSUME NEW q \in Seq(Event), q # <<>>, NEW c, NEW state, Consistent(q, c, state)
    PROVE  Consistent(Tail(q), c, state)
<1>2. ASSUME NEW i \in Nat, Last(Tail(q), c, i)
      PROVE  Tail(q)[i].type = "start" <=> state = "running"
  <2>1. About(Tail(q), c, i)
    BY <1>2 DEF Last
  <2>2. Last(q, c, i + 1) /\ i + 1 \in Nat
    BY <1>2, TailPlaces
  <2>3. Tail(q)[i] = q[i + 1]
    BY <2>1, TailPlaces
  <2> QED
    BY <2>2, <2>3 DEF Consistent
<1>3. ASSUME NEW k \in Nat, NEW i \in Nat, Consecutive(Tail(q), c, k, i),
             Tail(q)[i].type = "destroy"
      PROVE  Tail(q)[k].type \in {"die", "stop"}
  <2>1. About(Tail(q), c, i) /\ About(Tail(q), c, k)
    BY <1>3 DEF Consecutive
  <2>2. Tail(q)[i] = q[i + 1] /\ Tail(q)[k] = q[k + 1] /\ i + 1 \in Nat /\ k + 1 \in Nat
    BY <2>1, TailPlaces
  <2>3. Consecutive(q, c, k + 1, i + 1)
    BY <1>3, TailPlaces
  <2> QED
    BY <1>3, <2>2, <2>3 DEF Consistent
<1>4. ASSUME NEW i \in Nat, About(Tail(q), c, i), Tail(q)[i].type = "destroy"
      PROVE  state = "gone"
  <2>1. About(q, c, i + 1) /\ i + 1 \in Nat /\ Tail(q)[i] = q[i + 1]
    BY <1>4, TailPlaces
  <2> QED
    BY <1>4, <2>1 DEF Consistent
<1> QED
  BY <1>2, <1>3, <1>4 DEF Consistent

(* An event about another container changes nothing.                       *)
LEMMA TailOfOthers ==
    ASSUME NEW q \in Seq(Event), q # <<>>, NEW c, q[1].container # c,
           NEW state, NEW view, NEW ev,
           Matches(q, c, state, view, ev)
    PROVE  Matches(Tail(q), c, state, view, ev)
<1>1. Absent(Tail(q), c) => Absent(q, c)
  <2>1. ASSUME Absent(Tail(q), c), NEW j \in 1 .. Len(q) PROVE q[j].container # c
    <3>1. CASE j = 1
      BY <3>1
    <3>2. CASE j # 1
      <4>1. j - 1 \in 1 .. Len(Tail(q)) /\ Tail(q)[j - 1] = q[j]
        BY <3>2, TailItems
      <4> QED
        BY <2>1, <4>1 DEF Absent
    <3> QED
      BY <3>1, <3>2
  <2> QED
    BY <2>1 DEF Absent
<1>2. ASSUME NEW i \in Nat, First(Tail(q), c, i), Tail(q)[i].type = "destroy"
      PROVE  c \notin view /\ c # ev
  <2>1. First(q, c, i + 1)
    BY <1>2, TailPlaces
  <2>2. i + 1 \in Nat /\ Tail(q)[i] = q[i + 1]
    BY <1>2, TailPlaces DEF First
  <2> QED
    BY <1>2, <2>1, <2>2 DEF Matches
<1>3. Absent(Tail(q), c) =>
        IF c = ev THEN state = "running" ELSE c \in view <=> state = "running"
  BY <1>1 DEF Matches
<1> QED
  BY <1>2, <1>3, TailIsConsistent DEF Matches

(* A container's own event: a start is handled next, any other takes it    *)
(* out of the map.                                                         *)
LEMMA TailOfOwn ==
    ASSUME NEW q \in Seq(Event), q # <<>>, NEW c, q[1].container = c,
           NEW state, NEW view, NEW ev, NEW none, none # c,
           Matches(q, c, state, view, ev)
    PROVE  /\ q[1].type = "start" => Matches(Tail(q), c, state, view, c)
           /\ q[1].type # "start" => Matches(Tail(q), c, state, view \ {c}, none)
<1>1. Absent(Tail(q), c) => (q[1].type = "start" <=> state = "running")
  <2>1. ASSUME Absent(Tail(q), c), NEW j \in 2 .. Len(q) PROVE q[j].container # c
    <3>1. j - 1 \in 1 .. Len(Tail(q)) /\ Tail(q)[j - 1] = q[j]
      BY TailItems
    <3> QED
      BY <2>1, <3>1 DEF Absent
  <2>2. Absent(Tail(q), c) => Last(q, c, 1)
    BY <2>1, TailItems DEF Last, About
  <2> QED
    BY <2>2 DEF Matches, Consistent
<1>2. ASSUME NEW i \in Nat, First(Tail(q), c, i), Tail(q)[i].type = "destroy"
      PROVE  q[1].type \in {"die", "stop"}
  <2>1. Consecutive(q, c, 1, i + 1)
    BY <1>2, TailPlaces
  <2>2. i + 1 \in Nat /\ Tail(q)[i] = q[i + 1]
    BY <1>2, TailPlaces DEF First
  <2> QED
    BY <1>2, <2>1, <2>2 DEF Matches, Consistent
<1>3. "start" \notin {"die", "stop"}
  OBVIOUS
<1> QED
  BY <1>1, <1>2, <1>3, TailIsConsistent DEF Matches

(* Events about others at the end of the queue change nothing.             *)
LEMMA JoinOthers ==
    ASSUME NEW q \in Seq(Event), NEW s \in Seq(Event), NEW c, Absent(s, c),
           NEW state, NEW view, NEW ev,
           Matches(q, c, state, view, ev)
    PROVE  Matches(q \o s, c, state, view, ev)
<1> DEFINE r == q \o s
<1>1. /\ Len(q) \in Nat /\ Len(s) \in Nat /\ Len(r) = Len(q) + Len(s)
      /\ \A i \in 1 .. Len(q) : r[i] = q[i]
      /\ \A i \in Len(q) + 1 .. Len(q) + Len(s) : r[i] = s[i - Len(q)]
  BY JoinedItems
<1> HIDE DEF r
<1>2. ASSUME NEW i \in Nat, About(r, c, i) PROVE About(q, c, i) /\ r[i] = q[i]
  <2>1. CASE i \in 1 .. Len(q)
    BY <1>1, <1>2, <2>1 DEF About
  <2>2. CASE i \notin 1 .. Len(q)
    <3>1. i - Len(q) \in 1 .. Len(s) /\ i \in Len(q) + 1 .. Len(q) + Len(s)
      BY <1>1, <1>2, <2>2 DEF About
    <3> QED
      BY <1>1, <1>2, <3>1 DEF About, Absent
  <2> QED
    BY <2>1, <2>2
<1>3. Absent(r, c) => Absent(q, c)
  BY <1>1 DEF Absent
<1>4. ASSUME NEW i \in Nat, First(r, c, i) PROVE First(q, c, i) /\ r[i] = q[i]
  <2>1. About(q, c, i) /\ r[i] = q[i]
    BY <1>2, <1>4 DEF First
  <2>2. \A j \in 1 .. i - 1 : j \in 1 .. Len(q)
    BY <1>1, <2>1 DEF About
  <2> QED
    BY <1>1, <1>4, <2>1, <2>2 DEF First
<1>5. ASSUME NEW i \in Nat, Last(r, c, i) PROVE Last(q, c, i) /\ r[i] = q[i]
  <2>1. About(q, c, i) /\ r[i] = q[i]
    BY <1>2, <1>5 DEF Last
  <2>2. \A j \in i + 1 .. Len(q) : j \in i + 1 .. Len(r) /\ j \in 1 .. Len(q)
    BY <1>1, <2>1 DEF About
  <2> QED
    BY <1>1, <1>5, <2>1, <2>2 DEF Last
<1>6. ASSUME NEW k \in Nat, NEW i \in Nat, Consecutive(r, c, k, i)
      PROVE  Consecutive(q, c, k, i) /\ r[i] = q[i] /\ r[k] = q[k]
  <2>1. About(q, c, i) /\ r[i] = q[i] /\ About(q, c, k) /\ r[k] = q[k] /\ k < i
    BY <1>2, <1>6 DEF Consecutive
  <2>2. \A j \in k + 1 .. i - 1 : j \in 1 .. Len(q)
    BY <1>1, <2>1 DEF About
  <2> QED
    BY <1>1, <1>6, <2>1, <2>2 DEF Consecutive
<1>7. Consistent(r, c, state)
  BY <1>2, <1>5, <1>6 DEF Matches, Consistent
<1>8. Matches(r, c, state, view, ev)
  BY <1>3, <1>4, <1>7 DEF Matches
<1> QED
  BY <1>8 DEF r

(* So does the loss of events about others.                                *)
LEMMA PrefixOfOthers ==
    ASSUME NEW q \in Seq(Event), NEW n \in 0 .. Len(q), NEW c,
           \A i \in n + 1 .. Len(q) : q[i].container # c,
           NEW state, NEW view, NEW ev,
           Matches(q, c, state, view, ev)
    PROVE  Matches(SubSeq(q, 1, n), c, state, view, ev)
<1> DEFINE r == SubSeq(q, 1, n)
<1>1. /\ Len(q) \in Nat /\ n \in Nat /\ n <= Len(q) /\ Len(r) = n
      /\ \A i \in 1 .. n : r[i] = q[i]
  BY PrefixItems
<1> HIDE DEF r
<1>2. ASSUME NEW i \in Nat, About(r, c, i) PROVE About(q, c, i) /\ r[i] = q[i]
  BY <1>1, <1>2 DEF About
<1>3. Absent(r, c) => Absent(q, c)
  <2>1. ASSUME Absent(r, c), NEW i \in 1 .. Len(q) PROVE q[i].container # c
    <3>1. i \in 1 .. n \/ i \in n + 1 .. Len(q)
      BY <1>1
    <3> QED
      BY <1>1, <2>1, <3>1 DEF Absent
  <2> QED
    BY <2>1 DEF Absent
<1>4. ASSUME NEW i \in Nat, First(r, c, i) PROVE First(q, c, i) /\ r[i] = q[i]
  <2>1. About(q, c, i) /\ r[i] = q[i] /\ i <= n
    BY <1>1, <1>2, <1>4 DEF First, About
  <2>2. \A j \in 1 .. i - 1 : j \in 1 .. n
    BY <1>1, <2>1
  <2> QED
    BY <1>1, <1>4, <2>1, <2>2 DEF First
<1>5. ASSUME NEW i \in Nat, Last(r, c, i) PROVE Last(q, c, i) /\ r[i] = q[i]
  <2>1. About(q, c, i) /\ r[i] = q[i]
    BY <1>2, <1>5 DEF Last
  <2>2. ASSUME NEW j \in i + 1 .. Len(q) PROVE q[j].container # c
    <3>1. j \in i + 1 .. n \/ j \in n + 1 .. Len(q)
      BY <1>1
    <3>2. j \in i + 1 .. n => r[j] = q[j]
      BY <1>1
    <3> QED
      BY <1>1, <1>5, <3>1, <3>2 DEF Last
  <2> QED
    BY <2>1, <2>2 DEF Last
<1>6. ASSUME NEW k \in Nat, NEW i \in Nat, Consecutive(r, c, k, i)
      PROVE  Consecutive(q, c, k, i) /\ r[i] = q[i] /\ r[k] = q[k]
  <2>1. About(q, c, i) /\ r[i] = q[i] /\ About(q, c, k) /\ r[k] = q[k] /\ k < i /\ i <= n
    BY <1>1, <1>2, <1>6 DEF Consecutive, About
  <2>2. \A j \in k + 1 .. i - 1 : j \in 1 .. n
    BY <1>1, <2>1 DEF About
  <2> QED
    BY <1>1, <1>6, <2>1, <2>2 DEF Consecutive
<1>7. Consistent(r, c, state)
  BY <1>2, <1>5, <1>6 DEF Matches, Consistent
<1>8. Matches(r, c, state, view, ev)
  BY <1>3, <1>4, <1>7 DEF Matches
<1> QED
  BY <1>8 DEF r

(* Where an event is once some of the container's own have been added.     *)
Joined(q, r, s, c) ==
    /\ ~Absent(r, c)
    /\ \A i \in Nat :
          /\ Last(r, c, i) => r[i] = s[Len(s)]
          /\ About(r, c, i) =>
                \/ About(q, c, i) /\ r[i] = q[i]
                \/ i > Len(q) /\ i - Len(q) \in 1 .. Len(s) /\ r[i] = s[i - Len(q)]
          /\ First(r, c, i) /\ i > Len(q) => Absent(q, c)
          /\ \A k \in Nat :
                Consecutive(r, c, k, i) /\ i = Len(q) + 1 => Last(q, c, k) /\ r[k] = q[k]

LEMMA OwnPlaces ==
    ASSUME NEW q \in Seq(Event), NEW s \in Seq(Event), NEW c, s # <<>>,
           \A i \in 1 .. Len(s) : s[i].container = c
    PROVE  Joined(q, q \o s, s, c)
<1> DEFINE r == q \o s
<1>1. /\ Len(q) \in Nat /\ Len(s) \in Nat /\ Len(s) >= 1 /\ Len(r) = Len(q) + Len(s)
      /\ \A j \in 1 .. Len(q) : r[j] = q[j]
      /\ \A j \in Len(q) + 1 .. Len(q) + Len(s) : r[j] = s[j - Len(q)]
  BY JoinedItems
<1> HIDE DEF r
<1>2. /\ Len(q) + 1 \in 1 .. Len(r) /\ r[Len(q) + 1] = s[1] /\ 1 \in 1 .. Len(s)
      /\ Len(r) \in 1 .. Len(r) /\ r[Len(r)] = s[Len(s)] /\ Len(s) \in 1 .. Len(s)
  <2>1. Len(q) + 1 \in Len(q) + 1 .. Len(q) + Len(s) /\ (Len(q) + 1) - Len(q) = 1
    BY <1>1
  <2>2. Len(r) \in Len(q) + 1 .. Len(q) + Len(s) /\ Len(r) - Len(q) = Len(s)
    BY <1>1
  <2> QED
    BY <1>1, <2>1, <2>2
<1>3. ~Absent(r, c)
  BY <1>2 DEF Absent
<1>4. ASSUME NEW i \in Nat, Last(r, c, i) PROVE r[i] = s[Len(s)]
  <2>1. i = Len(r)
    <3>1. i \in 1 .. Len(r) /\ (Len(r) \in i + 1 .. Len(r) => r[Len(r)].container # c)
      BY <1>4 DEF Last, About
    <3>2. r[Len(r)].container = c
      BY <1>2
    <3> QED
      BY <1>1, <3>1, <3>2
  <2> QED
    BY <1>2, <2>1
<1>5. ASSUME NEW i \in Nat, About(r, c, i)
      PROVE  \/ About(q, c, i) /\ r[i] = q[i]
             \/ i > Len(q) /\ i - Len(q) \in 1 .. Len(s) /\ r[i] = s[i - Len(q)]
  BY <1>1, <1>5 DEF About
<1>6. ASSUME NEW i \in Nat, First(r, c, i), i > Len(q) PROVE Absent(q, c)
  <2>1. \A j \in 1 .. Len(q) : j \in 1 .. i - 1
    BY <1>1, <1>6
  <2> QED
    BY <1>1, <1>6, <2>1 DEF First, Absent
<1>7. ASSUME NEW i \in Nat, NEW k \in Nat, Consecutive(r, c, k, i), i = Len(q) + 1
      PROVE  Last(q, c, k) /\ r[k] = q[k]
  <2>1. k \in 1 .. Len(q) /\ r[k].container = c /\ i - 1 = Len(q)
        /\ \A j \in k + 1 .. i - 1 : r[j].container # c
    BY <1>1, <1>7 DEF Consecutive, About
  <2>2. \A j \in k + 1 .. Len(q) : j \in 1 .. Len(q)
    BY <2>1
  <2> QED
    BY <1>1, <2>1, <2>2 DEF Last, About
<1>8. Joined(q, r, s, c)
  BY <1>3, <1>4, <1>5, <1>6, <1>7 DEF Joined
<1> QED
  BY <1>8 DEF r

(* A container that starts or ends, and may start again.                   *)
LEMMA JoinOwn ==
    ASSUME NEW q \in Seq(Event), NEW s \in Seq(Event), NEW c, s # <<>>,
           \A i \in 1 .. Len(s) : s[i].container = c /\ s[i].type # "destroy",
           NEW state, state # "gone", NEW next,
           s[Len(s)].type = "start" <=> next = "running",
           NEW view, NEW ev,
           Matches(q, c, state, view, ev)
    PROVE  Matches(q \o s, c, next, view, ev)
<1> DEFINE r == q \o s
<1>a. \A i \in 1 .. Len(s) : s[i].container = c
  OBVIOUS
<1>b. Joined(q, r, s, c)
  BY <1>a, OwnPlaces
<1> HIDE DEF r
<1>1. \A i \in Nat : About(r, c, i) => r[i].type # "destroy"
  BY <1>b DEF Joined, Matches, Consistent
<1>2. ~Absent(r, c)
  BY <1>b DEF Joined
<1>3. \A i \in Nat : Last(r, c, i) => (r[i].type = "start" <=> next = "running")
  BY <1>b DEF Joined
<1>4. Matches(r, c, next, view, ev)
  BY <1>1, <1>2, <1>3 DEF Matches, Consistent, First, Consecutive
<1> QED
  BY <1>4 DEF r

(* A container that is destroyed, which only one that has ended is.        *)
LEMMA JoinDestroy ==
    ASSUME NEW q \in Seq(Event), NEW s \in Seq(Event), NEW c, Len(s) = 1,
           s[1].container = c, s[1].type = "destroy",
           NEW view, NEW ev,
           Matches(q, c, "stopped", view, ev)
    PROVE  Matches(q \o s, c, "gone", view, ev)
<1> DEFINE r == q \o s
<1>1. /\ "stopped" # "running" /\ "stopped" # "gone" /\ "gone" # "running"
      /\ "destroy" # "start" /\ Len(q) \in Nat
  OBVIOUS
<1>a. /\ s # <<>> /\ Len(s) \in 1 .. Len(s)
      /\ \A i \in 1 .. Len(s) : s[i].container = c
      /\ s[Len(s)].type = "destroy"
  <2>1. \A i \in 1 .. Len(s) : i = 1
    OBVIOUS
  <2>2. Len(<<>>) = 0
    OBVIOUS
  <2>3. s # <<>>
    <3>1. 0 # 1
      OBVIOUS
    <3> QED
      BY <2>2, <3>1, Zenon
  <2>4. Len(s) \in 1 .. Len(s)
    OBVIOUS
  <2> QED
    BY <2>1, <2>3, <2>4
<1>b. Joined(q, r, s, c)
  BY <1>a, OwnPlaces
<1> HIDE DEF r
<1>2. /\ ~Absent(r, c)
      /\ \A i \in Nat :
            /\ Last(r, c, i) => r[i].type = "destroy"
            /\ About(r, c, i) => (About(q, c, i) /\ r[i] = q[i]) \/ i = Len(q) + 1
            /\ First(r, c, i) /\ i > Len(q) => Absent(q, c)
  <2>1. ASSUME NEW i \in Nat, i > Len(q), i - Len(q) \in 1 .. Len(s) PROVE i = Len(q) + 1
    BY <1>1, <2>1
  <2> QED
    BY <1>b, <2>1, <1>a DEF Joined
<1>3. \A k, i \in Nat :
        Consecutive(r, c, k, i) /\ i = Len(q) + 1 => Last(q, c, k) /\ r[k] = q[k]
  BY <1>b DEF Joined
<1>4. \A i \in Nat : About(q, c, i) => q[i].type # "destroy"
  BY <1>1 DEF Matches, Consistent
<1>5. ASSUME NEW i \in Nat, About(r, c, i), r[i].type = "destroy" PROVE i = Len(q) + 1
  BY <1>2, <1>4, <1>5
<1>6. ASSUME NEW k \in Nat, NEW i \in Nat, Consecutive(r, c, k, i), r[i].type = "destroy"
      PROVE  r[k].type \in {"die", "stop"}
  <2>1. Last(q, c, k) /\ r[k] = q[k]
    BY <1>3, <1>5, <1>6 DEF Consecutive
  <2>2. About(q, c, k) /\ q[k] \in Event
    BY <2>1 DEF Last, About
  <2>4. q[k].type \in {"start", "die", "stop", "destroy"}
    BY <2>2 DEF Event
  <2>3. q[k].type # "start"
    BY <1>1, <2>1 DEF Matches, Consistent
  <2> QED
    BY <1>4, <2>1, <2>2, <2>3, <2>4
<1>7. ASSUME NEW i \in Nat, First(r, c, i), r[i].type = "destroy" PROVE c \notin view /\ c # ev
  <2>1. i = Len(q) + 1
    BY <1>5, <1>7 DEF First
  <2>2. Absent(q, c)
    BY <1>1, <1>2, <1>7, <2>1
  <2> QED
    BY <1>1, <2>2 DEF Matches
<1>8. Matches(r, c, "gone", view, ev)
  BY <1>1, <1>2, <1>6, <1>7 DEF Matches, Consistent
<1> QED
  BY <1>8 DEF r

----------------------------------------------------------------------------
(* The inductive invariant.                                                *)

(* What the loop goes by: a list it has read, or else the map.             *)
View == IF pc \in {"first sync", "sync"} THEN listed ELSE containers

(* A start is being handled at one place only, and there is nothing on its *)
(* way before the goroutine of Watch is there.                             *)
PlaceInv ==
    /\ event # Nobody <=> pc = "inspect"
    /\ pc \in Starting \cup {"first cycle"} => watcher = "off"
    /\ watcher = "off" => queue = <<>>

(* Whatever was not lost comes right in the end.                           *)
MatchInv ==
    pc # "first list" =>
        \A c \in Labelled \ missed : Matches(queue, c, docker[c], View, event)

CycleInv == pc \in {"select", "list", "inspect"} => local \ missed = containers \ missed

LoopInv == TypeOK /\ PlaceInv /\ MatchInv /\ CycleInv

LEMMA InitLoop == Init => LoopInv
<1> SUFFICES ASSUME Init PROVE LoopInv
  OBVIOUS
<1>1. queue \in Seq(Event) /\ Len(queue) <= Capacity
  <2>1. <<>> \in Seq(Event)
    OBVIOUS
  <2>2. Len(<<>>) = 0
    OBVIOUS
  <2>3. queue = <<>>
    BY DEF Init
  <2>4. 0 <= Capacity
    BY MainLoopAssumption
  <2> QED
    BY <2>1, <2>2, <2>3, <2>4, Zenon
<1>2. Feed!FeedType
  <2>1. LoopSeen = "waiting"
    BY DEF Init, LoopSeen, Starting
  <2> QED
    BY <2>1 DEF Init, Feed!FeedInit, Feed!FeedType, Feed!Reports
<1>3. TypeOK
  BY <1>1, <1>2 DEF Init, TypeOK, Starting, Reconciling
<1>4. PlaceInv /\ MatchInv /\ CycleInv
  BY DEF Init, PlaceInv, MatchInv, CycleInv
<1> QED
  BY <1>3, <1>4 DEF LoopInv

----------------------------------------------------------------------------
(* Docker.                                                                 *)

(* The changes Docker tells of.                                            *)
Change == {<<"start">>, <<"die">>, <<"die", "stop">>, <<"destroy">>}

News(c, types) == [i \in DOMAIN types |-> [type |-> types[i], container |-> c]]

LEMMA NewsItems ==
    ASSUME NEW c \in Containers, NEW types \in Change
    PROVE  /\ News(c, types) \in Seq(Event)
           /\ Len(News(c, types)) = Len(types) /\ Len(types) \in Nat /\ Len(types) >= 1
           /\ \A i \in 1 .. Len(types) :
                 News(c, types)[i].type = types[i] /\ News(c, types)[i].container = c
<1>1. /\ types \in Seq({"start", "die", "stop", "destroy"})
      /\ Len(types) \in Nat /\ Len(types) >= 1 /\ DOMAIN types = 1 .. Len(types)
  BY DEF Change
<1>2. \A i \in 1 .. Len(types) : [type |-> types[i], container |-> c] \in Event
  BY <1>1 DEF Event
<1>3. News(c, types) \in [1 .. Len(types) -> Event]
  BY <1>1, <1>2 DEF News
<1>4. News(c, types) \in Seq(Event) /\ Len(News(c, types)) = Len(types)
  BY <1>1, <1>3
<1> QED
  BY <1>1, <1>4 DEF News

LEMMA EmitType ==
    ASSUME TypeOK, NEW c \in Containers, NEW types \in Change, Emit(c, types)
    PROVE  /\ queue' \in Seq(Event) /\ Len(queue') <= Capacity
           /\ missed \subseteq missed' /\ missed' \subseteq Labelled
           /\ watcher = "off" => queue' = queue
           /\ \/ queue' = queue /\ c \notin Labelled \ missed'
              \/ queue' = queue \o News(c, types) /\ missed' = missed
<1>1. News(c, types) \in Seq(Event) /\ queue \in Seq(Event) /\ Len(queue) <= Capacity
      /\ missed \subseteq Labelled
  BY NewsItems DEF TypeOK
<1>2. CASE watcher = "on" /\ Len(queue \o News(c, types)) <= Capacity
  <2>1. queue' = queue \o News(c, types) /\ missed' = missed
    BY <1>2 DEF Emit, News
  <2>2. queue \o News(c, types) \in Seq(Event)
    BY <1>1
  <2> QED
    BY <1>1, <1>2, <2>1, <2>2
<1>3. CASE ~(watcher = "on" /\ Len(queue \o News(c, types)) <= Capacity)
  <2>1. missed' = missed \cup ({c} \cap Labelled) /\ queue' = queue
    BY <1>3 DEF Emit, News
  <2> QED
    BY <1>1, <2>1
<1> QED
  BY <1>2, <1>3

(* The news of a change join the queue as the state changes.               *)
Allowed(types, from, to) ==
    \/ /\ from # "gone" /\ types # <<"destroy">>
       /\ types[Len(types)] = "start" <=> to = "running"
    \/ from = "stopped" /\ types = <<"destroy">> /\ to = "gone"

LEMMA ChangeMatches ==
    ASSUME NEW q \in Seq(Event), NEW c \in Containers, NEW types \in Change,
           NEW from, NEW to, Allowed(types, from, to), NEW view, NEW ev,
           Matches(q, c, from, view, ev)
    PROVE  Matches(q \o News(c, types), c, to, view, ev)
<1> DEFINE s == News(c, types)
<1>1. /\ s \in Seq(Event) /\ Len(s) = Len(types) /\ Len(types) \in Nat /\ Len(types) >= 1
      /\ \A i \in 1 .. Len(s) : s[i].type = types[i] /\ s[i].container = c
  BY NewsItems
<1> HIDE DEF s
<1>2. s # <<>>
  <2>1. Len(<<>>) = 0
    OBVIOUS
  <2> QED
    BY <1>1, <2>1
<1>3. CASE /\ from # "gone" /\ types # <<"destroy">>
           /\ types[Len(types)] = "start" <=> to = "running"
  <2>1. \A i \in 1 .. Len(types) : types[i] # "destroy"
    BY <1>3 DEF Change
  <2>2. \A i \in 1 .. Len(s) : s[i].container = c /\ s[i].type # "destroy"
    BY <1>1, <2>1
  <2>3. s[Len(s)].type = "start" <=> to = "running"
    BY <1>1, <1>3
  <2>4. Matches(q \o s, c, to, view, ev)
    BY <1>1, <1>2, <1>3, <2>2, <2>3, JoinOwn
  <2> QED
    BY <2>4 DEF s
<1>4. CASE from = "stopped" /\ types = <<"destroy">> /\ to = "gone"
  <2>1. Len(types) = 1 /\ types[1] = "destroy"
    BY <1>4
  <2>2. Len(s) = 1 /\ s[1].container = c /\ s[1].type = "destroy"
    BY <1>1, <2>1
  <2>3. Matches(q \o s, c, "gone", view, ev)
    BY <1>1, <1>4, <2>2, JoinDestroy
  <2> QED
    BY <1>4, <2>3 DEF s
<1> QED
  BY <1>3, <1>4 DEF Allowed

LEMMA DockerLoop ==
    ASSUME LoopInv, DockerStep
    PROVE  LoopInv'
<1> PICK c \in Containers : Start(c) \/ Die(c) \/ Stop(c) \/ Destroy(c)
  BY DEF DockerStep
<1>1. TypeOK /\ PlaceInv /\ MatchInv /\ CycleInv
  BY DEF LoopInv
<1>2. PICK types \in Change :
        /\ Emit(c, types)
        /\ UNCHANGED <<watcher, loopVars, agentVars>>
        /\ \E to \in {"stopped", "running", "gone"} :
              docker' = [docker EXCEPT ![c] = to] /\ Allowed(types, docker[c], to)
  <2>1. CASE Start(c)
    <3>1. <<"start">> \in Change /\ <<"start">>[Len(<<"start">>)] = "start"
          /\ <<"start">> # <<"destroy">>
      BY DEF Change
    <3>2. docker[c] # "gone" /\ docker' = [docker EXCEPT ![c] = "running"]
          /\ Emit(c, <<"start">>) /\ UNCHANGED <<watcher, loopVars, agentVars>>
      BY <2>1 DEF Start, Changes
    <3> QED
      BY <3>1, <3>2 DEF Allowed
  <2>2. CASE Die(c)
    <3>1. <<"die">> \in Change /\ <<"die">>[Len(<<"die">>)] = "die" /\ <<"die">> # <<"destroy">>
      BY DEF Change
    <3>2. docker[c] # "gone" /\ docker' = [docker EXCEPT ![c] = "stopped"]
          /\ Emit(c, <<"die">>) /\ UNCHANGED <<watcher, loopVars, agentVars>>
      BY <2>2 DEF Die, Changes
    <3> QED
      BY <3>1, <3>2 DEF Allowed
  <2>3. CASE Stop(c)
    <3>1. /\ <<"die", "stop">> \in Change /\ <<"die", "stop">>[Len(<<"die", "stop">>)] = "stop"
          /\ <<"die", "stop">> # <<"destroy">>
      BY DEF Change
    <3>2. docker[c] # "gone" /\ docker' = [docker EXCEPT ![c] = "stopped"]
          /\ Emit(c, <<"die", "stop">>) /\ UNCHANGED <<watcher, loopVars, agentVars>>
      BY <2>3 DEF Stop, Changes
    <3> QED
      BY <3>1, <3>2 DEF Allowed
  <2>4. CASE Destroy(c)
    BY <2>4 DEF Destroy, Changes, Change, Allowed
  <2> QED
    BY <2>1, <2>2, <2>3, <2>4
<1>3. PICK to \in {"stopped", "running", "gone"} :
        docker' = [docker EXCEPT ![c] = to] /\ Allowed(types, docker[c], to)
  BY <1>2
<1>4. /\ queue' \in Seq(Event) /\ Len(queue') <= Capacity
      /\ missed \subseteq missed' /\ missed' \subseteq Labelled
      /\ watcher = "off" => queue' = queue
      /\ \/ queue' = queue /\ c \notin Labelled \ missed'
         \/ queue' = queue \o News(c, types) /\ missed' = missed
  BY <1>1, <1>2, EmitType
<1>5. docker' \in [Containers -> {"new", "stopped", "running", "gone"}]
      /\ docker'[c] = to /\ \A d \in Containers \ {c} : docker'[d] = docker[d]
  BY <1>1, <1>3 DEF TypeOK
<1>6. /\ UNCHANGED <<watcher, pc, listed, event, containers, local, applied, heard>>
      /\ UNCHANGED <<agentData, fingerprints, trigger, sending>>
      /\ View' = View
  BY <1>2 DEF loopVars, agentVars, View
<1>7. TypeOK'
  <2>1. Feed!FeedType'
    BY <1>1, <1>6 DEF TypeOK, Feed!FeedType, LoopSeen, Feed!Reports
  <2> QED
    BY <1>1, <1>4, <1>5, <1>6, <2>1 DEF TypeOK
<1>8. PlaceInv'
  BY <1>1, <1>4, <1>6 DEF PlaceInv
<1>9. MatchInv'
  <2> SUFFICES ASSUME pc # "first list", NEW d \in Labelled \ missed'
               PROVE  Matches(queue', d, docker'[d], View, event)
    BY <1>6 DEF MatchInv
  <2>1. d \in Labelled \ missed /\ d \in Containers
    BY <1>4, MainLoopAssumption
  <2>2. Matches(queue, d, docker[d], View, event)
    BY <1>1, <2>1 DEF MatchInv
  <2>3. queue \in Seq(Event)
    BY <1>1 DEF TypeOK
  <2>4. CASE d # c
    <3>1. News(c, types) \in Seq(Event) /\ Absent(News(c, types), d)
      BY <2>4, NewsItems DEF Absent
    <3>2. docker'[d] = docker[d]
      BY <1>5, <2>1, <2>4
    <3>3. Matches(queue \o News(c, types), d, docker[d], View, event)
      BY <2>2, <2>3, <3>1, JoinOthers
    <3> QED
      BY <1>4, <2>2, <3>2, <3>3
  <2>5. CASE d = c
    <3>1. queue' = queue \o News(c, types) /\ docker'[d] = to
      BY <1>4, <1>5, <2>5
    <3>2. Matches(queue \o News(c, types), c, to, View, event)
      BY <1>3, <2>2, <2>3, <2>5, ChangeMatches
    <3> QED
      BY <2>5, <3>1, <3>2
  <2> QED
    BY <2>4, <2>5
<1>10. CycleInv'
  BY <1>1, <1>4, <1>6 DEF CycleInv
<1> QED
  BY <1>7, <1>8, <1>9, <1>10 DEF LoopInv

LEMMA SubscribeLoop ==
    ASSUME LoopInv, Subscribe
    PROVE  LoopInv'
<1>1. TypeOK /\ PlaceInv /\ MatchInv /\ CycleInv
  BY DEF LoopInv
<1>2. /\ UNCHANGED <<docker, queue, missed, pc, listed, event, containers, local, applied,
                      heard, agentData, fingerprints, trigger, sending>>
      /\ watcher' = "on" /\ pc \notin Starting \cup {"first cycle"}
  BY DEF Subscribe, loopVars, agentVars
<1>3. TypeOK'
  BY <1>1, <1>2 DEF TypeOK, Feed!FeedType, LoopSeen, Feed!Reports
<1>4. PlaceInv' /\ MatchInv' /\ CycleInv'
  BY <1>1, <1>2 DEF PlaceInv, MatchInv, CycleInv, View
<1> QED
  BY <1>3, <1>4 DEF LoopInv

LEMMA StreamEndsLoop ==
    ASSUME LoopInv, StreamEnds
    PROVE  LoopInv'
<1>1. TypeOK /\ PlaceInv /\ MatchInv /\ CycleInv
  BY DEF LoopInv
<1>2. /\ UNCHANGED <<docker, pc, listed, event, containers, local, applied,
                      heard, agentData, fingerprints, trigger, sending>>
      /\ watcher = "on" /\ watcher' = "ended"
  BY DEF StreamEnds, loopVars, agentVars
<1>3. PICK n \in 0 .. Len(queue) :
        /\ queue' = SubSeq(queue, 1, n)
        /\ missed' = missed \cup
                (Labelled \cap {queue[i].container : i \in n + 1 .. Len(queue)})
  BY DEF StreamEnds
<1>4. queue \in Seq(Event) /\ Len(queue) \in Nat /\ Len(queue) <= Capacity
  BY <1>1 DEF TypeOK
<1>5. queue' \in Seq(Event) /\ Len(queue') <= Capacity
  <2>1. queue' \in Seq(Event) /\ Len(queue') = n /\ n <= Len(queue)
    BY <1>3, <1>4, PrefixItems
  <2> QED
    BY <1>4, <2>1, MainLoopAssumption
<1>6. missed \subseteq missed' /\ missed' \subseteq Labelled
  BY <1>1, <1>3 DEF TypeOK
<1>7. TypeOK'
  <2>1. Feed!FeedType'
    BY <1>1, <1>2 DEF TypeOK, Feed!FeedType, LoopSeen, Feed!Reports
  <2> QED
    BY <1>1, <1>2, <1>5, <1>6, <2>1 DEF TypeOK
<1>8. PlaceInv'
  BY <1>1, <1>2 DEF PlaceInv
<1>9. MatchInv'
  <2> SUFFICES ASSUME pc # "first list", NEW d \in Labelled \ missed'
               PROVE  Matches(queue', d, docker[d], View, event)
    BY <1>2 DEF MatchInv, View
  <2>1. Matches(queue, d, docker[d], View, event)
    BY <1>1, <1>6 DEF MatchInv
  <2>2. \A i \in n + 1 .. Len(queue) : queue[i].container # d
    BY <1>3
  <2>3. Matches(SubSeq(queue, 1, n), d, docker[d], View, event)
    BY <1>4, <2>1, <2>2, PrefixOfOthers
  <2> QED
    BY <1>3, <2>3
<1>10. CycleInv'
  BY <1>1, <1>2, <1>6 DEF CycleInv
<1> QED
  BY <1>7, <1>8, <1>9, <1>10 DEF LoopInv

----------------------------------------------------------------------------
(* The loop.                                                               *)

LEMMA ListLoop ==
    ASSUME LoopInv, ListContainers
    PROVE  LoopInv'
<1>1. TypeOK /\ PlaceInv /\ MatchInv /\ CycleInv
  BY DEF LoopInv
<1>2. /\ UNCHANGED <<docker, queue, watcher, event, containers, local, applied,
                      heard, agentData, fingerprints, trigger, sending>>
      /\ listed' = Running /\ missed' = missed \cap OnTheirWay
      /\ \/ pc = "first list" /\ pc' = "first sync"
         \/ pc = "list" /\ pc' = "sync"
  BY DEF ListContainers, Goes, agentVars
<1>3. TypeOK'
  <2>1. Feed!FeedType' /\ listed' \subseteq Containers /\ missed' \subseteq Labelled
    BY <1>1, <1>2 DEF TypeOK, Feed!FeedType, LoopSeen, Feed!Reports, Running, Starting,
                      Reconciling
  <2> QED
    BY <1>1, <1>2, <2>1 DEF TypeOK, Starting
<1>4. PlaceInv'
  BY <1>1, <1>2 DEF PlaceInv, Starting
<1>5. MatchInv'
  <2> SUFFICES ASSUME NEW d \in Labelled \ missed'
               PROVE  Matches(queue, d, docker[d], Running, event)
    BY <1>2 DEF MatchInv, View
  <2>1. d # event /\ (d \in Running <=> docker[d] = "running")
    BY <1>1, <1>2, MainLoopAssumption DEF PlaceInv, Running
  <2>2. queue \in Seq(Event) /\ DOMAIN queue = 1 .. Len(queue)
    BY <1>1 DEF TypeOK
  <2>3. CASE d \in missed \/ pc = "first list"
    <3>1. Absent(queue, d)
      <4>1. CASE d \in missed
        BY <1>2, <2>2, <4>1 DEF OnTheirWay, Absent
      <4>2. CASE pc = "first list"
        <5>1. queue = <<>>
          BY <1>1, <4>2 DEF PlaceInv, Starting
        <5>2. Len(<<>>) = 0
          OBVIOUS
        <5> QED
          BY <5>1, <5>2 DEF Absent
      <4> QED
        BY <2>3, <4>1, <4>2
    <3>2. \A i \in Nat : ~About(queue, d, i)
      BY <3>1 DEF About, Absent
    <3> QED
      BY <2>1, <3>2 DEF Matches, Consistent, First, Last, Consecutive
  <2>4. CASE d \notin missed /\ pc # "first list"
    <3>1. Matches(queue, d, docker[d], View, event)
      BY <1>1, <2>4 DEF MatchInv
    <3>2. \A i \in Nat : First(queue, d, i) /\ queue[i].type = "destroy" => d \notin Running
      BY <2>1, <3>1 DEF Matches, Consistent, First
    <3> QED
      BY <2>1, <3>1, <3>2 DEF Matches
  <2> QED
    BY <2>3, <2>4
<1>6. CycleInv'
  BY <1>2 DEF CycleInv
<1> QED
  BY <1>3, <1>4, <1>5, <1>6 DEF LoopInv

LEMMA ListFailsLoop ==
    ASSUME LoopInv, ListFails
    PROVE  LoopInv'
<1>1. TypeOK /\ PlaceInv /\ MatchInv /\ CycleInv
  BY DEF LoopInv
<1>2. /\ UNCHANGED <<docker, queue, watcher, listed, event, containers, local, applied,
                      heard, agentData, fingerprints, trigger, sending>>
      /\ missed' = IF pc = "first list" THEN Labelled ELSE missed
      /\ \/ pc = "first list" /\ pc' = "wait"
         \/ pc = "list" /\ pc' = "select"
  BY DEF ListFails, Goes, agentVars
<1>3. TypeOK'
  <2>1. Feed!FeedType' /\ missed' \subseteq Labelled
    BY <1>1, <1>2 DEF TypeOK, Feed!FeedType, LoopSeen, Feed!Reports, Starting, Reconciling
  <2> QED
    BY <1>1, <1>2, <2>1 DEF TypeOK, Starting
<1>4. PlaceInv'
  BY <1>1, <1>2 DEF PlaceInv, Starting
<1>5. MatchInv' /\ CycleInv'
  BY <1>1, <1>2 DEF MatchInv, CycleInv, View
<1> QED
  BY <1>3, <1>4, <1>5 DEF LoopInv

LEMMA SyncLoop ==
    ASSUME LoopInv, SyncContainers
    PROVE  LoopInv'
<1>1. TypeOK /\ PlaceInv /\ MatchInv /\ CycleInv
  BY DEF LoopInv
<1>2. /\ UNCHANGED <<docker, queue, watcher, missed, event, local, applied,
                      heard, agentData, fingerprints, trigger, sending>>
      /\ containers' = listed \cap Labelled /\ listed' = {}
      /\ \/ pc = "first sync" /\ pc' = "wait"
         \/ pc = "sync" /\ pc' = "cycle"
  BY DEF SyncContainers, Goes, agentVars
<1>3. TypeOK'
  <2>1. Feed!FeedType'
    BY <1>1, <1>2 DEF TypeOK, Feed!FeedType, LoopSeen, Feed!Reports, Starting, Reconciling
  <2> QED
    BY <1>1, <1>2, <2>1 DEF TypeOK, Starting, Reconciling
<1>4. PlaceInv'
  BY <1>1, <1>2 DEF PlaceInv, Starting
<1>5. MatchInv'
  <2> SUFFICES ASSUME NEW d \in Labelled \ missed
               PROVE  Matches(queue, d, docker[d], listed \cap Labelled, event)
    BY <1>2 DEF MatchInv, View
  <2>1. Matches(queue, d, docker[d], listed, event)
    BY <1>1, <1>2 DEF MatchInv, View
  <2> QED
    BY <2>1, MatchesAlike
<1>6. CycleInv'
  BY <1>2 DEF CycleInv
<1> QED
  BY <1>3, <1>4, <1>5, <1>6 DEF LoopInv

(* Steps of the loop that leave the map and the queue alone.               *)
LEMMA PlainLoop ==
    ASSUME LoopInv, Tick \/ EndWait \/ Reconcile \/ TakeTrigger
    PROVE  LoopInv'
<1>1. TypeOK /\ PlaceInv /\ MatchInv /\ CycleInv
  BY DEF LoopInv
<1>2. /\ UNCHANGED <<docker, queue, watcher, missed, listed, event, containers,
                      agentData, fingerprints, sending>>
      /\ trigger' \in BOOLEAN
      /\ \/ UNCHANGED <<local, applied, heard>>
         \/ local' = containers /\ applied' = agentData /\ heard' = fingerprints
      /\ \/ pc = "select" /\ pc' = "list" /\ local' = local
         \/ pc = "wait" /\ pc' = "first cycle"
         \/ pc \in Reconciling /\ pc' = "select" /\ local' = containers
         \/ pc = "select" /\ pc' = "cycle"
  BY <1>1
  DEF Tick, EndWait, Reconcile, TakeTrigger, Goes, agentVars, TypeOK, Feed!FeedType,
      Reconciling
<1>3. TypeOK'
  <2>1. Feed!FeedType' /\ local' \subseteq Labelled
    BY <1>1, <1>2 DEF TypeOK, Feed!FeedType, LoopSeen, Feed!Reports, Starting, Reconciling
  <2> QED
    BY <1>1, <1>2, <2>1 DEF TypeOK, Starting, Reconciling
<1>4. PlaceInv'
  BY <1>1, <1>2 DEF PlaceInv, Starting, Reconciling
<1>5. MatchInv' /\ CycleInv'
  BY <1>1, <1>2 DEF MatchInv, CycleInv, View, Reconciling
<1> QED
  BY <1>3, <1>4, <1>5 DEF LoopInv

(* What is left of the queue once its head is taken.                       *)
LEMMA HeadTaken ==
    ASSUME TypeOK, queue # <<>>, queue' = Tail(queue)
    PROVE  /\ queue' \in Seq(Event) /\ Len(queue') <= Capacity
           /\ queue \in Seq(Event)
           /\ Head(queue) = queue[1]
           /\ queue[1].container \in Containers
           /\ queue[1].type \in {"start", "die", "stop", "destroy"}
<1>1. queue \in Seq(Event) /\ Len(queue) <= Capacity
  BY DEF TypeOK
<1>2. /\ Head(queue) = queue[1] /\ queue[1] \in Event /\ Len(queue) \in Nat
      /\ Tail(queue) \in Seq(Event) /\ Len(Tail(queue)) = Len(queue) - 1
  BY <1>1, TailItems
<1>3. /\ queue[1].container \in Containers
      /\ queue[1].type \in {"start", "die", "stop", "destroy"}
  BY <1>2 DEF Event
<1>4. Len(queue') <= Capacity
  BY <1>1, <1>2, MainLoopAssumption
<1> QED
  BY <1>1, <1>2, <1>3, <1>4

LEMMA HandleStartLoop ==
    ASSUME LoopInv, HandleStart
    PROVE  LoopInv'
<1>1. TypeOK /\ PlaceInv /\ MatchInv /\ CycleInv
  BY DEF LoopInv
<1>2. /\ UNCHANGED <<docker, watcher, missed, listed, containers, local, applied,
                      heard, agentData, fingerprints, trigger, sending>>
      /\ queue # <<>> /\ Head(queue).type = "start" /\ queue' = Tail(queue)
      /\ event' = Head(queue).container
      /\ pc = "select" /\ pc' = "inspect"
  BY DEF HandleStart, Goes, agentVars
<1>3. /\ queue' \in Seq(Event) /\ Len(queue') <= Capacity /\ queue \in Seq(Event)
      /\ Head(queue) = queue[1] /\ queue[1].container \in Containers
  BY <1>1, <1>2, HeadTaken
<1>4. TypeOK'
  <2>1. Feed!FeedType'
    BY <1>1, <1>2 DEF TypeOK, Feed!FeedType, LoopSeen, Feed!Reports, Starting, Reconciling
  <2> QED
    BY <1>1, <1>2, <1>3, <2>1 DEF TypeOK
<1>5. PlaceInv'
  BY <1>1, <1>2, <1>3, MainLoopAssumption DEF PlaceInv, Starting
<1>6. MatchInv'
  <2> SUFFICES ASSUME NEW d \in Labelled \ missed
               PROVE  Matches(queue', d, docker[d], containers, event')
    BY <1>2 DEF MatchInv, View
  <2>1. Matches(queue, d, docker[d], containers, event)
    BY <1>1, <1>2 DEF MatchInv, View
  <2>2. CASE queue[1].container = d
    <3>1. Matches(Tail(queue), d, docker[d], containers, d)
      <4>1. Nobody # d
        BY MainLoopAssumption
      <4> QED
        BY <1>2, <1>3, <2>1, <2>2, <4>1, TailOfOwn
    <3> QED
      BY <1>2, <1>3, <2>2, <3>1
  <2>3. CASE queue[1].container # d
    <3>1. Matches(Tail(queue), d, docker[d], containers, event)
      BY <1>2, <1>3, <2>1, <2>3, TailOfOthers
    <3>2. d # event /\ d # event'
      BY <1>1, <1>2, <1>3, <2>3, MainLoopAssumption DEF PlaceInv
    <3> QED
      BY <1>2, <3>1, <3>2, MatchesAlike
  <2> QED
    BY <2>2, <2>3
<1>7. CycleInv'
  BY <1>1, <1>2 DEF CycleInv
<1> QED
  BY <1>4, <1>5, <1>6, <1>7 DEF LoopInv

LEMMA HandleStopLoop ==
    ASSUME LoopInv, HandleStop
    PROVE  LoopInv'
<1>1. TypeOK /\ PlaceInv /\ MatchInv /\ CycleInv
  BY DEF LoopInv
<1> DEFINE c == queue[1].container
<1>2. /\ UNCHANGED <<docker, watcher, missed, listed, event, local, applied,
                      heard, agentData, fingerprints, trigger, sending>>
      /\ queue # <<>> /\ Head(queue).type # "start" /\ queue' = Tail(queue)
      /\ containers' = containers \ {Head(queue).container}
      /\ pc = "select" /\ pc' = IF Head(queue).type = "destroy" THEN "select" ELSE "cycle"
  BY DEF HandleStop, Goes, agentVars
<1>3. /\ queue' \in Seq(Event) /\ Len(queue') <= Capacity /\ queue \in Seq(Event)
      /\ Head(queue) = queue[1] /\ c \in Containers
  BY <1>1, <1>2, HeadTaken
<1>4. TypeOK'
  <2>1. Feed!FeedType'
    BY <1>1, <1>2 DEF TypeOK, Feed!FeedType, LoopSeen, Feed!Reports, Starting, Reconciling
  <2>2. pc' \in {"select", "cycle"} /\ containers' \subseteq Labelled
    BY <1>1, <1>2 DEF TypeOK
  <2> QED
    BY <1>1, <1>2, <1>3, <2>1, <2>2 DEF TypeOK, Reconciling
<1>5. PlaceInv'
  <2>1. pc' \in {"select", "cycle"}
    BY <1>2
  <2>2. watcher = "off" => FALSE
    BY <1>1, <1>2 DEF PlaceInv
  <2> QED
    BY <1>1, <1>2, <2>1, <2>2 DEF PlaceInv, Starting
<1>6. MatchInv'
  <2> SUFFICES ASSUME NEW d \in Labelled \ missed
               PROVE  Matches(Tail(queue), d, docker[d], containers \ {c}, event)
    <3>1. View' = containers'
      BY <1>2 DEF View
    <3> QED
      BY <1>2, <1>3, <3>1 DEF MatchInv
  <2>1. Matches(queue, d, docker[d], containers, event)
    BY <1>1, <1>2 DEF MatchInv, View
  <2>2. d # event
    BY <1>1, <1>2, MainLoopAssumption DEF PlaceInv
  <2>3. CASE c = d
    <3>1. Matches(Tail(queue), d, docker[d], containers \ {d}, event)
      BY <1>2, <1>3, <2>1, <2>2, <2>3, TailOfOwn
    <3> QED
      BY <2>3, <3>1
  <2>4. CASE c # d
    <3>1. Matches(Tail(queue), d, docker[d], containers, event)
      BY <1>2, <1>3, <2>1, <2>4, TailOfOthers
    <3> QED
      BY <2>4, <3>1, MatchesAlike
  <2> QED
    BY <2>3, <2>4
<1>7. CycleInv'
  <2>1. CASE Head(queue).type = "destroy"
    <3>1. c \in Labelled \ missed => c \notin containers
      <4> SUFFICES ASSUME c \in Labelled \ missed PROVE c \notin containers
        OBVIOUS
      <4>1. Matches(queue, c, docker[c], containers, event)
        BY <1>1, <1>2 DEF MatchInv, View
      <4>2. First(queue, c, 1)
        <5>1. 1 \in 1 .. Len(queue)
          BY <1>2, <1>3, TailItems
        <5> QED
          BY <5>1 DEF First, About
      <4> QED
        BY <1>3, <2>1, <4>1, <4>2 DEF Matches
    <3>2. containers \subseteq Labelled /\ local \ missed = containers \ missed
      BY <1>1, <1>2 DEF TypeOK, CycleInv
    <3>3. containers' \ missed = containers \ missed
      BY <1>2, <1>3, <3>1, <3>2
    <3> QED
      BY <1>2, <3>2, <3>3 DEF CycleInv
  <2>2. CASE Head(queue).type # "destroy"
    BY <1>2, <2>2 DEF CycleInv
  <2> QED
    BY <2>1, <2>2
<1> QED
  BY <1>4, <1>5, <1>6, <1>7 DEF LoopInv

(* A start that has been handled, or needs not be: its container is gone.  *)
LEMMA MatchesHandled ==
    ASSUME NEW q, NEW c, NEW state, NEW view, NEW none, none # c,
           Matches(q, c, state, view, c)
    PROVE  /\ Matches(q, c, state, view \cup {c}, none)
           /\ state = "gone" => Matches(q, c, state, view, none)
BY DEF Matches

LEMMA InspectLoop ==
    ASSUME LoopInv, Inspect \/ InspectFails
    PROVE  LoopInv'
<1>1. TypeOK /\ PlaceInv /\ MatchInv /\ CycleInv
  BY DEF LoopInv
<1>2. /\ UNCHANGED <<docker, queue, watcher, listed, local, applied,
                      heard, agentData, fingerprints, trigger, sending>>
      /\ pc = "inspect" /\ event' = Nobody /\ pc' \in {"cycle", "select"}
      /\ \/ /\ event \in Labelled /\ pc' = "cycle"
            /\ containers' = containers \cup {event} /\ missed' = missed
         \/ /\ event \notin Labelled /\ pc' = "select"
            /\ containers' = containers /\ missed' = missed
         \/ /\ docker[event] = "gone" /\ pc' = "select"
            /\ containers' = containers /\ missed' = missed
         \/ /\ pc' = "select"
            /\ containers' = containers /\ missed' = missed \cup ({event} \cap Labelled)
  BY DEF Inspect, InspectFails, Goes, agentVars
<1>3. event \in Containers
  BY <1>1, <1>2 DEF TypeOK, PlaceInv
<1>4. /\ containers' \subseteq Labelled /\ missed' \subseteq Labelled
      /\ missed \subseteq missed'
  BY <1>1, <1>2 DEF TypeOK
<1>5. TypeOK'
  <2>1. Feed!FeedType'
    BY <1>1, <1>2 DEF TypeOK, Feed!FeedType, LoopSeen, Feed!Reports, Starting, Reconciling
  <2> QED
    BY <1>1, <1>2, <1>4, <2>1 DEF TypeOK, Reconciling
<1>6. PlaceInv'
  BY <1>1, <1>2 DEF PlaceInv, Starting
<1>7. MatchInv'
  <2> SUFFICES ASSUME NEW d \in Labelled \ missed'
               PROVE  Matches(queue, d, docker[d], containers', Nobody)
    <3>1. View' = containers'
      BY <1>2 DEF View
    <3> QED
      BY <1>2, <3>1 DEF MatchInv
  <2>1. Matches(queue, d, docker[d], containers, event) /\ d # Nobody
    BY <1>1, <1>2, <1>4, MainLoopAssumption DEF MatchInv, View
  <2>2. CASE d = event
    BY <1>2, <2>1, <2>2, MatchesHandled
  <2>3. CASE d # event
    <3>1. d \in containers' <=> d \in containers
      BY <1>2, <2>3
    <3> QED
      BY <2>1, <2>3, <3>1, MatchesAlike
  <2> QED
    BY <2>2, <2>3
<1>8. CycleInv'
  BY <1>1, <1>2 DEF CycleInv
<1> QED
  BY <1>5, <1>6, <1>7, <1>8 DEF LoopInv

----------------------------------------------------------------------------
(* The agents.                                                             *)

LEMMA AgentLoop ==
    ASSUME LoopInv, AgentStep
    PROVE  LoopInv'
<1>1. TypeOK /\ PlaceInv /\ MatchInv /\ CycleInv
  BY DEF LoopInv
<1> PICK a \in Agents : SendTrigger(a) \/ Disconnect(a) \/ \E f \in Fleets : Report(a, f)
  BY DEF AgentStep
<1>2. /\ UNCHANGED <<docker, queue, watcher, missed, pc, listed, event, containers, local,
                      applied, heard>>
      /\ trigger' \in BOOLEAN /\ sending' \subseteq Agents
  BY <1>1
  DEF SendTrigger, Disconnect, Report, TypeOK, Feed!SendTrigger, Feed!RemoveAgentData,
      Feed!UpdateAgentData, Feed!FeedType
<1>3. agentData' \in Feed!Reports /\ fingerprints' \in Feed!Reports
  BY <1>1
  DEF SendTrigger, Disconnect, Report, TypeOK, Feed!SendTrigger, Feed!RemoveAgentData,
      Feed!UpdateAgentData, Feed!FeedType, Feed!Reports
<1>4. TypeOK'
  <2>1. Feed!FeedType'
    BY <1>1, <1>2, <1>3 DEF TypeOK, Feed!FeedType, LoopSeen, Feed!Reports
  <2> QED
    BY <1>1, <1>2, <2>1 DEF TypeOK
<1>5. PlaceInv' /\ MatchInv' /\ CycleInv'
  BY <1>1, <1>2 DEF PlaceInv, MatchInv, CycleInv, View
<1> QED
  BY <1>4, <1>5 DEF LoopInv

LEMMA StutterLoop ==
    ASSUME LoopInv, UNCHANGED vars
    PROVE  LoopInv'
<1>1. UNCHANGED <<docker, queue, watcher, missed, pc, listed, event, containers, local,
                  applied, heard, agentData, fingerprints, trigger, sending>>
  BY DEF vars, loopVars, agentVars
<1>2. TypeOK' /\ PlaceInv' /\ MatchInv' /\ CycleInv'
  BY <1>1
  DEF LoopInv, TypeOK, PlaceInv, MatchInv, CycleInv, View, Feed!FeedType, LoopSeen,
      Feed!Reports
<1> QED
  BY <1>2 DEF LoopInv

LEMMA NextLoop ==
    ASSUME LoopInv, [Next]_vars
    PROVE  LoopInv'
<1>1. CASE DockerStep
  BY <1>1, DockerLoop
<1>2. CASE Subscribe \/ StreamEnds
  BY <1>2, SubscribeLoop, StreamEndsLoop
<1>3. CASE LoopStep \/ ListFails \/ InspectFails
  BY <1>3, ListLoop, SyncLoop, PlainLoop, HandleStartLoop, HandleStopLoop, InspectLoop,
     ListFailsLoop DEF LoopStep
<1>4. CASE AgentStep
  BY <1>4, AgentLoop
<1>5. CASE UNCHANGED vars
  BY <1>5, StutterLoop
<1> QED
  BY <1>1, <1>2, <1>3, <1>4, <1>5 DEF Next

LEMMA LoopInvariant == Spec => []LoopInv
<1>1. LoopInv /\ [Next]_vars => LoopInv'
  BY NextLoop
<1> QED
  BY InitLoop, <1>1, PTL DEF Spec

----------------------------------------------------------------------------
(* Theorems.                                                               *)

(* Whatever starts, stops, is listed, lost or fails in whatever order, the *)
(* reconciler's map is right about every container for which nothing is on *)
(* its way and nothing was lost, and every change of it is followed by a   *)
(* cycle: the destruction of a container, which is followed by none, never *)
(* changes it.                                                             *)
THEOREM MapInStepHolds == Spec => []MapInStep
<1>1. LoopInv => MapInStep
  <2> SUFFICES ASSUME LoopInv PROVE MapInStep
    OBVIOUS
  <2>1. TypeOK /\ PlaceInv /\ MatchInv /\ CycleInv
    BY DEF LoopInv
  <2>2. InStep
    <3> SUFFICES ASSUME NEW c \in Labelled \ (missed \cup OnTheirWay),
                        pc \notin {"first list", "first sync", "sync"}, c # event
                 PROVE  c \in containers <=> c \in Running
      BY DEF InStep
    <3>1. Matches(queue, c, docker[c], containers, event)
      BY <2>1 DEF MatchInv, View
    <3>2. Absent(queue, c)
      <4>1. DOMAIN queue = 1 .. Len(queue)
        BY <2>1, SequenceDomain DEF TypeOK
      <4> QED
        BY <4>1 DEF Absent, OnTheirWay
    <3> QED
      BY <3>1, <3>2, MainLoopAssumption DEF Matches, Running
  <2>3. ChangesReconciled
    BY <2>1 DEF CycleInv, ChangesReconciled
  <2> QED
    BY <2>1, <2>2, <2>3 DEF MapInStep
<1> QED
  BY LoopInvariant, <1>1, PTL

(* A step of the main loop, of Docker or of an agent's session is a step   *)
(* of AgentFeed, or none: what is shown there of the agents' wake-up holds *)
(* of the loop with its events, lists and failures.                        *)
THEOREM ImplementsFeedHolds == Spec => ImplementsFeed
<1>1. Init => Feed!FeedInit
  BY DEF Init
<1>2. ASSUME [Next]_vars
      PROVE  [Feed!LoopStep \/ Feed!FeedOfAgents]_(Feed!feedVars)
  <2>1. CASE DockerStep \/ Subscribe \/ StreamEnds
    <3>1. UNCHANGED <<agentData, fingerprints, trigger, pc, applied, heard>>
      BY <2>1
      DEF DockerStep, Start, Die, Stop, Destroy, Changes, Subscribe, StreamEnds, loopVars,
          agentVars
    <3> QED
      BY <3>1 DEF Feed!feedVars, LoopSeen
  <2>2. CASE ListContainers \/ SyncContainers \/ ListFails
    BY <2>2
    DEF ListContainers, SyncContainers, ListFails, Goes, agentVars, Feed!feedVars, LoopSeen,
        Starting, Reconciling, Feed!LoopStep, Feed!WakeUp
  <2>3. CASE EndWait
    BY <2>3
    DEF EndWait, Goes, agentVars, LoopSeen, Starting, Reconciling, Feed!LoopStep, Feed!EndWait
  <2>4. CASE Reconcile
    BY <2>4
    DEF Reconcile, Goes, agentVars, LoopSeen, Starting, Reconciling, Feed!LoopStep,
        Feed!ReadAgentData
  <2>5. CASE Tick \/ HandleStart \/ Inspect \/ InspectFails \/ HandleStop
    BY <2>5
    DEF Tick, HandleStart, Inspect, InspectFails, HandleStop, Goes, agentVars, LoopSeen,
        Starting, Reconciling, Feed!LoopStep, Feed!WakeUp, Feed!feedVars
  <2>6. CASE TakeTrigger
    BY <2>6
    DEF TakeTrigger, Goes, LoopSeen, Starting, Reconciling, Feed!LoopStep, Feed!TakeTrigger
  <2>7. CASE AgentStep
    BY <2>7
    DEF AgentStep, SendTrigger, Disconnect, Report, Feed!FeedOfAgents
  <2>8. CASE UNCHANGED vars
    BY <2>8 DEF vars, loopVars, agentVars, Feed!feedVars, LoopSeen
  <2> QED
    BY <1>2, <2>1, <2>2, <2>3, <2>4, <2>5, <2>6, <2>7, <2>8 DEF Next, LoopStep
<1> QED
  BY <1>1, <1>2, PTL DEF Spec, ImplementsFeed, Feed!FeedSpec
=============================================================================

--------------------------- MODULE ManagedRecord ----------------------------
(***************************************************************************)
(* What the reconciler promises about one kind of resource, seen from      *)
(* above: labels ask for keys, and each key has a life of its own.  This   *)
(* is an abstract specification; the operators implement it with a table,  *)
(* an API and the passes of a cycle.                                       *)
(*                                                                         *)
(*     none --Claim--> claimed --Abandon--> orphan --Drop--> none          *)
(*                        ^                   |                            *)
(*                        +------Claim--------+                            *)
(***************************************************************************)
CONSTANTS Keys, Specs, NoSpec

VARIABLES
    desired,    \* what the labels were seen to ask for
    life        \* the life of each key

vars == <<desired, life>>

Init ==
    /\ desired = [k \in Keys |-> NoSpec]
    /\ life = [k \in Keys |-> "none"]

(* The labels are looked at again.                                         *)
Look ==
    /\ desired' \in [Keys -> Specs \cup {NoSpec}]
    /\ UNCHANGED life

(* Only what labels ask for is claimed, be it new or an orphan.            *)
Claim(k) ==
    /\ desired[k] # NoSpec
    /\ life[k] \in {"none", "orphan"}
    /\ life' = [life EXCEPT ![k] = "claimed"]
    /\ UNCHANGED desired

(* Only what no label asks for becomes an orphan ...                       *)
Abandon(k) ==
    /\ desired[k] = NoSpec
    /\ life[k] = "claimed"
    /\ life' = [life EXCEPT ![k] = "orphan"]
    /\ UNCHANGED desired

(* ... and only an orphan nobody asks for is dropped.                      *)
Drop(k) ==
    /\ desired[k] = NoSpec
    /\ life[k] = "orphan"
    /\ life' = [life EXCEPT ![k] = "none"]
    /\ UNCHANGED desired

Next == Look \/ \E k \in Keys : Claim(k) \/ Abandon(k) \/ Drop(k)

Spec == Init /\ [][Next]_vars

(* No key is neglected.                                                    *)
FairSpec ==
    /\ Spec
    /\ \A k \in Keys : WF_vars(Claim(k)) /\ WF_vars(Abandon(k))
=============================================================================

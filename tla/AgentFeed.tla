----------------------------- MODULE AgentFeed ------------------------------
(***************************************************************************)
(* What the reconciler knows of the agents, and how it is told: the maps   *)
(* agentData and agentFingerprints, the wake-up channel agentTrigger of    *)
(* capacity one, and the part of the main loop that reads them             *)
(* (internal/reconciler/reconciler.go).                                    *)
(*                                                                         *)
(* A fleet is the list of labelled containers of one report, and at the    *)
(* same time its fingerprint: two fleets differ exactly when the hash of   *)
(* container ids, names and labels does.                                   *)
(***************************************************************************)

CONSTANTS
    Agents,
    Fleets,
    NoFleet             \* no entry in the map

VARIABLES
    agentData,          \* the last report of each agent
    fingerprints,       \* the hash of the last report, kept when the data goes
    trigger,            \* a token is in agentTrigger
    loop,               \* where the main loop is
    applied,            \* the agent data the last cycle looked at
    heard               \* the fingerprints at that time

feedVars == <<agentData, fingerprints, trigger, loop, applied, heard>>

Reports == [Agents -> Fleets \cup {NoFleet}]

FeedType ==
    /\ agentData \in Reports
    /\ fingerprints \in Reports
    /\ trigger \in BOOLEAN
    /\ loop \in {"waiting", "idle", "woken"}
    /\ applied \in Reports
    /\ heard \in Reports

FeedInit ==
    /\ agentData = [a \in Agents |-> NoFleet]
    /\ fingerprints = agentData
    /\ trigger = FALSE
    /\ loop = "waiting"
    /\ applied = agentData
    /\ heard = agentData

(* Mutant: compared after the new fingerprint has been stored.             *)
Changed_AfterStore(a, fleet) == [fingerprints EXCEPT ![a] = fleet][a] # fleet

Changed(a, fleet) == fingerprints[a] # fleet

(* Mutant: a report that brings nothing new is not stored.                 *)
UpdateAgentData_OnlyNews(a, fleet) ==
    /\ agentData' =
          IF fingerprints[a] = fleet THEN agentData ELSE [agentData EXCEPT ![a] = fleet]
    /\ fingerprints' = [fingerprints EXCEPT ![a] = fleet]
    /\ UNCHANGED <<trigger, loop, applied, heard>>

(* UpdateAgentData up to the release of the lock, and past agentReady,     *)
(* which the loop looks at only while it waits for the first reports.      *)
UpdateAgentData(a, fleet) ==
    /\ agentData' = [agentData EXCEPT ![a] = fleet]
    /\ fingerprints' = [fingerprints EXCEPT ![a] = fleet]
    /\ UNCHANGED <<trigger, loop, applied, heard>>

(* The non-blocking send that follows when the fingerprint has changed.    *)
SendTrigger ==
    /\ trigger' = TRUE
    /\ UNCHANGED <<agentData, fingerprints, loop, applied, heard>>

RemoveAgentData(a) ==
    /\ agentData' = [agentData EXCEPT ![a] = NoFleet]
    /\ UNCHANGED <<fingerprints, trigger, loop, applied, heard>>

(* waitForAgents ends when the expected agents have reported, or gives up  *)
(* after five seconds: seen from here it may end at any moment.            *)
EndWait ==
    /\ loop = "waiting"
    /\ loop' = "woken"
    /\ UNCHANGED <<agentData, fingerprints, trigger, applied, heard>>

TakeTrigger ==
    /\ loop = "idle"
    /\ trigger
    /\ trigger' = FALSE
    /\ loop' = "woken"
    /\ UNCHANGED <<agentData, fingerprints, applied, heard>>

(* The ticker, or a Docker event of the main instance's own host.          *)
WakeUp ==
    /\ loop = "idle"
    /\ loop' = "woken"
    /\ UNCHANGED <<agentData, fingerprints, trigger, applied, heard>>

(* Mutant: what is new is added to what is known, nothing is taken away.   *)
ReadAgentData_OnlyAdds ==
    /\ loop = "woken"
    /\ applied' =
          [a \in Agents |-> IF agentData[a] = NoFleet THEN applied[a] ELSE agentData[a]]
    /\ heard' = fingerprints
    /\ loop' = "idle"
    /\ UNCHANGED <<agentData, fingerprints, trigger>>

(* getDesiredState, under the read lock; the rest of the cycle works on    *)
(* this snapshot.                                                          *)
ReadAgentData ==
    /\ loop = "woken"
    /\ applied' = agentData
    /\ heard' = fingerprints
    /\ loop' = "idle"
    /\ UNCHANGED <<agentData, fingerprints, trigger>>

LoopStep == EndWait \/ TakeTrigger \/ WakeUp \/ ReadAgentData

(* The agents' goroutines at any moment, next to the loop.                 *)
FeedOfAgents ==
    \/ \E a \in Agents : RemoveAgentData(a) \/ \E f \in Fleets : UpdateAgentData(a, f)
    \/ SendTrigger

FeedSpec == FeedInit /\ [][LoopStep \/ FeedOfAgents]_feedVars
=============================================================================

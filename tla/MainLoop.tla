------------------------------ MODULE MainLoop ------------------------------
(***************************************************************************)
(* The main loop of the reconciler (Run, syncContainers and handleEvent of *)
(* internal/reconciler/reconciler.go) between Docker, whose containers     *)
(* come and go and whose events a goroutine passes on (Watch of            *)
(* internal/provider/docker/client.go), and the agents, whose reports are  *)
(* those of AgentFeed: the loop is shown to be the loop of that module.    *)
(*                                                                         *)
(* Containers that the provider's filter does not match appear nowhere.    *)
(* A list of events stands for Docker's buffer, the event in the watcher's *)
(* hand and the channel between the goroutines; Docker drops what a slow   *)
(* reader leaves no room for.  A container is its id, which is never used  *)
(* again.                                                                  *)
(***************************************************************************)
EXTENDS Naturals, Sequences, FiniteSets

CONSTANTS
    Containers,
    Labelled,           \* those with services or policies in their labels
    Capacity,           \* events on their way
    Agents,
    Fleets,
    NoFleet,
    Nobody,
    Faults              \* {"list", "inspect", "stream"}: what may go wrong

ASSUME MainLoopAssumption ==
    /\ Labelled \subseteq Containers
    /\ Capacity \in Nat
    /\ Nobody \notin Containers

VARIABLES
    docker,         \* what is on the host: the state of each container
    queue,          \* events on their way
    watcher,        \* the goroutine of Watch
    pc,             \* where the loop is
    listed,         \* the answer of ListContainers
    event,          \* the container whose start is being handled
    containers,     \* the reconciler's map
    local,          \* what the last cycle saw of it
    missed,         \* history: labelled containers whose events were lost
    agentData,
    fingerprints,
    trigger,
    applied,
    heard,
    sending         \* agents whose goroutine is about to send the token

agentVars == <<agentData, fingerprints, trigger, sending>>
loopVars == <<pc, listed, event, containers, local, applied, heard>>
vars == <<docker, queue, watcher, missed, loopVars, agentVars>>

Starting == {"first list", "first sync", "wait"}
Reconciling == {"first cycle", "cycle"}

(* The loop as the agents see it.                                          *)
LoopSeen ==
    IF pc \in Starting THEN "waiting" ELSE IF pc \in Reconciling THEN "woken" ELSE "idle"

Feed == INSTANCE AgentFeed WITH loop <- LoopSeen

Event == [type : {"start", "die", "stop", "destroy"}, container : Containers]

TypeOK ==
    /\ docker \in [Containers -> {"new", "stopped", "running", "gone"}]
    /\ queue \in Seq(Event) /\ Len(queue) <= Capacity
    /\ watcher \in {"off", "on", "ended"}
    /\ pc \in Starting \cup Reconciling \cup {"select", "list", "sync", "inspect"}
    /\ listed \subseteq Containers
    /\ event \in Containers \cup {Nobody}
    /\ containers \subseteq Labelled
    /\ local \subseteq Labelled
    /\ missed \subseteq Labelled
    /\ Feed!FeedType
    /\ sending \subseteq Agents

Init ==
    /\ docker \in [Containers -> {"new", "stopped", "running"}]
    /\ queue = <<>>
    /\ watcher = "off"
    /\ pc = "first list"
    /\ listed = {}
    /\ event = Nobody
    /\ containers = {}
    /\ local = {}
    /\ missed = {}
    /\ Feed!FeedInit
    /\ sending = {}

----------------------------------------------------------------------------
(* Docker.                                                                 *)

Running == {c \in Containers : docker[c] = "running"}

(* The events of one change get through, or are lost: to nobody who        *)
(* listens, or for want of room.                                           *)
Emit(c, types) ==
    LET news == [i \in DOMAIN types |-> [type |-> types[i], container |-> c]]
    IN IF watcher = "on" /\ Len(queue \o news) <= Capacity
       THEN queue' = queue \o news /\ UNCHANGED missed
       ELSE missed' = missed \cup ({c} \cap Labelled) /\ UNCHANGED queue

Changes(c, from, to, types) ==
    /\ docker[c] \in from
    /\ docker' = [docker EXCEPT ![c] = to]
    /\ Emit(c, types)
    /\ UNCHANGED <<watcher, loopVars, agentVars>>

Start(c) == Changes(c, {"new", "stopped"}, "running", <<"start">>)
Die(c) == Changes(c, {"running"}, "stopped", <<"die">>)
Stop(c) == Changes(c, {"running"}, "stopped", <<"die", "stop">>)
Destroy(c) == Changes(c, {"stopped"}, "gone", <<"destroy">>)

(* The goroutine of Watch asks for the events from now on.                 *)
Subscribe ==
    /\ watcher = "off"
    /\ pc \notin Starting \cup {"first cycle"}
    /\ watcher' = "on"
    /\ UNCHANGED <<docker, queue, missed, loopVars, agentVars>>

(* Watch returns an error, which is logged; what it had passed on stays.   *)
StreamEnds ==
    /\ "stream" \in Faults
    /\ watcher = "on"
    /\ watcher' = "ended"
    /\ \E n \in 0 .. Len(queue) :
          /\ queue' = SubSeq(queue, 1, n)
          /\ missed' = missed \cup
                (Labelled \cap {queue[i].container : i \in n + 1 .. Len(queue)})
    /\ UNCHANGED <<docker, loopVars, agentVars>>

----------------------------------------------------------------------------
(* The loop.                                                               *)

Goes(from, to) == pc = from /\ pc' = to

OnTheirWay == {queue[i].container : i \in DOMAIN queue}

(* Mutant: the token is taken on the way, as a cycle is to follow.         *)
Tick_TakesToken ==
    /\ Goes("select", "list")
    /\ trigger' = FALSE
    /\ UNCHANGED <<docker, queue, watcher, missed, listed, event, containers, local,
                   applied, heard, agentData, fingerprints, sending>>

(* The ticker.                                                             *)
Tick ==
    /\ Goes("select", "list")
    /\ UNCHANGED <<docker, queue, watcher, missed, listed, event, containers, local,
                   applied, heard, agentVars>>

(* Mutant: a list of nothing is taken for a failure.                       *)
ListContainers_NotEmpty ==
    /\ IF Running = {}
       THEN /\ Goes("first list", "wait") \/ Goes("list", "select")
            /\ UNCHANGED <<listed, missed>>
       ELSE /\ Goes("first list", "first sync") \/ Goes("list", "sync")
            /\ listed' = Running
            /\ missed' = missed \cap OnTheirWay
    /\ UNCHANGED <<docker, queue, watcher, event, containers, local, applied, heard, agentVars>>

(* A list makes up for the events that were missed, unless an earlier one  *)
(* of the same container is still to be handled.                           *)
ListContainers ==
    /\ Goes("first list", "first sync") \/ Goes("list", "sync")
    /\ listed' = Running
    /\ missed' = missed \cap OnTheirWay
    /\ UNCHANGED <<docker, queue, watcher, event, containers, local, applied, heard, agentVars>>

(* The first list may fail, and the loop goes on with nothing; a later one *)
(* leaves everything as it is.                                             *)
ListFails ==
    /\ "list" \in Faults
    /\ Goes("first list", "wait") \/ Goes("list", "select")
    /\ missed' = IF pc = "first list" THEN Labelled ELSE missed
    /\ UNCHANGED <<docker, queue, watcher, listed, event, containers, local, applied, heard,
                   agentVars>>

SyncContainers ==
    /\ Goes("first sync", "wait") \/ Goes("sync", "cycle")
    /\ containers' = listed \cap Labelled
    /\ listed' = {}
    /\ UNCHANGED <<docker, queue, watcher, missed, event, local, applied, heard,
                   agentVars>>

(* The expected agents have reported, or five seconds are over: seen from  *)
(* here at any moment.                                                     *)
EndWait ==
    /\ Goes("wait", "first cycle")
    /\ UNCHANGED <<docker, queue, watcher, missed, listed, event, containers, local,
                   applied, heard, agentVars>>

(* getDesiredState; what a cycle does with it is in the other modules.     *)
Reconcile ==
    /\ Goes("first cycle", "select") \/ Goes("cycle", "select")
    /\ local' = containers
    /\ applied' = agentData
    /\ heard' = fingerprints
    /\ UNCHANGED <<docker, queue, watcher, missed, listed, event, containers, agentVars>>

(* A start: the container's labels are asked for before anything else.     *)
HandleStart ==
    /\ Goes("select", "inspect")
    /\ queue # <<>> /\ Head(queue).type = "start"
    /\ event' = Head(queue).container
    /\ queue' = Tail(queue)
    /\ UNCHANGED <<docker, watcher, missed, listed, containers, local, applied, heard,
                   agentVars>>

(* They are there as long as the container exists, running or not; without *)
(* services in them the map stays as it is.                                *)
Inspect ==
    /\ pc = "inspect"
    /\ docker[event] # "gone"
    /\ IF event \in Labelled
       THEN Goes("inspect", "cycle") /\ containers' = containers \cup {event}
       ELSE Goes("inspect", "select") /\ UNCHANGED containers
    /\ event' = Nobody
    /\ UNCHANGED <<docker, queue, watcher, missed, listed, local, applied, heard, agentVars>>

(* The container is gone, or Docker does not answer: the event is dropped. *)
InspectFails ==
    /\ Goes("inspect", "select")
    /\ "inspect" \in Faults \/ docker[event] = "gone"
    /\ missed' = IF docker[event] = "gone" THEN missed ELSE missed \cup ({event} \cap Labelled)
    /\ event' = Nobody
    /\ UNCHANGED <<docker, queue, watcher, listed, containers, local, applied, heard,
                   agentVars>>

(* Mutant: only an ordered stop counts.                                    *)
HandleStop_IgnoresDie ==
    /\ queue # <<>> /\ Head(queue).type \in {"stop", "die", "destroy"}
    /\ queue' = Tail(queue)
    /\ IF Head(queue).type = "die"
       THEN Goes("select", "select") /\ UNCHANGED containers
       ELSE /\ containers' = containers \ {Head(queue).container}
            /\ Goes("select", IF Head(queue).type = "destroy" THEN "select" ELSE "cycle")
    /\ UNCHANGED <<docker, watcher, missed, listed, event, local, applied, heard, agentVars>>

(* An event that ends a container; its destruction calls for no cycle.     *)
HandleStop ==
    /\ queue # <<>> /\ Head(queue).type \in {"stop", "die", "destroy"}
    /\ Goes("select", IF Head(queue).type = "destroy" THEN "select" ELSE "cycle")
    /\ containers' = containers \ {Head(queue).container}
    /\ queue' = Tail(queue)
    /\ UNCHANGED <<docker, watcher, missed, listed, event, local, applied, heard, agentVars>>

TakeTrigger ==
    /\ Goes("select", "cycle")
    /\ trigger
    /\ trigger' = FALSE
    /\ UNCHANGED <<docker, queue, watcher, missed, listed, event, containers, local, applied,
                   heard, agentData, fingerprints, sending>>

----------------------------------------------------------------------------
(* The goroutines of the agents' sessions.                                 *)

Report(a, fleet) ==
    /\ a \notin sending
    /\ UNCHANGED pc
    /\ Feed!UpdateAgentData(a, fleet)
    /\ sending' = IF Feed!Changed(a, fleet) THEN sending \cup {a} ELSE sending
    /\ UNCHANGED <<docker, queue, watcher, missed, listed, event, containers, local>>

SendTrigger(a) ==
    /\ a \in sending
    /\ sending' = sending \ {a}
    /\ UNCHANGED pc
    /\ Feed!SendTrigger
    /\ UNCHANGED <<docker, queue, watcher, missed, listed, event, containers, local>>

Disconnect(a) ==
    /\ agentData[a] # NoFleet
    /\ UNCHANGED pc
    /\ Feed!RemoveAgentData(a)
    /\ UNCHANGED <<docker, queue, watcher, missed, listed, event, containers, local, sending>>

----------------------------------------------------------------------------

DockerStep == \E c \in Containers : Start(c) \/ Die(c) \/ Stop(c) \/ Destroy(c)

LoopStep ==
    \/ ListContainers \/ SyncContainers \/ EndWait \/ Reconcile
    \/ Tick \/ HandleStart \/ Inspect \/ HandleStop \/ TakeTrigger

AgentStep ==
    \E a \in Agents : SendTrigger(a) \/ Disconnect(a) \/ \E f \in Fleets : Report(a, f)

Next ==
    \/ DockerStep \/ Subscribe \/ StreamEnds
    \/ LoopStep \/ ListFails \/ InspectFails
    \/ AgentStep

Spec == Init /\ [][Next]_vars

(* The loop and the goroutines go on.  Go picks at random among the cases  *)
(* of a select that are ready, so that the ticker, which is ready again    *)
(* and again, is not passed over for ever; Docker answers now and then.    *)
FairSpec ==
    /\ Spec
    /\ WF_vars(Subscribe)
    /\ WF_vars(LoopStep \/ InspectFails)
    /\ SF_vars(Tick)
    /\ SF_vars(ListContainers)
    /\ \A a \in Agents : WF_vars(SendTrigger(a))

----------------------------------------------------------------------------
(* Properties.                                                             *)

(* Between the starts, stops, lists and lost events in any order, the map  *)
(* is never wrong about a container for which nothing is on its way and    *)
(* nothing was lost: a list that was read before an event and stored after *)
(* it is repaired by that event.                                           *)
InStep ==
    \A c \in Labelled \ (missed \cup OnTheirWay) :
        pc \notin {"first list", "first sync", "sync"} /\ c # event =>
            (c \in containers <=> c \in Running)

(* No change of the map waits for a cycle that never comes: whenever the   *)
(* loop is back at its select the last cycle has seen the map as it is,    *)
(* although the destruction of a container calls for no cycle.             *)
ChangesReconciled ==
    pc = "select" => local \ missed = containers \ missed

(* The map follows the host, and the cycles the map, step by step.         *)
MapInStep == TypeOK /\ InStep /\ ChangesReconciled

(* With the events it is the loop that AgentFeed describes: the agents'    *)
(* wake-up can be studied without Docker.                                  *)
ImplementsFeed == Feed!FeedSpec

(* What is lost comes back: a container that runs for good is published    *)
(* for good, one that stays away is dropped, even when the events have     *)
(* ended and lists fail now and then.                                      *)
DockerFollowed ==
    \A c \in Labelled :
        /\ <>[](docker[c] = "running") => <>[](c \in local)
        /\ <>[](docker[c] # "running") => <>[](c \notin local)
=============================================================================

--------------------------- MODULE AgentSessions ----------------------------
(***************************************************************************)
(* The agents' connections to the main instance: handleWebSocket,          *)
(* readPump, handleReport and handleDisconnect of internal/agent/server.go *)
(* (and dialInboundAgent, which registers the same way), one goroutine per *)
(* session, next to the agent's own loop (agent_core.go, client.go) and to *)
(* the reconciler that is told what the agents report.                     *)
(*                                                                         *)
(* A session is one accepted connection.  The network may cut it at any    *)
(* moment; the two ends notice on their own, the agent usually first, so   *)
(* that an agent may come back while the server still serves its former    *)
(* session.  Sessions are used again once both ends are through with them. *)
(***************************************************************************)
EXTENDS AgentFeed, Naturals, Sequences

CONSTANTS
    Sessions,
    NoSession,
    NoRow,          \* no row in the agents table
    WireCap,        \* reports on their way in one session; the rest is dropped
    Faults          \* {"cut", "reject"}: what may go wrong

ASSUME NoSessionIsNone == NoSession \notin Sessions

VARIABLES
    fleet,          \* what runs on the agent's host
    link,           \* the session the agent works with
    phase,          \* where the server's goroutine of the session is
    owner,          \* the agent that authenticated the session
    done,           \* the session's done channel is closed
    wire,           \* the connection is open
    inbox,          \* reports sent and not read
    held,           \* the report being handled
    connections,    \* the server's map of sessions
    agentRows       \* the agents table

sessionVars == <<phase, owner, done, wire, inbox, held>>
vars == <<fleet, link, sessionVars, connections, agentRows, feedVars>>

(* Authenticated, and not yet past the disconnect's look at the map.       *)
Serving == {"registered", "open", "report", "trigger", "save", "leaving"}
Phases == {"unused", "auth", "wiping", "marking"} \cup Serving

AgentRow == [connected : BOOLEAN, status : {"active", "disconnected"}]

TypeOK ==
    /\ FeedType
    /\ fleet \in [Agents -> Fleets]
    /\ link \in [Agents -> Sessions \cup {NoSession}]
    /\ phase \in [Sessions -> Phases]
    /\ owner \in [Sessions -> Agents]
    /\ done \in [Sessions -> BOOLEAN]
    /\ wire \in [Sessions -> BOOLEAN]
    /\ inbox \in [Sessions -> Seq(Fleets)]
    /\ held \in [Sessions -> Fleets \cup {NoFleet}]
    /\ connections \in [Agents -> Sessions \cup {NoSession}]
    /\ agentRows \in [Agents -> AgentRow \cup {NoRow}]

Init ==
    /\ FeedInit
    /\ fleet \in [Agents -> Fleets]
    /\ link = [a \in Agents |-> NoSession]
    /\ phase = [s \in Sessions |-> "unused"]
    /\ owner \in {[s \in Sessions |-> a] : a \in Agents}
    /\ done = [s \in Sessions |-> FALSE]
    /\ wire = [s \in Sessions |-> FALSE]
    /\ inbox = [s \in Sessions |-> <<>>]
    /\ held = [s \in Sessions |-> NoFleet]
    /\ connections = [a \in Agents |-> NoSession]
    /\ agentRows = [a \in Agents |-> NoRow]

Moves(s, from, to) == phase[s] = from /\ phase' = [phase EXCEPT ![s] = to]

(* A write of the agents table.  (When it fails the error is logged and    *)
(* forgotten; no decision of the server or the reconciler reads the table, *)
(* so that a failure would show nowhere but in the row.)                   *)
SaveAgentRow(a, row) == agentRows' = [agentRows EXCEPT ![a] = row]

----------------------------------------------------------------------------
(* The agent.                                                              *)

FleetChanges(a) ==
    /\ \E f \in Fleets \ {fleet[a]} : fleet' = [fleet EXCEPT ![a] = f]
    /\ UNCHANGED <<link, sessionVars, connections, agentRows, feedVars>>

(* connect: a new connection, with the auth message on it.                 *)
Dial(a) ==
    /\ link[a] = NoSession
    /\ \E s \in Sessions :
          /\ Moves(s, "unused", "auth")
          /\ \A b \in Agents : link[b] # s
          /\ link' = [link EXCEPT ![a] = s]
          /\ owner' = [owner EXCEPT ![s] = a]
          /\ done' = [done EXCEPT ![s] = FALSE]
          /\ wire' = [wire EXCEPT ![s] = TRUE]
          /\ inbox' = [inbox EXCEPT ![s] = <<>>]
          /\ held' = [held EXCEPT ![s] = NoFleet]
    /\ UNCHANGED <<fleet, connections, agentRows, feedVars>>

(* sendReport, once the ack is there: the first report, the heartbeat's   *)
(* and the watcher's.                                                      *)
Report(a) ==
    LET s == link[a]
    IN  /\ s # NoSession
        /\ phase[s] \notin {"unused", "auth", "registered"}
        /\ wire[s]
        /\ Len(inbox[s]) < WireCap
        /\ inbox' = [inbox EXCEPT ![s] = Append(@, fleet[a])]
        /\ UNCHANGED <<fleet, link, phase, owner, done, wire, held,
                       connections, agentRows, feedVars>>

(* The agent's read fails, or the ack does not come in time: it closes the *)
(* connection and starts over.                                             *)
Hangup(a) ==
    /\ link[a] # NoSession
    /\ ~wire[link[a]] \/ "cut" \in Faults
    /\ wire' = [wire EXCEPT ![link[a]] = FALSE]
    /\ link' = [link EXCEPT ![a] = NoSession]
    /\ UNCHANGED <<fleet, phase, owner, done, inbox, held, connections, agentRows,
                   feedVars>>

Cut(s) ==
    /\ "cut" \in Faults
    /\ wire[s]
    /\ wire' = [wire EXCEPT ![s] = FALSE]
    /\ UNCHANGED <<fleet, link, phase, owner, done, inbox, held, connections, agentRows,
                   feedVars>>

----------------------------------------------------------------------------
(* The server, session by session.                                         *)

(* A bad token, no message in 30 seconds, a broken connection.             *)
Reject(s) ==
    /\ Moves(s, "auth", "unused")
    /\ ~wire[s] \/ "reject" \in Faults
    /\ wire' = [wire EXCEPT ![s] = FALSE]
    /\ UNCHANGED <<fleet, link, owner, done, inbox, held, connections, agentRows, feedVars>>

(* The critical section of handleWebSocket: the former session is told to  *)
(* stop and its connection closed, the new one takes its place.            *)
Register(s) ==
    LET old == connections[owner[s]]
    IN  /\ Moves(s, "auth", "registered")
        /\ IF old = NoSession
           THEN UNCHANGED <<done, wire>>
           ELSE /\ done' = [done EXCEPT ![old] = TRUE]
                /\ wire' = [wire EXCEPT ![old] = FALSE]
        /\ connections' = [connections EXCEPT ![owner[s]] = s]
        /\ UNCHANGED <<fleet, link, owner, inbox, held, agentRows, feedVars>>

(* SaveAgent, the ack, the start of the pumps.                             *)
StartPumps(s) ==
    /\ Moves(s, "registered", "open")
    /\ SaveAgentRow(owner[s], [connected |-> TRUE, status |-> "active"])
    /\ UNCHANGED <<fleet, link, owner, done, wire, inbox, held, connections, feedVars>>

(* What the peer sent before the cut can still be read; nothing can once   *)
(* the server has closed the connection itself.                            *)
ReadReport(s) ==
    /\ Moves(s, "open", "report")
    /\ ~done[s]
    /\ inbox[s] # <<>>
    /\ held' = [held EXCEPT ![s] = Head(inbox[s])]
    /\ inbox' = [inbox EXCEPT ![s] = Tail(@)]
    /\ UNCHANGED <<fleet, link, owner, done, wire, connections, agentRows, feedVars>>

(* handleReport, in three steps.                                           *)
StoreReport(s) ==
    /\ Moves(s, "report", IF Changed(owner[s], held[s]) THEN "trigger" ELSE "save")
    /\ UpdateAgentData(owner[s], held[s])
    /\ held' = [held EXCEPT ![s] = NoFleet]
    /\ UNCHANGED <<fleet, link, owner, done, wire, inbox, connections, agentRows>>

TriggerReconcile(s) ==
    /\ Moves(s, "trigger", "save")
    /\ SendTrigger
    /\ UNCHANGED <<fleet, link, owner, done, wire, inbox, held, connections, agentRows>>

SaveReport(s) ==
    /\ Moves(s, "save", "open")
    /\ SaveAgentRow(owner[s], [connected |-> TRUE, status |-> "active"])
    /\ UNCHANGED <<fleet, link, owner, done, wire, inbox, held, connections, feedVars>>

(* readPump returns: it was told to, or the read fails.                    *)
ReadEnds(s) ==
    /\ Moves(s, "open", "leaving")
    /\ done[s] \/ ~wire[s]
    /\ inbox' = [inbox EXCEPT ![s] = <<>>]
    /\ UNCHANGED <<fleet, link, owner, done, wire, held, connections, agentRows, feedVars>>

(* Mutant: a session that has been replaced leaves everything as it is.    *)
LeaveMap_OnlyOwnData(s) ==
    /\ phase[s] = "leaving"
    /\ IF connections[owner[s]] = s
       THEN /\ phase' = [phase EXCEPT ![s] = "wiping"]
            /\ connections' = [connections EXCEPT ![owner[s]] = NoSession]
       ELSE /\ phase' = [phase EXCEPT ![s] = "unused"]
            /\ UNCHANGED connections
    /\ wire' = [wire EXCEPT ![s] = FALSE]
    /\ UNCHANGED <<fleet, link, owner, done, inbox, held, agentRows, feedVars>>

(* Mutant: the entry goes, whoever it belongs to.                          *)
LeaveMap_WhoeverIsThere(s) ==
    /\ Moves(s, "leaving", "wiping")
    /\ connections' = [connections EXCEPT ![owner[s]] = NoSession]
    /\ wire' = [wire EXCEPT ![s] = FALSE]
    /\ UNCHANGED <<fleet, link, owner, done, inbox, held, agentRows, feedVars>>

(* handleDisconnect, in three steps, of which only the first asks whether  *)
(* the session is still the agent's.                                       *)
LeaveMap(s) ==
    /\ Moves(s, "leaving", "wiping")
    /\ connections' =
          IF connections[owner[s]] = s
          THEN [connections EXCEPT ![owner[s]] = NoSession]
          ELSE connections
    /\ wire' = [wire EXCEPT ![s] = FALSE]
    /\ UNCHANGED <<fleet, link, owner, done, inbox, held, agentRows, feedVars>>

WipeData(s) ==
    /\ Moves(s, "wiping", "marking")
    /\ RemoveAgentData(owner[s])
    /\ UNCHANGED <<fleet, link, owner, done, wire, inbox, held, connections, agentRows>>

MarkDisconnected(s) ==
    /\ Moves(s, "marking", "unused")
    /\ IF agentRows[owner[s]] = NoRow
       THEN UNCHANGED agentRows
       ELSE SaveAgentRow(owner[s], [connected |-> FALSE, status |-> "disconnected"])
    /\ UNCHANGED <<fleet, link, owner, done, wire, inbox, held, connections, feedVars>>

----------------------------------------------------------------------------

Serve(s) ==
    \/ Register(s) \/ StartPumps(s)
    \/ ReadReport(s) \/ StoreReport(s) \/ TriggerReconcile(s) \/ SaveReport(s)
    \/ ReadEnds(s) \/ LeaveMap(s) \/ WipeData(s) \/ MarkDisconnected(s)

Loop == LoopStep /\ UNCHANGED <<fleet, link, sessionVars, connections, agentRows>>

Next ==
    \/ \E a \in Agents : FleetChanges(a) \/ Dial(a) \/ Report(a) \/ Hangup(a)
    \/ \E s \in Sessions : Cut(s) \/ Reject(s) \/ Serve(s)
    \/ Loop

Spec == Init /\ [][Next]_vars

(* Every goroutine of the server goes on, the loop's ticker ticks, and an  *)
(* agent's heartbeat reports again and again until it sees that the        *)
(* connection is gone.  It need not come back.                             *)
Fairness ==
    /\ \A s \in Sessions :
          /\ WF_vars(Reject(s))
          /\ WF_vars(Register(s)) /\ WF_vars(StartPumps(s))
          /\ WF_vars(ReadReport(s) \/ ReadEnds(s))
          /\ WF_vars(StoreReport(s) \/ TriggerReconcile(s) \/ SaveReport(s))
          /\ WF_vars(LeaveMap(s) \/ WipeData(s) \/ MarkDisconnected(s))
    /\ \A a \in Agents :
          /\ WF_vars(Report(a))
          /\ WF_vars(link[a] # NoSession /\ ~wire[link[a]] /\ Hangup(a))
    /\ WF_vars(Loop)

FairSpec == Spec /\ Fairness

----------------------------------------------------------------------------
(* Properties.                                                             *)

(* The server's map holds the latest session of an agent, alive; every     *)
(* other session of the same agent that is still served has been told to   *)
(* stop, so none is told twice (which would panic) and none goes on for    *)
(* ever.                                                                   *)
OneLiveSession ==
    /\ \A a \in Agents :
          connections[a] # NoSession =>
              /\ owner[connections[a]] = a
              /\ phase[connections[a]] \in Serving
              /\ ~done[connections[a]]
    /\ \A s \in Sessions :
          phase[s] \in Serving /\ connections[owner[s]] # s => done[s]

(* Every variable has its type, and what the reconciler holds of an agent  *)
(* was reported in a session that is still served or about to wipe it: the *)
(* map keeps no containers of an agent that is gone, whichever of its      *)
(* sessions reported last and in whatever order they end.                  *)
NoGhosts ==
    /\ TypeOK
    /\ \A a \in Agents :
          agentData[a] # NoFleet =>
              \E s \in Sessions : owner[s] = a /\ phase[s] \in Serving \cup {"wiping"}

(* The wake-up channel holds one token and is filled without blocking, yet *)
(* no news is lost: as long as the loop has not looked at an agent's       *)
(* latest fingerprint, it is about to, or a token is there or under way.   *)
NoLostTrigger ==
    \A a \in Agents :
        fingerprints[a] # heard[a] =>
            \/ trigger
            \/ loop # "idle"
            \/ \E s \in Sessions : phase[s] = "trigger" /\ owner[s] = a

(* What runs on an agent's host reaches the reconciler in the end, once    *)
(* the connection holds, in spite of the sessions it had before.           *)
AgentIsHeard ==
    \A a \in Agents : \A f \in Fleets : \A s \in Sessions :
        <>[](fleet[a] = f /\ link[a] = s /\ wire[s]) => <>[](applied[a] = f)

(* An agent that stays away is forgotten in the end.                       *)
AgentIsForgotten ==
    \A a \in Agents :
        <>[](\A s \in Sessions : owner[s] = a => ~wire[s]) =>
            <>[](applied[a] = NoFleet /\ agentData[a] = NoFleet)
=============================================================================

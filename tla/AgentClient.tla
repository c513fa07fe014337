---------------------------- MODULE AgentClient -----------------------------
(***************************************************************************)
(* The agent's side of its connection to the main instance: agentCore      *)
(* (internal/agent/agent_core.go), the loops that drive it in outbound     *)
(* mode (client.go, runAgent of cmd/labelgate/main.go) and in inbound mode *)
(* (inbound_server.go), and the main instance as far as it answers or, for *)
(* an inbound agent, calls (inbound_client.go).                            *)
(*                                                                         *)
(* One connection at a time is worked with, by four goroutines: the loop,  *)
(* readPump, writePump and watchContainers.  They share the fields conn,   *)
(* done and send of the struct, and read them afresh on every turn: a      *)
(* writePump that is late to see that its connection is gone goes on with  *)
(* the next one.  The reports it did not send stay in the channel.         *)
(*                                                                         *)
(* A watcher's wake-up ends in sendReport like the heartbeat's, and comes  *)
(* only when the number of containers changes, so nothing may rest on it;  *)
(* it is not told apart from the heartbeat.  Delays are not modelled.      *)
(***************************************************************************)
EXTENDS Naturals, Sequences

CONSTANTS
    Conns,          \* connections, used again when nothing refers to them
    NoConn,
    Fleets,         \* what may run on the host
    NoFleet,
    Modes,          \* of {"outbound", "inbound"}: who calls whom
    Attempts,       \* cfg.Retry.Attempts; 0 stands for no limit
    SendCap,        \* reports the send channel holds
    Faults          \* {"mute"}: a write may fail while the connection lives

ASSUME AgentAssumption ==
    /\ NoConn \notin Conns
    /\ Attempts \in Nat
    /\ SendCap \in Nat \ {0}

VARIABLES
    mode,
    up,             \* the main instance can be reached and connections hold
    cancelled,      \* the process was told to stop
    fleet,          \* what runs on the host
    known,          \* the last report the main instance has read
    net,            \* how far each connection is, seen from outside
    calls,          \* connChan: a connection the loop has not looked at
    loop,           \* where the main goroutine is
    retries,        \* retryCount
    trying,         \* the connection being authenticated
    conn,           \* a.conn
    connected,      \* a.connected
    done,           \* a.done, named after the connection it was made for
    closed,         \* the done channels that are closed
    send,           \* a.send
    reader,         \* the readPump started for a connection is running
    writer          \* where the writePump started for a connection is

outside == <<mode, up, cancelled, fleet>>
dialing == <<calls, retries, trying>>
pumps == <<reader, writer>>
fields == <<conn, connected, done, closed>>
vars == <<outside, known, net, dialing, loop, fields, send, pumps>>

Channels == Conns \cup {NoConn}
Places == {"start", "idle", "auth", "set", "first", "run", "stopped"}

(* At "select" with the done channel it looks at; at "write" with the      *)
(* connection it writes to and the report.                                 *)
Writer == [at : {"none", "select", "write"}, ref : Channels,
           msg : Fleets \cup {NoFleet}]
NoWriter == [at |-> "none", ref |-> NoConn, msg |-> NoFleet]
Selecting(ch) == [at |-> "select", ref |-> ch, msg |-> NoFleet]

TypeOK ==
    /\ mode \in Modes /\ up \in BOOLEAN /\ cancelled \in BOOLEAN
    /\ fleet \in Fleets /\ known \in Fleets \cup {NoFleet}
    /\ net \in [Conns -> {"gone", "called", "serving"}]
    /\ calls \in Channels
    /\ loop \in Places
    /\ retries \in 0 .. Attempts
    /\ trying \in Channels
    /\ conn \in Channels /\ connected \in BOOLEAN
    /\ done \in Channels /\ closed \in SUBSET Conns
    /\ send \in Seq(Fleets) /\ Len(send) <= SendCap
    /\ reader \in [Conns -> BOOLEAN]
    /\ writer \in [Conns -> Writer]

Init ==
    /\ mode \in Modes /\ up = TRUE /\ cancelled = FALSE
    /\ fleet \in Fleets /\ known = NoFleet
    /\ net = [c \in Conns |-> "gone"]
    /\ calls = NoConn
    /\ loop = IF mode = "outbound" THEN "start" ELSE "idle"
    /\ retries = 0
    /\ trying = NoConn
    /\ conn = NoConn /\ connected = FALSE
    /\ done = NoConn /\ closed = {}
    /\ send = <<>>
    /\ reader = [c \in Conns |-> FALSE]
    /\ writer = [c \in Conns |-> NoWriter]

Unused(c) ==
    /\ net[c] = "gone"
    /\ c \notin {conn, trying, calls, done}
    /\ ~reader[c]
    /\ \A d \in Conns : writer[d].at # "none" => c \notin {d, writer[d].ref}

----------------------------------------------------------------------------
(* The surroundings.                                                       *)

FleetChanges ==
    /\ fleet' \in Fleets
    /\ UNCHANGED <<mode, up, cancelled, known, net, dialing, loop, fields, send, pumps>>

Weather ==
    /\ up' = ~up
    /\ UNCHANGED <<mode, cancelled, fleet, known, net, dialing, loop, fields, send, pumps>>

Cancel ==
    /\ cancelled' = TRUE
    /\ UNCHANGED <<mode, up, fleet, known, net, dialing, loop, fields, send, pumps>>

Drops(c) == net' = [net EXCEPT ![c] = "gone"]

Cut(c) ==
    /\ ~up /\ net[c] # "gone"
    /\ Drops(c)
    /\ UNCHANGED <<outside, known, dialing, loop, fields, send, pumps>>

(* The main instance reads the auth message and answers with an ack.       *)
Accept(c) ==
    /\ trying = c /\ net[c] = "called"
    /\ net' = [net EXCEPT ![c] = "serving"]
    /\ UNCHANGED <<outside, known, dialing, loop, fields, send, pumps>>

(* connectToInboundAgent: one connection after the other; the handler of   *)
(* the agent's /ws hands it over, unless one is waiting there already.     *)
MainCalls ==
    /\ mode = "inbound" /\ up
    /\ \A c \in Conns : net[c] = "gone"
    /\ calls = NoConn
    /\ \E c \in Conns :
          /\ Unused(c)
          /\ net' = [net EXCEPT ![c] = "called"]
          /\ calls' = c
    /\ UNCHANGED <<outside, known, retries, trying, loop, fields, send, pumps>>

(* dialInboundAgent waits 30 seconds for the auth message, longer than the *)
(* agent takes, unless the agent still works with a former connection.     *)
MainHangsUp ==
    /\ calls # NoConn /\ net[calls] = "called"
    /\ loop \in {"first", "run"}
    /\ Drops(calls)
    /\ UNCHANGED <<outside, known, dialing, loop, fields, send, pumps>>

----------------------------------------------------------------------------
(* The main goroutine.                                                     *)

(* Client.Run once Docker answers; until then runAgent calls it again.     *)
Starts ==
    /\ loop = "start" /\ ~cancelled
    /\ loop' = "idle" /\ retries' = 0
    /\ UNCHANGED <<outside, known, net, calls, trying, fields, send, pumps>>

(* Mutant: the process ends with the last attempt.                         *)
ConnectFails_Ends ==
    LET last == Attempts > 0 /\ retries + 1 >= Attempts
    IN  /\ loop' = IF last THEN "stopped" ELSE "idle"
        /\ retries' = IF last \/ Attempts = 0 THEN 0 ELSE retries + 1

(* connect has failed: after so many attempts Client.Run gives up, and     *)
(* runAgent starts it again.                                               *)
ConnectFails ==
    LET last == Attempts > 0 /\ retries + 1 >= Attempts
    IN  /\ loop' = IF last THEN "start" ELSE "idle"
        /\ retries' = IF last \/ Attempts = 0 THEN 0 ELSE retries + 1

Dials ==
    /\ mode = "outbound" /\ loop = "idle" /\ ~cancelled
    /\ \E c \in Conns :
          /\ Unused(c)
          /\ net' = [net EXCEPT ![c] = "called"]
          /\ trying' = c
    /\ loop' = "auth"
    /\ UNCHANGED <<outside, known, calls, retries, fields, send, pumps>>

DialFails ==
    /\ mode = "outbound" /\ loop = "idle" /\ ~cancelled
    /\ ~up
    /\ ConnectFails
    /\ UNCHANGED <<outside, known, net, calls, trying, fields, send, pumps>>

TakesCall ==
    /\ mode = "inbound" /\ loop = "idle"
    /\ calls # NoConn
    /\ trying' = calls /\ calls' = NoConn
    /\ loop' = "auth"
    /\ UNCHANGED <<outside, known, net, retries, fields, send, pumps>>

(* authenticate returns an error: refused, broken, no ack in 10 seconds.   *)
AuthFails ==
    /\ loop = "auth"
    /\ ~up \/ net[trying] = "gone"
    /\ Drops(trying)
    /\ trying' = NoConn
    /\ IF mode = "outbound" THEN ConnectFails ELSE loop' = "idle" /\ UNCHANGED retries
    /\ UNCHANGED <<outside, known, calls, fields, send, pumps>>

(* The ack is there (it may be the last thing that arrives): setConn.      *)
AuthSucceeds ==
    /\ loop = "auth"
    /\ net[trying] = "serving"
    /\ conn' = trying /\ connected' = TRUE
    /\ trying' = NoConn /\ retries' = 0
    /\ loop' = "set"
    /\ UNCHANGED <<outside, known, net, calls, done, closed, send, pumps>>

(* Mutant: the done channel of the former connection is kept.              *)
StartLoop_KeepsDone ==
    /\ loop = "set"
    /\ done' = (IF done = NoConn THEN conn ELSE done)
    /\ reader' = [reader EXCEPT ![conn] = TRUE]
    /\ writer' = [writer EXCEPT ![conn] = Selecting(done')]
    /\ loop' = "first"
    /\ UNCHANGED <<outside, known, net, dialing, conn, connected, closed, send>>

(* The beginning of runLoop: a new done channel, new pumps.                *)
StartLoop ==
    /\ loop = "set"
    /\ done' = conn /\ closed' = closed \ {conn}
    /\ reader' = [reader EXCEPT ![conn] = TRUE]
    /\ writer' = [writer EXCEPT ![conn] = Selecting(conn)]
    /\ loop' = "first"
    /\ UNCHANGED <<outside, known, net, dialing, conn, connected, send>>

(* sendReport: dropped when the channel is full.                           *)
SendReport == send' = IF Len(send) < SendCap THEN Append(send, fleet) ELSE send

FirstReport ==
    /\ loop = "first" /\ loop' = "run"
    /\ SendReport
    /\ UNCHANGED <<outside, known, net, dialing, fields, pumps>>

(* Mutant: the ticker is not armed, so that the first report is the only   *)
(* one of a connection.                                                    *)
Heartbeat_NotArmed ==
    /\ loop = "run" /\ send = <<>> /\ known = NoFleet
    /\ SendReport
    /\ UNCHANGED <<outside, known, net, dialing, loop, fields, pumps>>

Heartbeat ==
    /\ loop = "run"
    /\ SendReport
    /\ UNCHANGED <<outside, known, net, dialing, loop, fields, pumps>>

(* disconnect, of which only the first call does anything.                 *)
Disconnect ==
    IF connected
    THEN /\ connected' = FALSE
         /\ closed' = closed \cup {done}
         /\ Drops(conn)
    ELSE UNCHANGED <<connected, closed, net>>

(* Mutant: told to stop, the loop just returns.                            *)
LoopEnds_JustReturns ==
    /\ loop = "run"
    /\ cancelled \/ done \in closed
    /\ loop' = "idle"
    /\ UNCHANGED <<outside, known, net, dialing, fields, send, pumps>>

LoopEnds ==
    /\ loop = "run"
    /\ IF cancelled
       THEN Disconnect
       ELSE /\ done \in closed
            /\ UNCHANGED <<connected, closed, net>>
    /\ loop' = "idle"
    /\ UNCHANGED <<outside, known, dialing, conn, done, send, pumps>>

Stops ==
    /\ cancelled /\ loop \in {"start", "idle"}
    /\ loop' = "stopped"
    /\ UNCHANGED <<outside, known, net, dialing, fields, send, pumps>>

----------------------------------------------------------------------------
(* The pumps.                                                              *)

(* Mutant: readPump returns without its deferred disconnect.               *)
ReadFails_JustReturns(c) ==
    /\ reader[c] /\ net[c] = "gone"
    /\ reader' = [reader EXCEPT ![c] = FALSE]
    /\ UNCHANGED <<outside, known, net, dialing, loop, fields, send, writer>>

ReadFails(c) ==
    /\ reader[c] /\ net[c] = "gone"
    /\ Disconnect
    /\ reader' = [reader EXCEPT ![c] = FALSE]
    /\ UNCHANGED <<outside, known, dialing, loop, conn, done, send, writer>>

(* A select with several ready cases takes any of them: a report may go to *)
(* a writer whose connection is gone, or to the new one by the old writer. *)
TakeReport(c) ==
    /\ writer[c].at = "select" /\ send # <<>>
    /\ writer' = [writer EXCEPT ![c] = [at |-> "write", ref |-> conn, msg |-> Head(send)]]
    /\ send' = Tail(send)
    /\ UNCHANGED <<outside, known, net, dialing, loop, fields, reader>>

(* What is written to a connection that is gone is lost.                   *)
Write(c) ==
    /\ writer[c].at = "write"
    /\ known' = IF net[writer[c].ref] = "serving" THEN writer[c].msg ELSE known
    /\ writer' = [writer EXCEPT ![c] = Selecting(done)]
    /\ UNCHANGED <<outside, net, dialing, loop, fields, send, reader>>

(* A report or a ping that fails ends writePump, and only writePump.       *)
WriteFails(c) ==
    /\ \/ writer[c].at = "write" /\ net[writer[c].ref] = "gone"
       \/ writer[c].at = "select" /\ net[conn] = "gone"
       \/ writer[c].at # "none" /\ "mute" \in Faults
    /\ writer' = [writer EXCEPT ![c] = NoWriter]
    /\ UNCHANGED <<outside, known, net, dialing, loop, fields, send, reader>>

WriterStops(c) ==
    /\ writer[c].at = "select" /\ writer[c].ref \in closed
    /\ writer' = [writer EXCEPT ![c] = NoWriter]
    /\ UNCHANGED <<outside, known, net, dialing, loop, fields, send, reader>>

----------------------------------------------------------------------------

LoopStep ==
    \/ Starts \/ Dials \/ DialFails \/ TakesCall \/ AuthFails \/ AuthSucceeds
    \/ StartLoop \/ FirstReport \/ LoopEnds \/ Stops

Next ==
    \/ FleetChanges \/ Weather \/ Cancel \/ MainCalls \/ MainHangsUp
    \/ \E c \in Conns : Cut(c) \/ Accept(c)
    \/ LoopStep \/ Heartbeat
    \/ \E c \in Conns :
          ReadFails(c) \/ TakeReport(c) \/ Write(c) \/ WriteFails(c) \/ WriterStops(c)

Spec == Init /\ [][Next]_vars

(* Goroutines go on, the ticker ticks, a read of a dead connection fails   *)
(* in the end, and the main instance answers and, for an inbound agent,    *)
(* calls again.  A select that finds a goroutine told to stop time and     *)
(* again takes that case in the end (SF).  Nothing makes the surroundings change. *)
Fairness ==
    /\ WF_vars(LoopStep) /\ SF_vars(Stops) /\ WF_vars(Heartbeat)
    /\ WF_vars(MainCalls)
    /\ \A c \in Conns :
          /\ WF_vars(Accept(c))
          /\ WF_vars(ReadFails(c))
          /\ WF_vars(TakeReport(c)) /\ WF_vars(Write(c))
          /\ SF_vars(WriterStops(c))
          /\ WF_vars(writer[c].at = "select" /\ net[conn] = "gone" /\ WriteFails(c))

FairSpec == Spec /\ Fairness

----------------------------------------------------------------------------
(* Properties.                                                             *)

(* Whoever may still call disconnect finds the flag down or the channel    *)
(* open: no done channel is closed twice, which would end the process.     *)
(* (Once told to stop, an inbound agent may take one more call before it   *)
(* sees that it was, and the readPump of the former connection then closes *)
(* the former channel again: the process that is to stop may panic.)       *)
NoDoubleClose ==
    ~cancelled /\ connected /\ (loop = "run" \/ \E c \in Conns : reader[c]) =>
        done # NoConn /\ done \notin closed

(* As long as the loop has not been told that its connection is lost,      *)
(* readPump is there to tell it, and it reads the very connection in use.  *)
LoopIsAttended ==
    ~cancelled /\ loop \in {"first", "run"} /\ done \notin closed =>
        connected /\ done = conn /\ {c \in Conns : reader[c]} = {conn}

(* The loop is told, and the fields the goroutines of two connections      *)
(* share, the channel of reports among them, keep their types and bounds.  *)
AttendedLoop == TypeOK /\ LoopIsAttended

(* However often a connection was lost or refused, and however many        *)
(* attempts have failed, the agent is connected for good once the main     *)
(* instance can be reached for good.                                       *)
ComesBack ==
    <>[](up /\ ~cancelled) =>
        <>[](loop = "run" /\ connected /\ net[conn] = "serving")

(* The writePump has ended although the connection is alive: the loop goes *)
(* on, and its reports fill the channel.                                   *)
Muted == loop = "run" /\ net[conn] = "serving" /\ writer[conn].at = "none"

(* What runs on the host is what the main instance has read last, once     *)
(* nothing changes any more: the reports that were left in the channel by  *)
(* former connections, older than the fleet, do not have the last word.    *)
FleetIsReported ==
    \A f \in Fleets :
        <>[](up /\ ~cancelled /\ fleet = f /\ ~Muted) => <>[](known = f)

(* Told to stop, the agent leaves no goroutine and no connection behind.   *)
StopsCleanly ==
    cancelled ~>
        /\ loop = "stopped" /\ ~connected
        /\ \A c \in Conns : ~reader[c] /\ writer[c] = NoWriter
=============================================================================

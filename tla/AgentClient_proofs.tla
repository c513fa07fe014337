------------------------- MODULE AgentClient_proofs -------------------------
(***************************************************************************)
(* Theorems about AgentClient, for any number of connections, any limit of *)
(* attempts, any capacity of the send channel, both modes and all faults.  *)
(***************************************************************************)
EXTENDS AgentClient, TLAPS

(* Who has what on the way to a loop that runs.                            *)
PlaceInv ==
    /\ loop = "auth" => trying \in Conns
    /\ loop = "set" => conn \in Conns
    /\ loop \in {"first", "run"} => done \in Conns
    /\ \A c \in Conns : reader[c] => done \in Conns

(* The connection in use: its done channel open, the flag up, its readPump *)
(* the only one.                                                           *)
Attended ==
    /\ connected
    /\ done = conn
    /\ done \notin closed
    /\ \A c \in Conns : reader[c] <=> c = conn

(* Nobody is left who could call disconnect and find the flag up.          *)
Alone ==
    /\ ~connected
    /\ \A c \in Conns : ~reader[c]

(* Until the process is told to stop, a loop that runs is attended, or has *)
(* been told that its connection is lost; one that does not run yet has    *)
(* nothing left of a former connection.                                    *)
LoopInv ==
    ~cancelled =>
        /\ loop \in {"start", "idle", "auth"} => Alone
        /\ loop = "set" => connected /\ \A c \in Conns : ~reader[c]
        /\ loop \in {"first", "run"} => Attended \/ (Alone /\ done \in closed)
        /\ loop # "stopped"

ClientInv == TypeOK /\ PlaceInv /\ LoopInv

----------------------------------------------------------------------------

LEMMA InitClient == Init => ClientInv
<1> SUFFICES ASSUME Init PROVE ClientInv
  OBVIOUS
<1>1. TypeOK
  <2>1. retries \in 0 .. Attempts
    BY AgentAssumption DEF Init
  <2>2. send \in Seq(Fleets) /\ Len(send) <= SendCap
    BY AgentAssumption DEF Init
  <2>3. writer \in [Conns -> Writer]
    BY DEF Init, Writer, NoWriter, Channels
  <2>4. /\ reader \in [Conns -> BOOLEAN]
        /\ net \in [Conns -> {"gone", "called", "serving"}]
        /\ loop \in Places
    BY DEF Init, Places
  <2> QED
    BY <2>1, <2>2, <2>3, <2>4 DEF Init, TypeOK, Channels
<1> QED
  BY <1>1 DEF Init, ClientInv, PlaceInv, LoopInv, Alone

(* A report is dropped when the channel is full, and is the last one in it *)
(* otherwise.                                                              *)
LEMMA SendReportType ==
    ASSUME TypeOK, SendReport
    PROVE  send' \in Seq(Fleets) /\ Len(send') <= SendCap
<1>1. /\ send \in Seq(Fleets) /\ Len(send) \in Nat /\ Len(send) <= SendCap
      /\ fleet \in Fleets /\ SendCap \in Nat
  BY AgentAssumption DEF TypeOK
<1>2. CASE Len(send) < SendCap
  <2>1. send' = Append(send, fleet)
    BY <1>2 DEF SendReport
  <2>2. send' \in Seq(Fleets) /\ Len(send') = Len(send) + 1
    BY <1>1, <2>1
  <2> QED
    BY <1>1, <1>2, <2>2
<1>3. CASE ~(Len(send) < SendCap)
  BY <1>1, <1>3 DEF SendReport
<1> QED
  BY <1>2, <1>3

LEMMA SelectingType ==
    ASSUME NEW ch \in Channels
    PROVE  Selecting(ch) \in Writer /\ NoWriter \in Writer
BY DEF Selecting, NoWriter, Writer, Channels

(* An attempt that fails counts, up to the limit.                          *)
LEMMA ConnectFailsType ==
    ASSUME TypeOK, ConnectFails
    PROVE  loop' \in {"start", "idle"} /\ retries' \in 0 .. Attempts
BY AgentAssumption DEF TypeOK, ConnectFails

(* disconnect closes a channel that was made.                              *)
LEMMA DisconnectType ==
    ASSUME TypeOK, done \in Conns, Disconnect
    PROVE  /\ net' \in [Conns -> {"gone", "called", "serving"}]
           /\ connected' = FALSE
           /\ closed' \in SUBSET Conns
           /\ connected => done \in closed'
           /\ ~connected => closed' = closed
BY DEF TypeOK, Disconnect, Drops

LEMMA SurroundingsClient ==
    ASSUME ClientInv,
           \/ FleetChanges \/ Weather \/ Cancel \/ MainCalls \/ MainHangsUp
           \/ \E c \in Conns : Cut(c) \/ Accept(c)
    PROVE  ClientInv'
<1>1. TypeOK /\ PlaceInv /\ LoopInv
  BY DEF ClientInv
<1>2. /\ UNCHANGED <<mode, known, retries, trying, loop, fields, send, pumps>>
      /\ cancelled' \in BOOLEAN /\ (cancelled => cancelled')
  BY <1>1
  DEF TypeOK, outside, dialing, FleetChanges, Weather, Cancel, MainCalls, MainHangsUp,
      Cut, Accept
<1>3. /\ up' \in BOOLEAN /\ fleet' \in Fleets
      /\ net' \in [Conns -> {"gone", "called", "serving"}]
      /\ calls' \in Channels
  BY <1>1
  DEF TypeOK, Channels, outside, dialing, FleetChanges, Weather, Cancel, MainCalls,
      MainHangsUp, Cut, Accept, Drops
<1>4. TypeOK'
  BY <1>1, <1>2, <1>3 DEF TypeOK, fields, pumps
<1>5. PlaceInv' /\ LoopInv'
  BY <1>1, <1>2 DEF PlaceInv, LoopInv, Attended, Alone, fields, pumps
<1> QED
  BY <1>4, <1>5 DEF ClientInv

LEMMA LoopClient ==
    ASSUME ClientInv, LoopStep \/ Heartbeat
    PROVE  ClientInv'
<1> USE DEF outside, dialing, pumps, fields
<1>1. TypeOK /\ PlaceInv /\ LoopInv
  BY DEF ClientInv
<1>2. CASE Starts \/ Stops
  <2>1. TypeOK'
    BY <1>1, <1>2, AgentAssumption DEF TypeOK, Starts, Stops, Places
  <2>2. PlaceInv' /\ LoopInv'
    BY <1>1, <1>2 DEF Starts, Stops, PlaceInv, LoopInv, Attended, Alone
  <2> QED  BY <2>1, <2>2 DEF ClientInv
<1>3. CASE Dials \/ TakesCall
  <2>1. /\ loop = "idle" /\ loop' = "auth" /\ trying' \in Conns /\ calls' \in Channels
        /\ net' \in [Conns -> {"gone", "called", "serving"}]
        /\ UNCHANGED <<outside, known, retries, fields, send, pumps>>
    BY <1>1, <1>3 DEF TypeOK, Channels, Dials, TakesCall
  <2>2. TypeOK'
    BY <1>1, <2>1 DEF TypeOK, Channels, Places
  <2>3. PlaceInv' /\ LoopInv'
    BY <1>1, <2>1 DEF PlaceInv, LoopInv, Attended, Alone
  <2> QED  BY <2>2, <2>3 DEF ClientInv
<1>4. CASE DialFails \/ AuthFails
  <2>1. /\ loop \in {"idle", "auth"} /\ loop' \in {"start", "idle"}
        /\ retries' \in 0 .. Attempts
        /\ UNCHANGED <<outside, known, calls, fields, send, pumps>>
    BY <1>1, <1>4, ConnectFailsType DEF DialFails, AuthFails, TypeOK
  <2>2. /\ net' \in [Conns -> {"gone", "called", "serving"}]
        /\ trying' \in Channels
    BY <1>1, <1>4 DEF TypeOK, Channels, DialFails, AuthFails, Drops
  <2>3. TypeOK'
    BY <1>1, <2>1, <2>2 DEF TypeOK, Places
  <2>4. PlaceInv' /\ LoopInv'
    BY <1>1, <2>1 DEF PlaceInv, LoopInv, Attended, Alone
  <2> QED  BY <2>3, <2>4 DEF ClientInv
<1>5. CASE AuthSucceeds
  <2>1. TypeOK'
    BY <1>1, <1>5, AgentAssumption DEF TypeOK, AuthSucceeds, Channels, Places
  <2>2. PlaceInv'
    BY <1>1, <1>5 DEF PlaceInv, AuthSucceeds
  <2>3. LoopInv'
    BY <1>1, <1>5 DEF LoopInv, AuthSucceeds, Alone
  <2> QED  BY <2>1, <2>2, <2>3 DEF ClientInv
<1>6. CASE StartLoop
  <2>1. conn \in Conns
    BY <1>1, <1>6 DEF PlaceInv, StartLoop
  <2>2. TypeOK'
    BY <1>1, <1>6, <2>1, SelectingType DEF TypeOK, StartLoop, Channels, Places
  <2>3. PlaceInv'
    BY <1>6, <2>1 DEF PlaceInv, StartLoop
  <2>4. LoopInv'
    BY <1>1, <1>6, <2>1 DEF TypeOK, LoopInv, StartLoop, Attended
  <2> QED  BY <2>2, <2>3, <2>4 DEF ClientInv
<1>7. CASE FirstReport \/ Heartbeat
  <2>1. /\ loop \in {"first", "run"} /\ loop' = "run"
        /\ send' \in Seq(Fleets) /\ Len(send') <= SendCap
        /\ UNCHANGED <<outside, known, net, dialing, fields, pumps>>
    BY <1>1, <1>7, SendReportType DEF FirstReport, Heartbeat
  <2>2. TypeOK'
    BY <1>1, <2>1 DEF TypeOK, Places
  <2>3. PlaceInv' /\ LoopInv'
    BY <1>1, <2>1 DEF PlaceInv, LoopInv, Attended, Alone
  <2> QED  BY <2>2, <2>3 DEF ClientInv
<1>8. CASE LoopEnds
  <2>1. done \in Conns
    BY <1>1, <1>8 DEF PlaceInv, LoopEnds
  <2>2. /\ net' \in [Conns -> {"gone", "called", "serving"}]
        /\ connected' \in BOOLEAN /\ closed' \in SUBSET Conns
    BY <1>1, <1>8, <2>1, DisconnectType DEF TypeOK, LoopEnds
  <2>3. TypeOK'
    BY <1>1, <1>8, <2>2 DEF TypeOK, LoopEnds, Places
  <2>4. PlaceInv'
    BY <1>1, <1>8 DEF PlaceInv, LoopEnds
  <2>5. LoopInv'
    BY <1>1, <1>8 DEF LoopInv, LoopEnds, Attended, Alone
  <2> QED  BY <2>3, <2>4, <2>5 DEF ClientInv
<1> QED
  BY <1>2, <1>3, <1>4, <1>5, <1>6, <1>7, <1>8 DEF LoopStep

LEMMA PumpsClient ==
    ASSUME ClientInv, NEW c \in Conns,
           ReadFails(c) \/ TakeReport(c) \/ Write(c) \/ WriteFails(c) \/ WriterStops(c)
    PROVE  ClientInv'
<1> USE DEF outside, dialing, pumps, fields
<1>1. TypeOK /\ PlaceInv /\ LoopInv
  BY DEF ClientInv
<1>2. CASE ReadFails(c)
  <2>1. done \in Conns /\ reader[c]
    BY <1>1, <1>2 DEF PlaceInv, ReadFails
  <2>2. /\ net' \in [Conns -> {"gone", "called", "serving"}]
        /\ connected' = FALSE /\ closed' \in SUBSET Conns
        /\ connected => done \in closed'
    BY <1>1, <1>2, <2>1, DisconnectType DEF ReadFails
  <2>3. TypeOK'
    BY <1>1, <1>2, <2>2 DEF TypeOK, ReadFails
  <2>4. PlaceInv'
    BY <1>1, <1>2, <2>1 DEF PlaceInv, ReadFails
  <2>5. LoopInv'
    <3> SUFFICES ASSUME ~cancelled' PROVE LoopInv'
      BY DEF LoopInv
    <3>1. /\ ~cancelled
          /\ UNCHANGED <<loop, done>>
          /\ reader' = [reader EXCEPT ![c] = FALSE]
      BY <1>2 DEF ReadFails
    <3>2. loop \in {"first", "run"} /\ Attended
      BY <1>1, <2>1, <3>1 DEF TypeOK, Places, LoopInv, Alone
    <3>3. Alone' /\ done' \in closed'
      BY <1>1, <2>1, <2>2, <3>1, <3>2 DEF TypeOK, Attended, Alone
    <3> QED
      BY <3>1, <3>2, <3>3 DEF LoopInv
  <2> QED  BY <2>3, <2>4, <2>5 DEF ClientInv
<1>3. CASE TakeReport(c) \/ Write(c) \/ WriteFails(c) \/ WriterStops(c)
  <2>1. UNCHANGED <<outside, net, dialing, loop, fields, reader>>
    BY <1>3 DEF TakeReport, Write, WriteFails, WriterStops
  <2>2. writer[c] \in Writer /\ Selecting(done) \in Writer /\ NoWriter \in Writer
    BY <1>1, SelectingType DEF TypeOK
  <2>3. known' \in Fleets \cup {NoFleet}
    BY <1>1, <1>3, <2>2 DEF TypeOK, TakeReport, Write, WriteFails, WriterStops, Writer
  <2>4. /\ send' \in Seq(Fleets) /\ Len(send') <= SendCap
        /\ writer' \in [Conns -> Writer]
    <3>1. CASE TakeReport(c)
      <4>1. /\ send \in Seq(Fleets) /\ send # <<>> /\ Len(send) <= SendCap
            /\ send' = Tail(send)
            /\ writer' = [writer EXCEPT ![c] =
                             [at |-> "write", ref |-> conn, msg |-> Head(send)]]
        BY <1>1, <3>1 DEF TypeOK, TakeReport
      <4>2. /\ Head(send) \in Fleets
            /\ Tail(send) \in Seq(Fleets) /\ Len(Tail(send)) = Len(send) - 1
            /\ Len(send) \in Nat
        BY <4>1
      <4>3. [at |-> "write", ref |-> conn, msg |-> Head(send)] \in Writer
        BY <1>1, <4>2 DEF TypeOK, Writer
      <4> QED
        BY <1>1, <4>1, <4>2, <4>3, AgentAssumption DEF TypeOK
    <3>2. CASE Write(c) \/ WriteFails(c) \/ WriterStops(c)
      BY <1>1, <2>2, <3>2 DEF TypeOK, Write, WriteFails, WriterStops
    <3> QED
      BY <1>3, <3>1, <3>2
  <2>5. TypeOK'
    BY <1>1, <2>1, <2>3, <2>4 DEF TypeOK
  <2>6. PlaceInv' /\ LoopInv'
    BY <1>1, <2>1 DEF PlaceInv, LoopInv, Attended, Alone
  <2> QED  BY <2>5, <2>6 DEF ClientInv
<1> QED
  BY <1>2, <1>3

LEMMA ClientInvIsInvariant == Spec => []ClientInv
<1>1. ClientInv /\ [Next]_vars => ClientInv'
  <2> SUFFICES ASSUME ClientInv, [Next]_vars PROVE ClientInv'
    OBVIOUS
  <2>1. CASE UNCHANGED vars
    BY <2>1
    DEF vars, outside, dialing, pumps, fields, ClientInv, TypeOK, PlaceInv, LoopInv,
        Attended, Alone
  <2> QED
    BY <2>1, SurroundingsClient, LoopClient, PumpsClient DEF Next
<1> QED
  BY <1>1, InitClient, PTL DEF Spec

(* Until the process is told to stop, no done channel is closed a second   *)
(* time, whichever of the goroutines of however many connections calls     *)
(* disconnect.                                                             *)
THEOREM NoDoubleCloseHolds == Spec => []NoDoubleClose
<1>1. ClientInv => NoDoubleClose
  <2> SUFFICES ASSUME ClientInv, ~cancelled, connected,
                      loop = "run" \/ \E c \in Conns : reader[c]
               PROVE  done # NoConn /\ done \notin closed
    BY DEF NoDoubleClose
  <2>1. done \in Conns
    BY DEF ClientInv, PlaceInv
  <2>2. Attended
    BY DEF ClientInv, LoopInv, Alone, TypeOK, Places
  <2> QED
    BY <2>1, <2>2, AgentAssumption DEF Attended
<1> QED
  BY <1>1, ClientInvIsInvariant, PTL

(* A loop that has not been told that its connection is lost has the       *)
(* readPump of that very connection to tell it, and no other; the types    *)
(* and bounds of what the goroutines share hold even after the process was *)
(* told to stop.                                                           *)
THEOREM AttendedLoopHolds == Spec => []AttendedLoop
<1>1. ClientInv => AttendedLoop
  <2> SUFFICES ASSUME ClientInv PROVE LoopIsAttended
    BY DEF ClientInv, AttendedLoop
  <2>1. SUFFICES ASSUME ~cancelled, loop \in {"first", "run"}, done \notin closed
                 PROVE  connected /\ done = conn /\ {c \in Conns : reader[c]} = {conn}
    BY DEF LoopIsAttended
  <2>2. Attended /\ done \in Conns
    BY <2>1 DEF ClientInv, LoopInv, PlaceInv
  <2> QED
    BY <2>2 DEF Attended
<1> QED
  BY <1>1, ClientInvIsInvariant, PTL
=============================================================================

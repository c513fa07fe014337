----------------------- MODULE AgentSessions_proofs -------------------------
(***************************************************************************)
(* Proofs about AgentSessions: types, the map of sessions, the wake-up of  *)
(* the main loop, what is kept of an agent, and that sessions tell the     *)
(* reconciler nothing but what AgentFeed says, for every number of agents, *)
(* sessions and fleets.                                                    *)
(***************************************************************************)
EXTENDS AgentSessions, TLAPS

(* The steps of the agents and of the network.                             *)
AgentStep(a) == FleetChanges(a) \/ Dial(a) \/ Report(a) \/ Hangup(a)
NetworkStep(s) == Cut(s) \/ Reject(s)

(* A case for every action: how the proofs below split a step.             *)
LEMMA StepCases ==
    ASSUME Next
    PROVE  \/ \E a \in Agents : AgentStep(a)
           \/ \E s \in Sessions : NetworkStep(s) \/ Serve(s)
           \/ Loop
BY DEF Next, AgentStep, NetworkStep

(* Agents, their containers and their connections keep the types.          *)
LEMMA AgentStepType ==
    ASSUME TypeOK, NEW a \in Agents, AgentStep(a)
    PROVE  TypeOK'
<1> USE DEF TypeOK, FeedType, Reports, feedVars, sessionVars, Phases, Serving
<1>1. CASE FleetChanges(a) BY <1>1 DEF FleetChanges
<1>2. CASE Dial(a) BY <1>2 DEF Dial, Moves
<1>3. CASE Report(a) BY <1>3 DEF Report
<1>4. CASE Hangup(a) BY <1>4 DEF Hangup
<1> QED BY <1>1, <1>2, <1>3, <1>4 DEF AgentStep

LEMMA NetworkStepType ==
    ASSUME TypeOK, NEW s \in Sessions, NetworkStep(s)
    PROVE  TypeOK'
<1> USE DEF TypeOK, FeedType, Reports, feedVars, sessionVars, Phases, Serving
<1>1. CASE Cut(s) BY <1>1 DEF Cut
<1>2. CASE Reject(s) BY <1>2 DEF Reject, Moves
<1> QED BY <1>1, <1>2 DEF NetworkStep

LEMMA ServeType ==
    ASSUME TypeOK, NEW s \in Sessions, Serve(s)
    PROVE  TypeOK'
<1> USE DEF TypeOK, FeedType, Reports, feedVars, sessionVars, Phases, Serving, Moves
<1>1. CASE Register(s) BY <1>1 DEF Register
<1>2. CASE StartPumps(s) BY <1>2 DEF StartPumps, SaveAgentRow, AgentRow
<1>3. CASE ReadReport(s) BY <1>3 DEF ReadReport
<1>4. CASE StoreReport(s) BY <1>4 DEF StoreReport, UpdateAgentData
<1>5. CASE TriggerReconcile(s) BY <1>5 DEF TriggerReconcile, SendTrigger
<1>6. CASE SaveReport(s) BY <1>6 DEF SaveReport, SaveAgentRow, AgentRow
<1>7. CASE ReadEnds(s) BY <1>7 DEF ReadEnds
<1>8. CASE LeaveMap(s) BY <1>8 DEF LeaveMap
<1>9. CASE WipeData(s) BY <1>9 DEF WipeData, RemoveAgentData
<1>10. CASE MarkDisconnected(s)
  <2>1. agentRows' \in [Agents -> AgentRow \cup {NoRow}]
    <3>1. owner[s] \in Agents
      OBVIOUS
    <3>2. [connected |-> FALSE, status |-> "disconnected"] \in AgentRow
      BY DEF AgentRow
    <3> QED BY <1>10, <3>1, <3>2 DEF MarkDisconnected, SaveAgentRow
  <2> QED BY <1>10, <2>1 DEF MarkDisconnected
<1> QED BY <1>1, <1>2, <1>3, <1>4, <1>5, <1>6, <1>7, <1>8, <1>9, <1>10 DEF Serve

LEMMA LoopType == TypeOK /\ Loop => TypeOK'
BY DEF TypeOK, FeedType, Reports, sessionVars, Loop, LoopStep, EndWait, TakeTrigger, WakeUp,
       ReadAgentData

LEMMA InitType == Init => TypeOK
<1> SUFFICES ASSUME Init PROVE TypeOK
  OBVIOUS
<1>1. FeedType
  BY DEF Init, FeedInit, FeedType, Reports
<1>2. owner \in [Sessions -> Agents]
  BY DEF Init
<1>3. inbox \in [Sessions -> Seq(Fleets)]
  BY DEF Init
<1>4. phase \in [Sessions -> Phases]
  BY DEF Init, Phases
<1> QED BY <1>1, <1>2, <1>3, <1>4 DEF Init, TypeOK

LEMMA TypeStep == TypeOK /\ [Next]_vars => TypeOK'
<1> SUFFICES ASSUME TypeOK, [Next]_vars PROVE TypeOK'
  OBVIOUS
<1>1. CASE Next
  BY <1>1, StepCases, AgentStepType, NetworkStepType, ServeType, LoopType
<1>2. CASE UNCHANGED vars
  BY <1>2 DEF vars, sessionVars, feedVars, TypeOK, FeedType
<1> QED BY <1>1, <1>2

(* TypeOK, of the server, the agents and the feed, holds in every          *)
(* reachable state.                                                        *)
THEOREM TypeCorrect == Spec => []TypeOK
BY InitType, TypeStep, PTL DEF Spec

----------------------------------------------------------------------------
(* The map of sessions.  OneLiveSession is preserved by every step once it *)
(* is known that a session that has yet to register was not told to stop.  *)

FreshInv == \A s \in Sessions : phase[s] = "auth" => ~done[s]

SessionInv == TypeOK /\ OneLiveSession /\ FreshInv

LEMMA AgentStepSessions ==
    ASSUME SessionInv, NEW a \in Agents, AgentStep(a)
    PROVE  OneLiveSession' /\ FreshInv'
<1> USE DEF SessionInv, OneLiveSession, FreshInv, TypeOK, Serving
<1>1. CASE FleetChanges(a) BY <1>1 DEF FleetChanges, sessionVars
<1>2. CASE Dial(a)
  <2>1. PICK s \in Sessions :
           /\ Moves(s, "unused", "auth")
           /\ owner' = [owner EXCEPT ![s] = a]
           /\ done' = [done EXCEPT ![s] = FALSE]
    BY <1>2 DEF Dial
  <2>2. connections' = connections
    BY <1>2 DEF Dial
  <2>3. \A b \in Agents : connections[b] # s
    BY <2>1, NoSessionIsNone DEF Moves
  <2>4. /\ \A t \in Sessions \ {s} :
              phase'[t] = phase[t] /\ owner'[t] = owner[t] /\ done'[t] = done[t]
        /\ phase'[s] = "auth" /\ ~done'[s]
    BY <2>1 DEF Moves
  <2>5. FreshInv'
    BY <2>4
  <2>6. ASSUME NEW b \in Agents, connections'[b] # NoSession
        PROVE  /\ owner'[connections'[b]] = b
               /\ phase'[connections'[b]] \in Serving
               /\ ~done'[connections'[b]]
    BY <2>2, <2>3, <2>4, <2>6
  <2>7. ASSUME NEW t \in Sessions, phase'[t] \in Serving, connections'[owner'[t]] # t
        PROVE  done'[t]
    BY <2>2, <2>4, <2>7
  <2> QED BY <2>5, <2>6, <2>7
<1>3. CASE Report(a) BY <1>3 DEF Report
<1>4. CASE Hangup(a) BY <1>4 DEF Hangup
<1> QED BY <1>1, <1>2, <1>3, <1>4 DEF AgentStep

LEMMA NetworkStepSessions ==
    ASSUME SessionInv, NEW s \in Sessions, NetworkStep(s)
    PROVE  OneLiveSession' /\ FreshInv'
<1> USE DEF SessionInv, OneLiveSession, FreshInv, TypeOK, Serving
<1>1. CASE Cut(s) BY <1>1 DEF Cut
<1>2. CASE Reject(s) BY <1>2 DEF Reject, Moves
<1> QED BY <1>1, <1>2 DEF NetworkStep

(* The critical section: what was in the map is told to stop, the rest of  *)
(* the agent's sessions had been told before.                              *)
LEMMA RegisterSessions ==
    ASSUME SessionInv, NEW s \in Sessions, Register(s)
    PROVE  OneLiveSession' /\ FreshInv'
<1> USE DEF SessionInv, OneLiveSession, FreshInv, TypeOK, Serving, Moves
<1> DEFINE old == connections[owner[s]]
<1>1. connections' = [connections EXCEPT ![owner[s]] = s] /\ owner' = owner
  BY DEF Register
<1>2. phase[s] = "auth" /\ phase' = [phase EXCEPT ![s] = "registered"] /\ ~done[s]
  BY DEF Register
<1>3. \A t \in Sessions : done'[t] <=> (done[t] \/ t = old)
  BY NoSessionIsNone DEF Register
<1>4. old # s /\ (old \in Sessions => phase[old] # "auth")
  <2>1. owner[s] \in Agents
    OBVIOUS
  <2>2. old # NoSession => phase[old] \in Serving
    BY <2>1
  <2> QED BY <1>2, <2>2, NoSessionIsNone
<1>5. ASSUME NEW t \in Sessions, phase'[t] = "auth" PROVE ~done'[t]
  BY <1>2, <1>3, <1>4, <1>5
<1>6. \A b \in Agents : b # owner[s] /\ connections[b] # NoSession => connections[b] # old
  OBVIOUS
<1>7. ASSUME NEW b \in Agents, connections'[b] # NoSession
      PROVE  /\ owner'[connections'[b]] = b
             /\ phase'[connections'[b]] \in Serving
             /\ ~done'[connections'[b]]
  <2>1. CASE b = owner[s] BY <2>1, <1>1, <1>2, <1>3, <1>4
  <2>2. CASE b # owner[s] BY <2>2, <1>1, <1>2, <1>3, <1>6, <1>7
  <2> QED BY <2>1, <2>2
<1>8. ASSUME NEW t \in Sessions, phase'[t] \in Serving, connections'[owner'[t]] # t
      PROVE  done'[t]
  BY <1>1, <1>2, <1>3, <1>8
<1> QED BY <1>5, <1>7, <1>8

LEMMA LeaveMapSessions ==
    ASSUME SessionInv, NEW s \in Sessions, LeaveMap(s)
    PROVE  OneLiveSession' /\ FreshInv'
<1> USE DEF SessionInv, OneLiveSession, FreshInv, TypeOK, Serving, Moves
<1>1. FreshInv'
  BY DEF LeaveMap
<1>2. CASE connections[owner[s]] = s BY <1>2, NoSessionIsNone DEF LeaveMap
<1>3. CASE connections[owner[s]] # s BY <1>3 DEF LeaveMap
<1> QED BY <1>1, <1>2, <1>3

LEMMA ServeSessions ==
    ASSUME SessionInv, NEW s \in Sessions, Serve(s)
    PROVE  OneLiveSession' /\ FreshInv'
<1>1. CASE Register(s) BY <1>1, RegisterSessions
<1>2. CASE LeaveMap(s) BY <1>2, LeaveMapSessions
<1>3. CASE ~ Register(s) /\ ~ LeaveMap(s)
  <2>1. UNCHANGED <<owner, done, connections>>
    BY <1>3 DEF Serve, StartPumps, ReadReport, StoreReport, TriggerReconcile, SaveReport,
                ReadEnds, WipeData, MarkDisconnected
  <2>2. /\ phase[s] # "auth" /\ phase'[s] # "auth"
        /\ phase[s] \in Serving <=> phase'[s] \in Serving
        /\ \A t \in Sessions \ {s} : phase'[t] = phase[t]
    BY <1>3 DEF Serve, StartPumps, ReadReport, StoreReport, TriggerReconcile, SaveReport,
                ReadEnds, WipeData, MarkDisconnected, Moves, Serving, SessionInv, TypeOK
  <2> QED BY <2>1, <2>2 DEF SessionInv, OneLiveSession, FreshInv, TypeOK, Serving
<1> QED BY <1>1, <1>2, <1>3

LEMMA SessionStep == SessionInv /\ [Next]_vars => SessionInv'
<1> SUFFICES ASSUME SessionInv, [Next]_vars PROVE SessionInv'
  OBVIOUS
<1>1. TypeOK'
  BY TypeStep DEF SessionInv
<1>2. CASE Next
  <2>1. ASSUME Loop PROVE OneLiveSession' /\ FreshInv'
    BY <2>1 DEF Loop, sessionVars, SessionInv, OneLiveSession, FreshInv
  <2> QED BY <1>1, <1>2, <2>1, StepCases, AgentStepSessions, NetworkStepSessions, ServeSessions
             DEF SessionInv
<1>3. CASE UNCHANGED vars
  BY <1>1, <1>3 DEF vars, sessionVars, SessionInv, OneLiveSession, FreshInv
<1> QED BY <1>2, <1>3

(* However often an agent comes back while its former sessions are being   *)
(* served, the map holds its latest session, alive, and all others have    *)
(* been told to stop, once.                                                *)
THEOREM OneLiveSessionHolds == Spec => []OneLiveSession
<1>1. Init => SessionInv
  BY InitType, NoSessionIsNone DEF Init, SessionInv, OneLiveSession, FreshInv, Serving
<1>2. SessionInv => OneLiveSession
  BY DEF SessionInv
<1> QED BY <1>1, <1>2, SessionStep, PTL DEF Spec

----------------------------------------------------------------------------
(* The wake-up.                                                            *)

(* Any number of reports of any number of agents, in any interleaving with *)
(* the loop: the single token is enough for none to be overlooked.         *)
THEOREM NoLostTriggerHolds == Spec => []NoLostTrigger
<1>1. Init => NoLostTrigger
  BY DEF Init, FeedInit, NoLostTrigger
<1>2. TypeOK /\ NoLostTrigger /\ [Next]_vars => NoLostTrigger'
  <2> SUFFICES ASSUME TypeOK, NoLostTrigger, [Next]_vars,
                      NEW a \in Agents, fingerprints'[a] # heard'[a]
               PROVE  \/ trigger'
                      \/ loop' # "idle"
                      \/ \E s \in Sessions : phase'[s] = "trigger" /\ owner'[s] = a
    BY DEF NoLostTrigger
  <2>1. ASSUME NEW b \in Agents, AgentStep(b)
        PROVE  /\ UNCHANGED feedVars
               /\ \A s \in Sessions :
                     phase[s] = "trigger" => phase'[s] = "trigger" /\ owner'[s] = owner[s]
    BY <2>1 DEF AgentStep, FleetChanges, Dial, Report, Hangup, Moves, sessionVars, TypeOK
  <2>2. ASSUME NEW s \in Sessions, NetworkStep(s)
        PROVE  /\ UNCHANGED feedVars
               /\ \A t \in Sessions :
                     phase[t] = "trigger" => phase'[t] = "trigger" /\ owner'[t] = owner[t]
    BY <2>2 DEF NetworkStep, Cut, Reject, Moves, TypeOK
  <2>3. ASSUME NEW s \in Sessions, Serve(s)
        PROVE  \/ trigger'
               \/ loop' # "idle"
               \/ \E t \in Sessions : phase'[t] = "trigger" /\ owner'[t] = a
    <3>1. CASE StoreReport(s)
      <4>1. CASE owner[s] = a /\ Changed(a, held[s])
        BY <3>1, <4>1 DEF StoreReport, Moves, TypeOK
      <4>2. CASE ~ (owner[s] = a /\ Changed(a, held[s]))
        <5>1. fingerprints'[a] = fingerprints[a] /\ UNCHANGED <<heard, trigger, loop, owner>>
          BY <3>1, <4>2 DEF StoreReport, UpdateAgentData, Changed, TypeOK, FeedType, Reports
        <5>2. \A t \in Sessions : phase[t] = "trigger" => phase'[t] = "trigger"
          BY <3>1 DEF StoreReport, Moves, TypeOK
        <5> QED BY <5>1, <5>2 DEF NoLostTrigger
      <4> QED BY <4>1, <4>2
    <3>2. CASE TriggerReconcile(s)
      BY <3>2 DEF TriggerReconcile, SendTrigger
    <3>3. CASE ~ StoreReport(s) /\ ~ TriggerReconcile(s)
      <4>1. UNCHANGED <<fingerprints, heard, trigger, loop, owner>>
        BY <2>3, <3>3 DEF Serve, Register, StartPumps, ReadReport, SaveReport, ReadEnds,
                          LeaveMap, WipeData, RemoveAgentData, MarkDisconnected, feedVars
      <4>2. \A t \in Sessions : phase[t] = "trigger" => phase'[t] = "trigger"
        BY <2>3, <3>3 DEF Serve, Register, StartPumps, ReadReport, SaveReport, ReadEnds,
                          LeaveMap, WipeData, MarkDisconnected, Moves, TypeOK
      <4> QED BY <4>1, <4>2 DEF NoLostTrigger
    <3> QED BY <3>1, <3>2, <3>3
  <2>4. ASSUME Loop
        PROVE  \/ trigger'
               \/ loop' # "idle"
               \/ \E t \in Sessions : phase'[t] = "trigger" /\ owner'[t] = a
    BY <2>4 DEF Loop, LoopStep, EndWait, TakeTrigger, WakeUp, ReadAgentData
  <2>5. CASE Next
    BY <2>5, <2>1, <2>2, <2>3, <2>4, StepCases DEF NoLostTrigger, feedVars
  <2>6. CASE UNCHANGED vars
    BY <2>6 DEF vars, feedVars, sessionVars, NoLostTrigger
  <2> QED BY <2>5, <2>6
<1> QED BY TypeCorrect, <1>1, <1>2, PTL DEF Spec

----------------------------------------------------------------------------
(* What is kept of an agent.                                               *)

(* A session of this agent will still wipe its data.                       *)
Answers(s, a) == owner[s] = a /\ phase[s] \in Serving \cup {"wiping"}

(* However the sessions of an agent overlap and whichever of them reported *)
(* last, its data do not outlive the last of them.                         *)
THEOREM NoGhostsHolds == Spec => []NoGhosts
<1>1. Init => NoGhosts
  BY InitType DEF Init, FeedInit, NoGhosts
<1>2. NoGhosts /\ [Next]_vars => NoGhosts'
  <2> SUFFICES ASSUME NoGhosts, [Next]_vars, NEW a \in Agents, agentData'[a] # NoFleet
               PROVE  \E s \in Sessions : Answers(s, a)'
    BY TypeStep DEF NoGhosts, Answers
  <2>1. /\ TypeOK
        /\ agentData[a] # NoFleet => \E s \in Sessions : Answers(s, a)
    BY DEF NoGhosts, Answers
  <2>2. ASSUME UNCHANGED agentData,
               \A s \in Sessions : Answers(s, a) => Answers(s, a)'
        PROVE  \E s \in Sessions : Answers(s, a)'
    BY <2>1, <2>2
  <2>3. ASSUME NEW b \in Agents, AgentStep(b) PROVE \E s \in Sessions : Answers(s, a)'
    <3>1. UNCHANGED agentData /\ \A s \in Sessions : Answers(s, a) => Answers(s, a)'
      BY <2>1, <2>3
      DEF AgentStep, FleetChanges, Dial, Report, Hangup, Moves, sessionVars, feedVars, TypeOK,
          Answers, Serving
    <3> QED  BY <2>2, <3>1
  <2>4. ASSUME NEW s \in Sessions, NetworkStep(s) PROVE \E t \in Sessions : Answers(t, a)'
    <3>1. UNCHANGED agentData /\ \A t \in Sessions : Answers(t, a) => Answers(t, a)'
      BY <2>1, <2>4 DEF NetworkStep, Cut, Reject, Moves, feedVars, TypeOK, Answers, Serving
    <3> QED  BY <2>2, <3>1
  <2>5. ASSUME NEW s \in Sessions, Serve(s) PROVE \E t \in Sessions : Answers(t, a)'
    <3>1. CASE StoreReport(s)
      <4>1. CASE owner[s] = a
        BY <2>1, <3>1, <4>1 DEF StoreReport, Moves, TypeOK, Answers, Serving
      <4>2. CASE owner[s] # a
        <5>1. agentData'[a] = agentData[a]
          BY <2>1, <3>1, <4>2 DEF StoreReport, UpdateAgentData, TypeOK, FeedType, Reports
        <5>2. \A t \in Sessions : Answers(t, a) => Answers(t, a)'
          BY <2>1, <3>1 DEF StoreReport, Moves, TypeOK, Answers, Serving
        <5> QED  BY <2>1, <5>1, <5>2
      <4> QED  BY <4>1, <4>2
    <3>2. CASE WipeData(s)
      <4>1. owner[s] # a /\ agentData'[a] = agentData[a]
        BY <2>1, <3>2 DEF WipeData, RemoveAgentData, TypeOK, FeedType, Reports
      <4>2. \A t \in Sessions : Answers(t, a) => Answers(t, a)'
        BY <2>1, <3>2, <4>1 DEF WipeData, Moves, TypeOK, Answers
      <4> QED  BY <2>1, <4>1, <4>2
    <3>3. CASE ~StoreReport(s) /\ ~WipeData(s)
      <4>1. UNCHANGED <<agentData, owner>>
        BY <2>5, <3>3
        DEF Serve, Register, StartPumps, ReadReport, TriggerReconcile, SendTrigger,
            SaveReport, ReadEnds, LeaveMap, MarkDisconnected, feedVars
      <4>2. \A t \in Sessions : Answers(t, a) => Answers(t, a)'
        BY <2>1, <2>5, <3>3, <4>1
        DEF Serve, Register, StartPumps, ReadReport, TriggerReconcile, SaveReport, ReadEnds,
            LeaveMap, MarkDisconnected, Moves, TypeOK, Answers, Serving
      <4> QED  BY <2>2, <4>1, <4>2
    <3> QED  BY <3>1, <3>2, <3>3
  <2>6. ASSUME Loop PROVE \E s \in Sessions : Answers(s, a)'
    <3>1. UNCHANGED agentData /\ \A s \in Sessions : Answers(s, a) => Answers(s, a)'
      BY <2>6
      DEF Loop, LoopStep, EndWait, TakeTrigger, WakeUp, ReadAgentData, sessionVars, Answers
    <3> QED  BY <2>2, <3>1
  <2>7. CASE Next
    BY <2>3, <2>4, <2>5, <2>6, <2>7, StepCases
  <2>8. CASE UNCHANGED vars
    BY <2>2, <2>8 DEF vars, sessionVars, feedVars, Answers
  <2> QED  BY <2>7, <2>8
<1> QED  BY <1>1, <1>2, PTL DEF Spec

----------------------------------------------------------------------------
(* The feed.                                                               *)

(* What a session hands over is a report it has read.                      *)
HeldInv == \A s \in Sessions : phase[s] = "report" => held[s] \in Fleets

LEMMA HeldStep == TypeOK /\ HeldInv /\ [Next]_vars => HeldInv'
<1> SUFFICES ASSUME TypeOK, HeldInv, [Next]_vars PROVE HeldInv'
  OBVIOUS
<1> USE DEF TypeOK, HeldInv, Moves
<1>1. ASSUME NEW a \in Agents, AgentStep(a) PROVE HeldInv'
  BY <1>1 DEF AgentStep, FleetChanges, Dial, Report, Hangup, sessionVars
<1>2. ASSUME NEW s \in Sessions, NetworkStep(s) PROVE HeldInv'
  BY <1>2 DEF NetworkStep, Cut, Reject
<1>3. ASSUME NEW s \in Sessions, Serve(s) PROVE HeldInv'
  <2>1. CASE ReadReport(s)
    <3>1. Head(inbox[s]) \in Fleets
      BY <2>1 DEF ReadReport
    <3> QED  BY <2>1, <3>1 DEF ReadReport
  <2>2. CASE ~ReadReport(s)
    BY <1>3, <2>2
    DEF Serve, Register, StartPumps, StoreReport, TriggerReconcile, SaveReport, ReadEnds,
        LeaveMap, WipeData, MarkDisconnected
  <2> QED  BY <2>1, <2>2
<1>4. CASE Loop
  BY <1>4 DEF Loop, sessionVars
<1>5. CASE UNCHANGED vars
  BY <1>5 DEF vars, sessionVars
<1> QED
  BY <1>1, <1>2, <1>3, <1>4, <1>5, StepCases

(* All that the sessions do to the reconciler, and its loop with them, is  *)
(* what AgentFeed allows: a report of an agent is stored, its data are     *)
(* dropped, a token is sent.  The main loop is shown to implement the      *)
(* same feed from its own side.                                            *)
THEOREM SessionsImplementFeed == Spec => FeedSpec
<1>1. Init => FeedInit /\ HeldInv
  BY DEF Init, HeldInv
<1>2. TypeOK /\ HeldInv /\ [Next]_vars => [LoopStep \/ FeedOfAgents]_feedVars
  <2> SUFFICES ASSUME TypeOK, HeldInv, [Next]_vars
               PROVE  LoopStep \/ FeedOfAgents \/ UNCHANGED feedVars
    OBVIOUS
  <2>1. ASSUME NEW a \in Agents, AgentStep(a) PROVE UNCHANGED feedVars
    BY <2>1 DEF AgentStep, FleetChanges, Dial, Report, Hangup
  <2>2. ASSUME NEW s \in Sessions, NetworkStep(s) PROVE UNCHANGED feedVars
    BY <2>2 DEF NetworkStep, Cut, Reject
  <2>3. ASSUME NEW s \in Sessions, Serve(s) PROVE FeedOfAgents \/ UNCHANGED feedVars
    <3>1. owner[s] \in Agents
      BY DEF TypeOK
    <3>2. CASE StoreReport(s)
      BY <3>1, <3>2 DEF StoreReport, Moves, HeldInv, FeedOfAgents
    <3>3. CASE TriggerReconcile(s)
      BY <3>3 DEF TriggerReconcile, FeedOfAgents
    <3>4. CASE WipeData(s)
      BY <3>1, <3>4 DEF WipeData, FeedOfAgents
    <3>5. CASE ~StoreReport(s) /\ ~TriggerReconcile(s) /\ ~WipeData(s)
      BY <2>3, <3>5
      DEF Serve, Register, StartPumps, ReadReport, SaveReport, ReadEnds, LeaveMap,
          MarkDisconnected
    <3> QED  BY <3>2, <3>3, <3>4, <3>5
  <2>4. CASE Loop
    BY <2>4 DEF Loop
  <2>5. CASE UNCHANGED vars
    BY <2>5 DEF vars
  <2> QED
    BY <2>1, <2>2, <2>3, <2>4, <2>5, StepCases
<1> QED
  BY <1>1, <1>2, HeldStep, TypeCorrect, PTL DEF Spec, FeedSpec
=============================================================================

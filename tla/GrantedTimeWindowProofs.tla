------------------------ MODULE GrantedTimeWindowProofs ------------------------
(***************************************************************************)
(* Proofs about GrantedTimeWindow for any number of ranks, any links and   *)
(* any program that calls Run once: no message reaches a rank in its past, *)
(* the windows move forward, and the ranks finish with nothing in flight.  *)
(***************************************************************************)
EXTENDS GrantedTimeWindow, FiniteSetTheorems, TLAPS

SingleRun == MaxRuns = 1

InFlight == network \cup arrived

(* The collective calls keep the ranks in the same phase. *)
Before  == \A r \in Ranks : (runs[r] = 0 /\ pc[r] = "program") \/ pc[r] = "reduce"
Running == \A r \in Ranks : pc[r] \in {"loop", "event", "receive", "gather"}
After   == \A r \in Ranks : pc[r] = "program" /\ runs[r] = 1

(* Before the first window no time has passed. *)
PhaseInv ==
  /\ Before \/ Running \/ After
  /\ Before => window = 0 /\ \A r \in Ranks : m_currentTs[r] = 0
  /\ \A r \in Ranks : pc[r] # "program" => runs[r] = 1

(* The lookahead of a rank is at most the delay of each of its links, and   *)
(* infinite or so small that adding it to the time of an event does not     *)
(* overflow; its granted time and its clock are at most a lookahead after   *)
(* the last window.                                                         *)
WindowInv ==
  /\ window <= MaxTime
  /\ \A r \in Ranks :
       /\ runs[r] = 1 => \A link \in LinksOf(r) : m_lookAhead[r] <= link.delay
       /\ runs[r] = 1 => m_grantedTime[r] <= window + m_lookAhead[r]
       /\ runs[r] = 1 /\ m_lookAhead[r] = MaxTime => m_grantedTime[r] = MaxTime
       /\ m_lookAhead[r] = MaxTime \/ Horizon + m_lookAhead[r] <= MaxTime
       /\ runs[r] = 1 => m_currentTs[r] <= window + m_lookAhead[r]
       /\ pc[r] = "event" => window <= m_currentTs[r]

(* Nothing a rank that still runs may execute lies before the last window.  *)
QueueInv ==
  \A r \in Ranks : \A e \in m_events[r] :
    /\ m_currentTs[r] <= e.ts /\ e.ts < Horizon
    /\ ~m_stop[r] => window <= e.ts

(* The delay of a link of its receiver separates a message from the last    *)
(* window: no window is opened while it is in flight.                       *)
MessageInv ==
  \A m \in InFlight :
    /\ m.rxTime < Horizon
    /\ \E link \in LinksOf(m.to) : window + link.delay <= m.rxTime

(* The sets behind the two counters differ by what is in flight. *)
CountInv ==
  /\ \A m \in InFlight : /\ m.id < nextId
                         /\ \E r \in Ranks : m.id \in g_txCount[r]
                         /\ \A r \in Ranks : m.id \notin g_rxCount[r]
  /\ \A m, n \in InFlight : m.id = n.id => m = n
  /\ network \cap arrived = {}
  /\ \A r \in Ranks : \A id \in g_txCount[r] : id < nextId
  /\ \A r \in Ranks : \A id \in g_rxCount[r] : \E s \in Ranks : id \in g_txCount[s]

(* What a rank has brought to the all-gather still holds of it. *)
LbtsInv ==
  \A r \in Ranks : pc[r] = "gather" =>
    /\ lMsg[r].rxCount = g_rxCount[r] /\ lMsg[r].txCount = g_txCount[r]
    /\ lMsg[r].isFinished <=> IsLocalFinished(r)
    /\ IsNextTs(r, lMsg[r].smallestTime)

FinishInv == (\E r \in Ranks : m_globalFinished[r]) => After

IInv ==
  /\ TypeOK
  /\ PhaseInv
  /\ WindowInv
  /\ QueueInv
  /\ MessageInv
  /\ CountInv
  /\ LbtsInv
  /\ FinishInv
  /\ FinishedIsGlobal

-----------------------------------------------------------------------------
LEMMA RanksFinite == Cardinality(Ranks) \in Nat
BY FS_CardinalityType, ConstantsAssumption

LEMMA InitType == Init => TypeOK
<1> SUFFICES ASSUME Init PROVE TypeOK
  OBVIOUS
<1> USE ConstantsAssumption DEF Init
<1>1. pc \in [Ranks -> ProgramPoints] BY DEF ProgramPoints
<1>2. lMsg \in [Ranks -> Lbts] BY DEF NoLbts, Lbts
<1>3. m_stop \in [Ranks -> BOOLEAN] /\ m_globalFinished \in [Ranks -> BOOLEAN] OBVIOUS
<1>4. /\ runs \in [Ranks -> 0 .. MaxRuns] /\ m_uid \in [Ranks -> Nat]
      /\ m_currentTs \in [Ranks -> Nat] /\ m_lookAhead \in [Ranks -> Nat]
      /\ m_grantedTime \in [Ranks -> Int] /\ nextId \in 1 .. MaxEvents + 1 /\ window \in Nat
  OBVIOUS
<1>5. /\ m_events \in [Ranks -> SUBSET Event] /\ g_txCount \in [Ranks -> SUBSET Ids]
      /\ g_rxCount \in [Ranks -> SUBSET Ids]
  OBVIOUS
<1> QED BY <1>1, <1>2, <1>3, <1>4, <1>5 DEF TypeOK

(* Every step keeps every variable in its type. *)
LEMMA NextType == TypeOK /\ [Next]_vars => TypeOK'
<1> SUFFICES ASSUME TypeOK, [Next]_vars PROVE TypeOK'
  OBVIOUS
<1> USE ConstantsAssumption DEF TypeOK
<1>i. ASSUME NEW r \in Ranks, NEW ts \in Nat, Insert(r, ts)
      PROVE  m_events' \in [Ranks -> SUBSET Event] /\ m_uid' \in [Ranks -> Nat]
  <2>1. [ts |-> ts, uid |-> m_uid[r]] \in Event BY DEF Event
  <2> QED BY <1>i, <2>1 DEF Insert
<1>1. ASSUME NEW r \in Ranks, NEW delay \in Delays, Schedule(r, delay) PROVE TypeOK'
  <2>0. m_currentTs[r] \in Nat /\ delay \in Nat OBVIOUS
  <2>1. m_currentTs[r] + delay \in Nat BY ONLY <2>0
  <2>2. m_events' \in [Ranks -> SUBSET Event] /\ m_uid' \in [Ranks -> Nat]
    BY <1>1, <1>i, <2>1 DEF Schedule
  <2>3. nextId' \in 1 .. MaxEvents + 1 BY <1>1 DEF Schedule
  <2> QED BY <1>1, <2>2, <2>3 DEF Schedule, windowVars, mpiVars
<1>2. ASSUME NEW r \in Ranks, NEW e \in m_events[r], Remove(r, e) PROVE TypeOK'
  <2>1. m_events' \in [Ranks -> SUBSET Event] BY <1>2 DEF Remove
  <2> QED BY <1>2, <2>1 DEF Remove, windowVars, mpiVars
<1>3. ASSUME NEW r \in Ranks, Stop(r) PROVE TypeOK'
  <2>1. m_stop' \in [Ranks -> BOOLEAN] BY <1>3 DEF Stop
  <2> QED BY <1>3, <2>1 DEF Stop, queueVars, windowVars, mpiVars
<1>4. ASSUME NEW r \in Ranks, NEW lookAhead \in LookAheads, BoundLookAhead(r, lookAhead)
      PROVE  TypeOK'
  <2>1. m_lookAhead' \in [Ranks -> Nat] BY <1>4 DEF BoundLookAhead
  <2> QED BY <1>4, <2>1 DEF BoundLookAhead, queueVars, mpiVars
<1>5. ASSUME NEW r \in Ranks, NEW link \in Links, NEW txTime \in TxTimes,
             SendPacket(r, link, txTime)
      PROVE  TypeOK'
  <2>1. m_currentTs[r] + txTime + link.delay \in Nat /\ link.ends \subseteq Ranks OBVIOUS
  <2>2. nextId \in Ids /\ nextId' \in 1 .. MaxEvents + 1
    BY <1>5 DEF SendPacket, Ids
  <2>3. PICK to \in link.ends : network' = network \cup
          {[id |-> nextId, to |-> to, rxTime |-> m_currentTs[r] + txTime + link.delay]}
    BY <1>5 DEF SendPacket, ReceiveTime
  <2>4. network' \subseteq Message BY <2>1, <2>2, <2>3 DEF Message
  <2>5. g_txCount' \in [Ranks -> SUBSET Ids] BY <1>5, <2>2 DEF SendPacket
  <2> QED BY <1>5, <2>2, <2>4, <2>5 DEF SendPacket, windowVars
<1>6. ASSUME NEW m \in network, Arrive(m) PROVE TypeOK'
  BY <1>6 DEF Arrive, queueVars, windowVars
<1>7. ASSUME NEW r \in Ranks, Run(r) PROVE TypeOK'
  <2>1. PICK lookAhead \in {m_lookAhead[r], 0} \cup {link.delay : link \in LinksOf(r)} :
          /\ m_lookAhead' = [m_lookAhead EXCEPT ![r] = lookAhead]
          /\ m_grantedTime' = [m_grantedTime EXCEPT ![r] = lookAhead]
    BY <1>7 DEF Run
  <2>2. lookAhead \in Nat BY DEF LinksOf
  <2>3. m_lookAhead' \in [Ranks -> Nat] /\ m_grantedTime' \in [Ranks -> Int]
    BY <2>1, <2>2
  <2>4. pc' \in [Ranks -> ProgramPoints] BY <1>7 DEF Run, ProgramPoints
  <2>5. runs' \in [Ranks -> 0 .. MaxRuns] BY <1>7 DEF Run
  <2> QED BY <1>7, <2>3, <2>4, <2>5 DEF Run, queueVars, mpiVars
<1>8. CASE AllReduce
  <2>1. PICK recvbuf \in Nat, none \in SUBSET Ranks :
          /\ m_lookAhead' = [r \in Ranks |-> IF r \in none THEN recvbuf ELSE m_lookAhead[r]]
          /\ m_grantedTime' = [r \in Ranks |-> IF r \in none THEN recvbuf ELSE m_grantedTime[r]]
    <3> DEFINE sendbuf(r) == IF m_lookAhead[r] = MaxTime THEN 0 ELSE m_lookAhead[r]
    <3>1. PICK recvbuf \in {sendbuf(r) : r \in Ranks} :
            LET none == {r \in Ranks : m_lookAhead[r] = MaxTime /\ recvbuf # 0}
            IN /\ m_lookAhead' = [r \in Ranks |->
                    IF r \in none THEN recvbuf ELSE m_lookAhead[r]]
               /\ m_grantedTime' = [r \in Ranks |->
                    IF r \in none THEN recvbuf ELSE m_grantedTime[r]]
      BY <1>8 DEF AllReduce, BeginLoop
    <3>2. recvbuf \in Nat OBVIOUS
    <3> QED BY <3>1, <3>2
  <2>2. m_lookAhead' \in [Ranks -> Nat] /\ m_grantedTime' \in [Ranks -> Int] BY <2>1
  <2>3. m_stop' \in [Ranks -> BOOLEAN] /\ m_globalFinished' \in [Ranks -> BOOLEAN]
    BY <1>8 DEF AllReduce, BeginLoop
  <2>4. pc' \in [Ranks -> ProgramPoints] BY <1>8 DEF AllReduce, BeginLoop, ProgramPoints
  <2> QED BY <1>8, <2>2, <2>3, <2>4 DEF AllReduce, BeginLoop, queueVars, mpiVars
<1>9. ASSUME NEW r \in Ranks, ProcessOneEvent(r) PROVE TypeOK'
  <2>1. PICK next \in m_events[r] :
          /\ m_events' = [m_events EXCEPT ![r] = @ \ {next}]
          /\ m_currentTs' = [m_currentTs EXCEPT ![r] = next.ts]
    BY <1>9 DEF ProcessOneEvent
  <2>2. next.ts \in Nat BY DEF Event
  <2>3. m_events' \in [Ranks -> SUBSET Event] /\ m_currentTs' \in [Ranks -> Nat]
    BY <2>1, <2>2
  <2>4. pc' \in [Ranks -> ProgramPoints] BY <1>9 DEF ProcessOneEvent, ProgramPoints
  <2> QED BY <1>9, <2>3, <2>4 DEF ProcessOneEvent, windowVars, mpiVars
<1>10. ASSUME NEW r \in Ranks, EventReturn(r) PROVE TypeOK'
  <2>1. pc' \in [Ranks -> ProgramPoints] BY <1>10 DEF EventReturn, ProgramPoints
  <2> QED BY <1>10, <2>1 DEF EventReturn, queueVars, windowVars, mpiVars
<1>11. ASSUME NEW r \in Ranks, StartReceive(r) PROVE TypeOK'
  <2>1. pc' \in [Ranks -> ProgramPoints] BY <1>11 DEF StartReceive, ProgramPoints
  <2> QED BY <1>11, <2>1 DEF StartReceive, queueVars, windowVars, mpiVars
<1>12. ASSUME NEW r \in Ranks, NEW m \in arrived, ReceiveMessage(r, m) PROVE TypeOK'
  <2>1. m.rxTime \in Nat /\ m.id \in Ids BY DEF Message
  <2>2. m_events' \in [Ranks -> SUBSET Event] /\ m_uid' \in [Ranks -> Nat]
    BY <1>12, <1>i, <2>1 DEF ReceiveMessage
  <2>3. g_rxCount' \in [Ranks -> SUBSET Ids] BY <1>12, <2>1 DEF ReceiveMessage
  <2> QED BY <1>12, <2>2, <2>3 DEF ReceiveMessage, windowVars
<1>13. ASSUME NEW r \in Ranks, EnterAllgather(r) PROVE TypeOK'
  <2>1. PICK t \in {e.ts : e \in m_events[r]} \cup {MaxTime} :
          lMsg' = [lMsg EXCEPT ![r] =
            [rxCount |-> g_rxCount[r], txCount |-> g_txCount[r],
             isFinished |-> IsLocalFinished(r), smallestTime |-> t]]
    BY <1>13 DEF EnterAllgather
  <2>2. t \in Nat BY DEF Event
  <2>3. IsLocalFinished(r) \in BOOLEAN BY DEF IsLocalFinished
  <2>4. lMsg' \in [Ranks -> Lbts] BY <2>1, <2>2, <2>3 DEF Lbts
  <2>5. pc' \in [Ranks -> ProgramPoints] BY <1>13 DEF EnterAllgather, ProgramPoints
  <2> QED BY <1>13, <2>4, <2>5 DEF EnterAllgather, queueVars, windowVars, mpiVars
<1>14. CASE Allgather
  <2>1. PICK smallestTime \in {lMsg[r].smallestTime : r \in Ranks} :
          \/ /\ m_grantedTime' = [r \in Ranks |->
                  IF m_lookAhead[r] = MaxTime THEN MaxTime
                  ELSE Wrap(smallestTime + m_lookAhead[r])]
             /\ window' = smallestTime
          \/ UNCHANGED <<m_grantedTime, window>>
    BY <1>14 DEF Allgather
  <2>2. smallestTime \in Nat BY DEF Lbts
  <2>3. m_grantedTime' \in [Ranks -> Int] /\ window' \in Nat BY <2>1, <2>2 DEF Wrap
  <2>4. PICK finished \in BOOLEAN :
          /\ m_globalFinished' = [r \in Ranks |-> finished]
          /\ pc' = [r \in Ranks |-> IF finished THEN "program" ELSE "loop"]
    BY <1>14 DEF Allgather
  <2>5. m_globalFinished' \in [Ranks -> BOOLEAN] BY <2>4
  <2>6. pc' \in [Ranks -> ProgramPoints] BY <2>4 DEF ProgramPoints
  <2>7. lMsg' \in [Ranks -> Lbts] BY <1>14 DEF Allgather, Lbts, NoLbts
  <2> QED BY <1>14, <2>3, <2>5, <2>6, <2>7 DEF Allgather, queueVars, mpiVars
<1>15. CASE UNCHANGED vars
  BY <1>15 DEF vars, queueVars, windowVars, mpiVars
<1> QED
  BY <1>1, <1>2, <1>3, <1>4, <1>5, <1>6, <1>7, <1>8, <1>9, <1>10, <1>11, <1>12, <1>13,
     <1>14, <1>15 DEF Next, UserCall, RankStep, Terminated

(* Type correctness of the parallel engine, for any number of Runs. *)
THEOREM TypeCorrect == Spec => []TypeOK
BY InitType, NextType, PTL DEF Spec

-----------------------------------------------------------------------------
LEMMA InitIInv == Init => IInv
<1> SUFFICES ASSUME Init PROVE IInv
  OBVIOUS
<1> USE ConstantsAssumption DEF Init
<1>1. TypeOK BY InitType
<1>2. PhaseInv BY DEF PhaseInv, Before, InFlight
<1>3. WindowInv BY DEF WindowInv
<1>4. QueueInv BY DEF QueueInv
<1>5. MessageInv /\ CountInv BY DEF MessageInv, CountInv, InFlight
<1>6. LbtsInv BY DEF LbtsInv
<1>7. FinishInv /\ FinishedIsGlobal BY DEF FinishInv, FinishedIsGlobal
<1> QED BY <1>1, <1>2, <1>3, <1>4, <1>5, <1>6, <1>7 DEF IInv

(* When the gathered counts agree, nothing is in flight: every received     *)
(* message was sent, and finite sets of the same size, one within the       *)
(* other, are equal.                                                        *)
LEMMA NoTransients ==
  ASSUME TypeOK, CountInv,
         Cardinality(UNION {g_rxCount[r] : r \in Ranks}) =
           Cardinality(UNION {g_txCount[r] : r \in Ranks})
  PROVE  InFlight = {}
<1> DEFINE rx == UNION {g_rxCount[r] : r \in Ranks}
           tx == UNION {g_txCount[r] : r \in Ranks}
<1>1. rx \subseteq tx BY DEF CountInv
<1>2. tx \subseteq Ids BY DEF TypeOK
<1>3. IsFiniteSet(Ids) BY FS_Interval, ConstantsAssumption DEF Ids
<1>4. IsFiniteSet(tx) BY <1>2, <1>3, FS_Subset
<1>5. rx = tx BY <1>1, <1>4, FS_Subset
<1>6. ASSUME NEW m \in InFlight PROVE FALSE
  <2>1. m.id \in tx BY DEF CountInv
  <2>2. m.id \notin rx BY DEF CountInv
  <2> QED BY <1>5, <2>1, <2>2
<1> QED BY <1>6

(* What the all-gather computes opens no window before the last one. *)
LEMMA SmallestIsLater ==
  ASSUME IInv, NEW r \in Ranks, pc[r] = "gather"
  PROVE  window <= lMsg[r].smallestTime /\ lMsg[r].smallestTime <= MaxTime
<1>1. IsNextTs(r, lMsg[r].smallestTime) BY DEF IInv, LbtsInv
<1>2. CASE IsLocalFinished(r)
  BY <1>1, <1>2, ConstantsAssumption DEF IsNextTs, IInv, WindowInv
<1>3. CASE ~IsLocalFinished(r)
  <2>1. PICK e \in m_events[r] : e.ts = lMsg[r].smallestTime
    BY <1>1, <1>3 DEF IsNextTs
  <2>2. ~m_stop[r] BY <1>3 DEF IsLocalFinished
  <2>3. e.ts \in Nat BY DEF IInv, TypeOK, Event
  <2> QED BY <2>1, <2>2, <2>3, ConstantsAssumption DEF IInv, QueueInv
<1> QED BY <1>2, <1>3

(* Every step preserves the invariant. *)
LEMMA NextIInv == ASSUME SingleRun, IInv, [Next]_vars PROVE IInv'
<1>t. TypeOK /\ TypeOK' BY NextType DEF IInv
<1>inv. PhaseInv /\ WindowInv /\ QueueInv /\ MessageInv /\ CountInv /\ LbtsInv
  BY DEF IInv
<1> DEFINE Rest == /\ PhaseInv
                   /\ WindowInv
                   /\ QueueInv
                   /\ MessageInv
                   /\ CountInv
                   /\ LbtsInv
                   /\ FinishInv
                   /\ FinishedIsGlobal
<1> SUFFICES Rest'
  BY <1>t DEF IInv
<1>b. /\ MaxTime \in Nat /\ Horizon \in Nat /\ 0 < Horizon /\ Horizon < MaxTime
      /\ window \in Nat /\ window' \in Nat /\ nextId \in Nat
      /\ \A r \in Ranks : /\ m_currentTs[r] \in Nat /\ m_lookAhead[r] \in Nat
                          /\ m_grantedTime[r] \in Int /\ runs[r] \in {0, 1}
                          /\ \A e \in m_events[r] : e.ts \in Nat
      /\ \A m \in InFlight : m.rxTime \in Nat /\ m.to \in Ranks /\ m.id \in Nat
      /\ \A link \in Links : /\ link.delay \in Nat /\ link.ends \subseteq Ranks
                             /\ Horizon + link.delay <= MaxTime
  BY <1>t, ConstantsAssumption DEF TypeOK, Event, Message, InFlight, Ids, SingleRun
<1>f. ASSUME \A r \in Ranks : ~m_globalFinished'[r]
      PROVE  FinishInv' /\ FinishedIsGlobal'
  BY <1>f DEF FinishInv, FinishedIsGlobal
<1>n. ASSUME NEW r \in Ranks, pc[r] # "program" \/ runs[r] = 0,
             UNCHANGED m_globalFinished
      PROVE  FinishInv' /\ FinishedIsGlobal'
  <2>1. ~After BY <1>n DEF After
  <2> QED BY <1>f, <1>n, <2>1 DEF IInv, FinishInv
<1>l. ASSUME NEW r \in Ranks, pc'[r] # "gather",
             \A s \in Ranks \ {r} : /\ pc'[s] = pc[s] /\ lMsg'[s] = lMsg[s]
                                    /\ m_events'[s] = m_events[s] /\ m_stop'[s] = m_stop[s]
                                    /\ g_rxCount'[s] = g_rxCount[s]
                                    /\ g_txCount'[s] = g_txCount[s]
      PROVE  LbtsInv'
  BY <1>l, <1>inv DEF LbtsInv, IsNextTs, IsLocalFinished
<1>1. ASSUME NEW r \in Ranks, NEW delay \in Delays, Schedule(r, delay) PROVE Rest'
  <2> USE DEF Schedule, Insert, windowVars, mpiVars
  <2>0. delay \in Nat /\ pc[r] # "gather" /\ (pc[r] # "program" \/ runs[r] = 0)
    BY <1>1, <1>b, ConstantsAssumption DEF InUserCode, SingleRun
  <2>1. PhaseInv' BY <1>1, <1>inv DEF PhaseInv, Before, Running, After, InFlight
  <2>2. WindowInv' BY <1>1, <1>inv DEF WindowInv
  <2>3. QueueInv'
    <3> DEFINE new == [ts |-> m_currentTs[r] + delay, uid |-> m_uid[r]]
    <3>1. ~m_stop[r] => window <= m_currentTs[r]
      <4>1. CASE pc[r] = "event" BY <4>1, <1>inv DEF WindowInv
      <4>2. CASE pc[r] = "program"
        BY <1>b, <2>0, <4>2, <1>inv DEF PhaseInv, Before, Running, After
      <4> QED BY <1>1, <4>1, <4>2 DEF InUserCode
    <3>2. ASSUME NEW s \in Ranks, NEW e \in m_events'[s]
          PROVE  /\ m_currentTs[s] <= e.ts /\ e.ts < Horizon
                 /\ ~m_stop[s] => window <= e.ts
      <4>1. CASE e \in m_events[s] BY <4>1, <1>inv DEF QueueInv
      <4>2. CASE s = r /\ e = new BY <1>1, <1>b, <2>0, <3>1, <4>2
      <4> QED BY <1>1, <1>t, <3>2, <4>1, <4>2 DEF TypeOK
    <3> QED BY <1>1, <3>2 DEF QueueInv
  <2>4. MessageInv' BY <1>1, <1>inv DEF MessageInv, InFlight
  <2>5. CountInv' BY <1>1, <1>b, <1>t, <1>inv DEF CountInv, InFlight, TypeOK, Ids
  <2>6. LbtsInv' BY <1>1, <1>l, <1>t, <2>0 DEF TypeOK
  <2>7. FinishInv' /\ FinishedIsGlobal' BY <1>1, <1>n, <2>0
  <2> QED BY <2>1, <2>2, <2>3, <2>4, <2>5, <2>6, <2>7
<1>2. ASSUME NEW r \in Ranks, NEW e \in m_events[r], Remove(r, e) PROVE Rest'
  <2> USE DEF Remove, windowVars, mpiVars
  <2>0. pc[r] # "gather" /\ (pc[r] # "program" \/ runs[r] = 0)
    BY <1>2, <1>b DEF InUserCode, SingleRun
  <2>1. PhaseInv' BY <1>2, <1>inv DEF PhaseInv, Before, Running, After, InFlight
  <2>2. WindowInv' BY <1>2, <1>inv DEF WindowInv
  <2>3. QueueInv'
    <3>1. \A s \in Ranks : m_events'[s] \subseteq m_events[s] BY <1>2, <1>t DEF TypeOK
    <3> QED BY <1>2, <3>1, <1>inv DEF QueueInv
  <2>4. MessageInv' BY <1>2, <1>inv DEF MessageInv, InFlight
  <2>5. CountInv' BY <1>2, <1>inv DEF CountInv, InFlight
  <2>6. LbtsInv' BY <1>2, <1>l, <1>t, <2>0 DEF TypeOK
  <2>7. FinishInv' /\ FinishedIsGlobal' BY <1>2, <1>n, <2>0
  <2> QED BY <2>1, <2>2, <2>3, <2>4, <2>5, <2>6, <2>7
<1>3. ASSUME NEW r \in Ranks, Stop(r) PROVE Rest'
  <2> USE DEF Stop, queueVars, windowVars, mpiVars
  <2>0. pc[r] # "gather" /\ (pc[r] # "program" \/ runs[r] = 0)
    BY <1>3, <1>b DEF InUserCode, SingleRun
  <2>1. PhaseInv' BY <1>3, <1>inv DEF PhaseInv, Before, Running, After, InFlight
  <2>2. WindowInv' BY <1>3, <1>inv DEF WindowInv
  <2>3. QueueInv'
    <3>1. \A s \in Ranks : ~m_stop'[s] => ~m_stop[s] BY <1>3, <1>t DEF TypeOK
    <3> QED BY <1>3, <3>1, <1>inv DEF QueueInv
  <2>4. MessageInv' BY <1>3, <1>inv DEF MessageInv, InFlight
  <2>5. CountInv' BY <1>3, <1>inv DEF CountInv, InFlight
  <2>6. LbtsInv' BY <1>3, <1>l, <1>t, <2>0 DEF TypeOK
  <2>7. FinishInv' /\ FinishedIsGlobal' BY <1>3, <1>n, <2>0
  <2> QED BY <2>1, <2>2, <2>3, <2>4, <2>5, <2>6, <2>7
<1>4. ASSUME NEW r \in Ranks, NEW lookAhead \in LookAheads, BoundLookAhead(r, lookAhead)
      PROVE  Rest'
  <2> USE DEF BoundLookAhead, queueVars, mpiVars
  <2>0. pc[r] = "program" /\ runs[r] = 0 BY <1>4, <1>b DEF SingleRun
  <2>1. PhaseInv' BY <1>4, <1>inv DEF PhaseInv, Before, Running, After, InFlight
  <2>2. WindowInv'
    <3>1. lookAhead \in Nat /\ Horizon + lookAhead <= MaxTime BY ConstantsAssumption
    <3>2. \A s \in Ranks : s # r => m_lookAhead'[s] = m_lookAhead[s]
      BY <1>4, <1>t DEF TypeOK
    <3>3. m_lookAhead'[r] = m_lookAhead[r] \/ m_lookAhead'[r] = lookAhead
      BY <1>4, <1>t DEF TypeOK
    <3> QED BY <1>4, <1>inv, <2>0, <3>1, <3>2, <3>3 DEF WindowInv
  <2>3. QueueInv' BY <1>4, <1>inv DEF QueueInv
  <2>4. MessageInv' BY <1>4, <1>inv DEF MessageInv, InFlight
  <2>5. CountInv' BY <1>4, <1>inv DEF CountInv, InFlight
  <2>6. LbtsInv' BY <1>4, <1>l, <1>t, <2>0 DEF TypeOK
  <2>7. FinishInv' /\ FinishedIsGlobal' BY <1>4, <1>n, <2>0
  <2> QED BY <2>1, <2>2, <2>3, <2>4, <2>5, <2>6, <2>7
<1>5. ASSUME NEW r \in Ranks, NEW link \in Links, NEW txTime \in TxTimes,
             SendPacket(r, link, txTime)
      PROVE  Rest'
  <2> USE DEF SendPacket, ReceiveTime, windowVars
  <2>0. pc[r] # "gather" /\ (pc[r] # "program" \/ runs[r] = 0)
    BY <1>5, <1>b DEF InUserCode, SingleRun
  <2>r. window <= m_currentTs[r]
    <3>1. CASE pc[r] = "event" BY <3>1, <1>inv DEF WindowInv
    <3>2. CASE pc[r] = "program"
      BY <1>b, <2>0, <3>2, <1>inv DEF PhaseInv, Before, Running, After
    <3> QED BY <1>5, <3>1, <3>2 DEF InUserCode
  <2> DEFINE rxTime == m_currentTs[r] + txTime + link.delay
  <2>p. PICK to \in link.ends :
          network' = network \cup {[id |-> nextId, to |-> to, rxTime |-> rxTime]}
    BY <1>5
  <2> DEFINE new == [id |-> nextId, to |-> to, rxTime |-> rxTime]
  <2>i. InFlight' = InFlight \cup {new} BY <1>5, <2>p DEF InFlight
  <2>c. to \in Ranks /\ link \in LinksOf(to) /\ txTime \in Nat
    BY <1>b, ConstantsAssumption DEF LinksOf
  <2>1. PhaseInv' BY <1>5, <1>inv DEF PhaseInv, Before, Running, After
  <2>2. WindowInv' BY <1>5, <1>inv DEF WindowInv
  <2>3. QueueInv' BY <1>5, <1>inv DEF QueueInv
  <2>4. MessageInv'
    <3>2. window + link.delay <= rxTime /\ rxTime < Horizon BY <1>5, <1>b, <2>c, <2>r
    <3> QED BY <1>5, <1>inv, <2>c, <2>i, <3>2 DEF MessageInv
  <2>5. CountInv'
    <3>1. /\ nextId' = nextId + 1 /\ g_rxCount' = g_rxCount
          /\ nextId \in g_txCount'[r]
          /\ \A s \in Ranks : g_txCount[s] \subseteq g_txCount'[s]
          /\ \A s \in Ranks : \A id \in g_txCount'[s] : id \in g_txCount[s] \/ id = nextId
      BY <1>5, <1>t DEF TypeOK
    <3>2. \A s \in Ranks : nextId \notin g_rxCount[s]
      BY <1>b, <1>inv DEF CountInv
    <3>3. \A m \in InFlight' : /\ m.id < nextId'
                               /\ \E s \in Ranks : m.id \in g_txCount'[s]
                               /\ \A s \in Ranks : m.id \notin g_rxCount'[s]
      BY <1>b, <1>inv, <2>i, <3>1, <3>2 DEF CountInv
    <3>4. \A m, n \in InFlight' : m.id = n.id => m = n
      BY <1>b, <1>inv, <2>i DEF CountInv
    <3>5. \A s \in Ranks : \A id \in g_txCount'[s] : id < nextId'
      <4> SUFFICES ASSUME NEW s \in Ranks, NEW id \in g_txCount'[s] PROVE id < nextId + 1
        BY <3>1
      <4>1. id \in Nat BY <1>t DEF TypeOK, Ids
      <4>2. id < nextId \/ id = nextId BY <1>inv, <3>1 DEF CountInv
      <4> QED BY <1>b, <4>1, <4>2
    <3>7. (network \cap arrived = {})'
      <4>1. new \notin arrived BY <1>b, <1>inv DEF CountInv, InFlight
      <4> QED BY <1>5, <1>inv, <2>p, <4>1 DEF CountInv
    <3>6. \A s \in Ranks : \A id \in g_rxCount'[s] : \E t \in Ranks : id \in g_txCount'[t]
      BY <1>inv, <3>1 DEF CountInv
    <3> QED BY <3>3, <3>4, <3>5, <3>6, <3>7 DEF CountInv
  <2>6. LbtsInv' BY <1>5, <1>l, <1>t, <2>0 DEF TypeOK
  <2>7. FinishInv' /\ FinishedIsGlobal' BY <1>5, <1>n, <2>0
  <2> QED BY <2>1, <2>2, <2>3, <2>4, <2>5, <2>6, <2>7
<1>6. ASSUME NEW m \in network, Arrive(m) PROVE Rest'
  <2> USE DEF Arrive, queueVars, windowVars
  <2>i. InFlight' = InFlight BY <1>6 DEF InFlight
  <2>1. PhaseInv' BY <1>6, <1>inv, <2>i DEF PhaseInv, Before, Running, After
  <2>2. WindowInv' BY <1>6, <1>inv DEF WindowInv
  <2>3. QueueInv' BY <1>6, <1>inv DEF QueueInv
  <2>4. MessageInv' BY <1>6, <1>inv, <2>i DEF MessageInv
  <2>5. CountInv'
    <3>1. (network \cap arrived = {})' BY <1>6, <1>inv DEF CountInv
    <3> QED BY <1>6, <1>inv, <2>i, <3>1 DEF CountInv
  <2>6. LbtsInv' BY <1>6, <1>inv DEF LbtsInv, IsNextTs, IsLocalFinished
  <2>7. FinishInv' /\ FinishedIsGlobal' BY <1>6, <1>f DEF IInv, FinishedIsGlobal
  <2> QED BY <2>1, <2>2, <2>3, <2>4, <2>5, <2>6, <2>7
<1>7. ASSUME NEW r \in Ranks, Run(r) PROVE Rest'
  <2> USE DEF Run, queueVars, mpiVars
  <2>0. pc[r] = "program" /\ runs[r] = 0 BY <1>7, <1>b DEF SingleRun
  <2>b. Before BY <1>inv, <2>0 DEF PhaseInv, Running, After
  <2>p. PICK lookAhead \in Nat :
          /\ m_lookAhead' = [m_lookAhead EXCEPT ![r] = lookAhead]
          /\ m_grantedTime' = [m_grantedTime EXCEPT ![r] = lookAhead]
          /\ \A link \in LinksOf(r) : lookAhead <= link.delay
          /\ lookAhead = MaxTime \/ Horizon + lookAhead <= MaxTime
    <3> DEFINE delays == {m_lookAhead[r]} \cup {link.delay : link \in LinksOf(r)}
    <3>1. \A d \in delays : d \in Nat BY <1>b DEF LinksOf
    <3>2. PICK lookAhead \in IF Cardinality(Ranks) <= 1 THEN {0} ELSE delays :
            /\ Cardinality(Ranks) > 1 => \A d \in delays : lookAhead <= d
            /\ m_lookAhead' = [m_lookAhead EXCEPT ![r] = lookAhead]
            /\ m_grantedTime' = [m_grantedTime EXCEPT ![r] = lookAhead]
      BY <1>7
    <3>3. lookAhead \in Nat BY <3>1, <3>2
    <3>4. \A link \in LinksOf(r) : lookAhead <= link.delay
      <4>1. \A link \in LinksOf(r) : link.delay \in delays OBVIOUS
      <4>2. CASE Cardinality(Ranks) <= 1 BY <3>1, <3>2, <4>1, <4>2
      <4>3. CASE ~(Cardinality(Ranks) <= 1) BY <3>2, <4>1, <4>3, RanksFinite DEF LinksOf
      <4> QED BY <4>2, <4>3
    <3>5. lookAhead = MaxTime \/ Horizon + lookAhead <= MaxTime
      <4>1. CASE lookAhead = 0 BY <1>b, <4>1
      <4>2. CASE lookAhead = m_lookAhead[r] BY <1>inv, <4>2 DEF WindowInv
      <4>3. CASE lookAhead \in {link.delay : link \in LinksOf(r)} BY <1>b, <4>3 DEF LinksOf
      <4> QED BY <3>2, <4>1, <4>2, <4>3
    <3> QED BY <3>2, <3>3, <3>4, <3>5
  <2>1. PhaseInv'
    <3>1. Before' BY <1>7, <1>t, <2>b DEF Before, TypeOK
    <3>2. \A s \in Ranks : pc'[s] # "program" => runs'[s] = 1
      BY <1>7, <1>t, <1>inv, <2>0 DEF PhaseInv, TypeOK
    <3> QED BY <1>7, <1>inv, <2>b, <3>1, <3>2 DEF PhaseInv, InFlight
  <2>2. WindowInv'
    <3>1. window = 0 /\ \A s \in Ranks : m_currentTs[s] = 0 BY <1>inv, <2>b DEF PhaseInv
    <3> SUFFICES ASSUME NEW s \in Ranks
                 PROVE  /\ runs'[s] = 1 => \A link \in LinksOf(s) : m_lookAhead'[s] <= link.delay
                        /\ runs'[s] = 1 => m_grantedTime'[s] <= window + m_lookAhead'[s]
                        /\ runs'[s] = 1 /\ m_lookAhead'[s] = MaxTime => m_grantedTime'[s] = MaxTime
                        /\ m_lookAhead'[s] = MaxTime \/ Horizon + m_lookAhead'[s] <= MaxTime
                        /\ runs'[s] = 1 => m_currentTs[s] <= window + m_lookAhead'[s]
                        /\ pc'[s] = "event" => window <= m_currentTs[s]
      BY <1>7, <1>inv, <1>b DEF WindowInv
    <3>2. CASE s = r BY <1>7, <1>t, <1>b, <2>p, <3>1, <3>2 DEF TypeOK
    <3>3. CASE s # r BY <1>7, <1>t, <1>b, <1>inv, <2>p, <3>1, <3>3 DEF TypeOK, WindowInv
    <3> QED BY <3>2, <3>3
  <2>3. QueueInv' BY <1>7, <1>inv DEF QueueInv
  <2>4. MessageInv' BY <1>7, <1>inv DEF MessageInv, InFlight
  <2>5. CountInv' BY <1>7, <1>inv DEF CountInv, InFlight
  <2>6. LbtsInv' BY <1>7, <1>l, <1>t DEF TypeOK
  <2>7. FinishInv' /\ FinishedIsGlobal' BY <1>7, <1>n, <2>0
  <2> QED BY <2>1, <2>2, <2>3, <2>4, <2>5, <2>6, <2>7
<1>8. CASE AllReduce
  <2> USE DEF AllReduce, BeginLoop, queueVars, mpiVars
  <2>b. Before /\ \A r \in Ranks : runs[r] = 1
    BY <1>8, <1>inv DEF PhaseInv, Before
  <2>0. window = 0 /\ \A r \in Ranks : m_currentTs[r] = 0
    BY <1>inv, <2>b DEF PhaseInv
  <2>p. PICK none \in SUBSET Ranks, recvbuf \in Nat :
          /\ \A r \in none : m_lookAhead[r] = MaxTime
          /\ Horizon + recvbuf <= MaxTime
          /\ m_lookAhead' = [r \in Ranks |-> IF r \in none THEN recvbuf ELSE m_lookAhead[r]]
          /\ m_grantedTime' = [r \in Ranks |-> IF r \in none THEN recvbuf ELSE m_grantedTime[r]]
    <3> DEFINE sendbuf(r) == IF m_lookAhead[r] = MaxTime THEN 0 ELSE m_lookAhead[r]
    <3>1. PICK recvbuf \in {sendbuf(r) : r \in Ranks} :
            LET none == {r \in Ranks : m_lookAhead[r] = MaxTime /\ recvbuf # 0}
            IN /\ m_lookAhead' = [r \in Ranks |->
                    IF r \in none THEN recvbuf ELSE m_lookAhead[r]]
               /\ m_grantedTime' = [r \in Ranks |->
                    IF r \in none THEN recvbuf ELSE m_grantedTime[r]]
      BY <1>8
    <3>2. recvbuf \in Nat /\ Horizon + recvbuf <= MaxTime BY <1>b, <1>inv DEF WindowInv
    <3> QED BY <3>1, <3>2
  <2>1. PhaseInv'
    <3>1. Running' /\ ~Before' BY <1>8, ConstantsAssumption DEF Running, Before
    <3> QED BY <1>8, <2>b, <3>1 DEF PhaseInv
  <2>2. WindowInv'
    <3> SUFFICES ASSUME NEW r \in Ranks
                 PROVE  /\ \A link \in LinksOf(r) : m_lookAhead'[r] <= link.delay
                        /\ m_grantedTime'[r] <= m_lookAhead'[r]
                        /\ m_lookAhead'[r] = MaxTime => m_grantedTime'[r] = MaxTime
                        /\ m_lookAhead'[r] = MaxTime \/ Horizon + m_lookAhead'[r] <= MaxTime
                        /\ 0 <= m_lookAhead'[r]
      <4>1. /\ UNCHANGED <<window, m_currentTs>>
            /\ \A r \in Ranks : pc'[r] # "event"
            /\ \A r \in Ranks : m_lookAhead'[r] \in Nat /\ m_grantedTime'[r] \in Int
        BY <1>8, <1>t DEF TypeOK
      <4> QED BY <1>b, <2>0, <4>1 DEF WindowInv
    <3>1. CASE r \in none
      <4>1. ASSUME NEW link \in LinksOf(r) PROVE FALSE
        <5>1. link.delay \in Nat /\ link.delay < MaxTime BY <1>b DEF LinksOf
        <5> QED BY <1>b, <1>inv, <2>b, <2>p, <3>1, <5>1 DEF WindowInv
      <4> QED BY <2>p, <3>1, <4>1
    <3>2. CASE r \notin none
      BY <1>b, <1>inv, <2>b, <2>0, <2>p, <3>2 DEF WindowInv
    <3> QED BY <3>1, <3>2
  <2>3. QueueInv' BY <1>8, <1>b, <1>inv, <2>0 DEF QueueInv
  <2>4. MessageInv' /\ CountInv'
    BY <1>8, <1>inv DEF MessageInv, CountInv, InFlight
  <2>5. LbtsInv' BY <1>8 DEF LbtsInv
  <2>6. FinishInv' /\ FinishedIsGlobal' BY <1>8, <1>f
  <2> QED BY <2>1, <2>2, <2>3, <2>4, <2>5, <2>6
<1>9. ASSUME NEW r \in Ranks, ProcessOneEvent(r) PROVE Rest'
  <2> USE DEF ProcessOneEvent, windowVars, mpiVars
  <2>r. Running /\ \A s \in Ranks : runs[s] = 1
    BY <1>9, <1>inv DEF PhaseInv, Before, Running, After
  <2>p. PICK next \in m_events[r] :
          /\ IsNext(r, next)
          /\ m_events' = [m_events EXCEPT ![r] = @ \ {next}]
          /\ m_currentTs' = [m_currentTs EXCEPT ![r] = next.ts]
    BY <1>9
  <2>n. /\ \A e \in m_events[r] : next.ts <= e.ts
        /\ next.ts \in Nat /\ next.ts < Horizon /\ m_currentTs[r] <= next.ts
        /\ window <= next.ts /\ next.ts <= m_grantedTime[r]
    <3>1. \A e \in m_events[r] : next.ts <= e.ts BY <1>b, <2>p DEF IsNext
    <3>2. ~m_stop[r] BY <1>9 DEF MayProcess, IsLocalFinished
    <3>3. next.ts <= m_grantedTime[r] BY <1>9, <1>b, <3>1 DEF MayProcess
    <3> QED BY <1>b, <1>inv, <3>1, <3>2, <3>3 DEF QueueInv
  <2>1. PhaseInv'
    <3>1. Running' /\ ~Before'
      BY <1>9, <1>t, <2>r, ConstantsAssumption DEF Running, Before, TypeOK
    <3>2. \A s \in Ranks : runs'[s] = 1 BY <1>9, <2>r
    <3> QED BY <3>1, <3>2 DEF PhaseInv
  <2>2. WindowInv'
    <3>1. UNCHANGED <<window, runs, m_lookAhead, m_grantedTime>> BY <1>9
    <3>2. \A s \in Ranks : s # r => m_currentTs'[s] = m_currentTs[s] /\ pc'[s] = pc[s]
      BY <1>9, <1>t, <2>p DEF TypeOK
    <3>3. m_currentTs'[r] = next.ts BY <1>t, <2>p DEF TypeOK
    <3> QED BY <1>b, <1>inv, <2>n, <3>1, <3>2, <3>3 DEF WindowInv
  <2>3. QueueInv'
    <3>1. UNCHANGED <<window, m_stop>> BY <1>9
    <3>2. \A s \in Ranks : s # r => m_currentTs'[s] = m_currentTs[s] /\ m_events'[s] = m_events[s]
      BY <1>t, <2>p DEF TypeOK
    <3>3. m_currentTs'[r] = next.ts /\ m_events'[r] \subseteq m_events[r]
      BY <1>t, <2>p DEF TypeOK
    <3> QED BY <1>inv, <2>n, <3>1, <3>2, <3>3 DEF QueueInv
  <2>4. MessageInv' BY <1>9, <1>inv DEF MessageInv, InFlight
  <2>5. CountInv' BY <1>9, <1>inv DEF CountInv, InFlight
  <2>6. LbtsInv' BY <1>9, <1>l, <1>t, <2>p DEF TypeOK
  <2>7. FinishInv' /\ FinishedIsGlobal' BY <1>9, <1>n
  <2> QED BY <2>1, <2>2, <2>3, <2>4, <2>5, <2>6, <2>7
<1>10. ASSUME NEW r \in Ranks, EventReturn(r) \/ StartReceive(r) PROVE Rest'
  <2> USE DEF EventReturn, StartReceive, queueVars, windowVars, mpiVars
  <2>r. Running /\ \A s \in Ranks : runs[s] = 1
    BY <1>10, <1>inv DEF PhaseInv, Before, Running, After
  <2>p. /\ pc'[r] \in {"loop", "receive"} /\ pc[r] \in {"loop", "event"}
        /\ \A s \in Ranks : s # r => pc'[s] = pc[s]
    BY <1>10, <1>t DEF TypeOK
  <2>1. PhaseInv'
    <3>1. Running' /\ ~Before' BY <2>p, <2>r, ConstantsAssumption DEF Running, Before
    <3>2. \A s \in Ranks : runs'[s] = 1 BY <1>10, <2>r
    <3> QED BY <3>1, <3>2 DEF PhaseInv
  <2>2. WindowInv' BY <1>10, <1>inv, <2>p DEF WindowInv
  <2>3. QueueInv' BY <1>10, <1>inv DEF QueueInv
  <2>4. MessageInv' BY <1>10, <1>inv DEF MessageInv, InFlight
  <2>5. CountInv' BY <1>10, <1>inv DEF CountInv, InFlight
  <2>6. LbtsInv' BY <1>10, <1>l, <2>p
  <2>7. FinishInv' /\ FinishedIsGlobal' BY <1>10, <1>n, <2>p
  <2> QED BY <2>1, <2>2, <2>3, <2>4, <2>5, <2>6, <2>7
<1>11. ASSUME NEW r \in Ranks, NEW m \in arrived, ReceiveMessage(r, m) PROVE Rest'
  <2> USE DEF ReceiveMessage, Insert, windowVars
  <2>r. Running /\ \A s \in Ranks : runs[s] = 1
    BY <1>11, <1>inv DEF PhaseInv, Before, Running, After
  <2>i. InFlight' \subseteq InFlight /\ m \in InFlight BY <1>11 DEF InFlight
  <2>d. m \notin InFlight'
    <3>1. m \notin network BY <1>inv DEF CountInv
    <3> QED BY <1>11, <3>1 DEF InFlight
  <2>1. PhaseInv'
    <3>1. Running' /\ ~Before' BY <1>11, <2>r, ConstantsAssumption DEF Running, Before
    <3>2. \A s \in Ranks : runs'[s] = 1 BY <1>11, <2>r
    <3> QED BY <3>1, <3>2 DEF PhaseInv
  <2>2. WindowInv' BY <1>11, <1>inv DEF WindowInv
  <2>3. QueueInv'
    <3>1. /\ m_currentTs[r] <= m.rxTime /\ window <= m.rxTime /\ m.rxTime < Horizon
      <4>1. PICK link \in LinksOf(r) : window + link.delay <= m.rxTime
        BY <1>11, <1>inv, <2>i DEF MessageInv
      <4>2. m.rxTime \in Nat /\ link.delay \in Nat BY <1>b, <2>i DEF LinksOf
      <4>3. m_currentTs[r] <= window + m_lookAhead[r] /\ m_lookAhead[r] <= link.delay
        BY <1>inv, <2>r DEF WindowInv
      <4> QED BY <1>b, <1>inv, <2>i, <4>1, <4>2, <4>3 DEF MessageInv
    <3> DEFINE new == [ts |-> m.rxTime, uid |-> m_uid[r]]
    <3>2. ASSUME NEW s \in Ranks, NEW e \in m_events'[s]
          PROVE  /\ m_currentTs[s] <= e.ts /\ e.ts < Horizon
                 /\ ~m_stop[s] => window <= e.ts
      <4>1. CASE e \in m_events[s] BY <4>1, <1>inv DEF QueueInv
      <4>2. CASE s = r /\ e = new BY <3>1, <4>2
      <4> QED BY <1>11, <1>t, <3>2, <4>1, <4>2 DEF TypeOK
    <3> QED BY <1>11, <3>2 DEF QueueInv
  <2>4. MessageInv' BY <1>11, <1>inv, <2>i DEF MessageInv
  <2>5. CountInv'
    <3>1. /\ UNCHANGED <<nextId, g_txCount>>
          /\ \A s \in Ranks : \A id \in g_rxCount'[s] : id \in g_rxCount[s] \/ id = m.id
      BY <1>11, <1>t DEF TypeOK
    <3>2. \A n \in InFlight' : n.id # m.id BY <1>inv, <2>i, <2>d DEF CountInv
    <3>3. \E s \in Ranks : m.id \in g_txCount[s] BY <1>inv, <2>i DEF CountInv
    <3>4. (network \cap arrived = {})' BY <1>11, <1>inv DEF CountInv
    <3> QED BY <1>inv, <2>i, <3>1, <3>2, <3>3, <3>4 DEF CountInv
  <2>6. LbtsInv' BY <1>11, <1>l, <1>t DEF TypeOK
  <2>7. FinishInv' /\ FinishedIsGlobal' BY <1>11, <1>n
  <2> QED BY <2>1, <2>2, <2>3, <2>4, <2>5, <2>6, <2>7
<1>12. ASSUME NEW r \in Ranks, EnterAllgather(r) PROVE Rest'
  <2> USE DEF EnterAllgather, queueVars, windowVars, mpiVars
  <2>r. Running /\ \A s \in Ranks : runs[s] = 1
    BY <1>12, <1>inv DEF PhaseInv, Before, Running, After
  <2>p. /\ pc'[r] = "gather"
        /\ \A s \in Ranks : s # r => pc'[s] = pc[s]
    BY <1>12, <1>t DEF TypeOK
  <2>1. PhaseInv'
    <3>1. Running' /\ ~Before' BY <2>p, <2>r, ConstantsAssumption DEF Running, Before
    <3>2. \A s \in Ranks : runs'[s] = 1 BY <1>12, <2>r
    <3> QED BY <3>1, <3>2 DEF PhaseInv
  <2>2. WindowInv' BY <1>12, <1>inv, <2>p DEF WindowInv
  <2>3. QueueInv' BY <1>12, <1>inv DEF QueueInv
  <2>4. MessageInv' BY <1>12, <1>inv DEF MessageInv, InFlight
  <2>5. CountInv' BY <1>12, <1>inv DEF CountInv, InFlight
  <2>6. LbtsInv'
    <3>1. PICK t : /\ IsNextTs(r, t)
                   /\ lMsg' = [lMsg EXCEPT ![r] =
                        [rxCount |-> g_rxCount[r], txCount |-> g_txCount[r],
                         isFinished |-> IsLocalFinished(r), smallestTime |-> t]]
      BY <1>12
    <3>2. /\ lMsg'[r].rxCount = g_rxCount[r] /\ lMsg'[r].txCount = g_txCount[r]
          /\ lMsg'[r].isFinished = IsLocalFinished(r) /\ lMsg'[r].smallestTime = t
          /\ \A s \in Ranks : s # r => lMsg'[s] = lMsg[s]
      BY <1>t, <3>1 DEF TypeOK
    <3>3. \A s \in Ranks : (IsLocalFinished(s))' = IsLocalFinished(s)
      BY <1>12 DEF IsLocalFinished
    <3>4. \A s \in Ranks : \A u : IsNextTs(s, u) => (IsNextTs(s, u))'
      BY <1>12, <3>3 DEF IsNextTs
    <3>5. ASSUME NEW s \in Ranks, pc'[s] = "gather"
          PROVE  /\ lMsg'[s].rxCount = g_rxCount'[s] /\ lMsg'[s].txCount = g_txCount'[s]
                 /\ lMsg'[s].isFinished <=> (IsLocalFinished(s))'
                 /\ (IsNextTs(s, lMsg[s].smallestTime))'
      <4>1. CASE s = r
        <5>1. (IsNextTs(r, t))' BY <3>1, <3>4
        <5>2. (IsNextTs(r, lMsg[r].smallestTime))' BY <3>2, <5>1 DEF IsNextTs, IsLocalFinished
        <5> QED BY <1>12, <3>2, <3>3, <4>1, <5>2
      <4>2. CASE s # r
        BY <1>12, <1>inv, <2>p, <3>2, <3>3, <3>4, <3>5, <4>2
           DEF LbtsInv, IsNextTs, IsLocalFinished
      <4> QED BY <4>1, <4>2
    <3> QED BY <3>5 DEF LbtsInv
  <2>7. FinishInv' /\ FinishedIsGlobal' BY <1>12, <1>n
  <2> QED BY <2>1, <2>2, <2>3, <2>4, <2>5, <2>6, <2>7
<1>13. CASE Allgather
  <2> USE DEF Allgather, queueVars, mpiVars
  <2> DEFINE totRx == Cardinality(UNION {lMsg[r].rxCount : r \in Ranks})
             totTx == Cardinality(UNION {lMsg[r].txCount : r \in Ranks})
             globalFinished == (\A r \in Ranks : lMsg[r].isFinished) /\ totRx = totTx
  <2>g. \A r \in Ranks : pc[r] = "gather" /\ runs[r] = 1
    BY <1>13, <1>inv DEF PhaseInv
  <2>e. totRx = totTx => InFlight = {}
    <3>1. /\ {lMsg[r].rxCount : r \in Ranks} = {g_rxCount[r] : r \in Ranks}
          /\ {lMsg[r].txCount : r \in Ranks} = {g_txCount[r] : r \in Ranks}
      BY <1>inv, <2>g DEF LbtsInv
    <3> QED BY <1>t, <1>inv, <3>1, NoTransients
  <2>p. PICK smallestTime \in {lMsg[r].smallestTime : r \in Ranks} :
          IF totRx = totTx
          THEN /\ m_grantedTime' = [r \in Ranks |->
                    IF m_lookAhead[r] = MaxTime THEN MaxTime
                    ELSE Wrap(smallestTime + m_lookAhead[r])]
               /\ window' = smallestTime
               /\ \A r \in Ranks : smallestTime <= lMsg[r].smallestTime
          ELSE UNCHANGED <<m_grantedTime, window>>
    BY <1>13
  <2>s. window <= smallestTime /\ smallestTime <= MaxTime /\ smallestTime \in Nat
    BY <1>t, <2>g, SmallestIsLater DEF TypeOK, Lbts
  <2>w. \A r \in Ranks : /\ m_grantedTime'[r] <= window' + m_lookAhead[r]
                         /\ m_currentTs[r] <= window' + m_lookAhead[r]
                         /\ m_lookAhead[r] = MaxTime => m_grantedTime'[r] = MaxTime
    <3>1. CASE totRx = totTx BY <1>b, <1>inv, <2>g, <2>p, <2>s, <3>1 DEF WindowInv, Wrap
    <3>2. CASE totRx # totTx BY <1>b, <1>inv, <2>g, <2>p, <3>2 DEF WindowInv
    <3> QED BY <3>1, <3>2
  <2>f. /\ m_globalFinished' = [r \in Ranks |-> globalFinished]
        /\ pc' = [r \in Ranks |-> IF globalFinished THEN "program" ELSE "loop"]
    BY <1>13
  <2>1. PhaseInv'
    <3>1. \A r \in Ranks : runs'[r] = 1 BY <1>13, <2>g
    <3>2. CASE globalFinished
      BY <2>f, <3>1, <3>2, ConstantsAssumption DEF PhaseInv, After, Before
    <3>3. CASE ~globalFinished
      BY <2>f, <3>1, <3>3, ConstantsAssumption DEF PhaseInv, Running, Before
    <3> QED BY <3>2, <3>3
  <2>2. WindowInv'
    <3>1. window' <= MaxTime BY <1>inv, <2>p, <2>s DEF WindowInv
    <3>2. \A r \in Ranks : pc'[r] # "event" BY <2>f
    <3>3. UNCHANGED <<runs, m_lookAhead, m_currentTs>> BY <1>13
    <3> SUFFICES ASSUME NEW r \in Ranks
                 PROVE  /\ \A link \in LinksOf(r) : m_lookAhead[r] <= link.delay
                        /\ m_grantedTime'[r] <= window' + m_lookAhead[r]
                        /\ m_lookAhead[r] = MaxTime => m_grantedTime'[r] = MaxTime
                        /\ m_lookAhead[r] = MaxTime \/ Horizon + m_lookAhead[r] <= MaxTime
                        /\ m_currentTs[r] <= window' + m_lookAhead[r]
      BY <3>1, <3>2, <3>3 DEF WindowInv
    <3>4. runs[r] = 1 BY <2>g
    <3>5. /\ \A link \in LinksOf(r) : m_lookAhead[r] <= link.delay
          /\ m_lookAhead[r] = MaxTime \/ Horizon + m_lookAhead[r] <= MaxTime
      BY <1>inv, <3>4 DEF WindowInv
    <3> QED BY <2>w, <3>5
  <2>3. QueueInv'
    <3>1. CASE totRx = totTx
      <4> SUFFICES ASSUME NEW r \in Ranks, NEW e \in m_events[r], ~m_stop[r]
                   PROVE  smallestTime <= e.ts
        BY <1>13, <1>inv, <2>p, <3>1 DEF QueueInv
      <4>1. IsNextTs(r, lMsg[r].smallestTime) BY <1>inv, <2>g DEF LbtsInv
      <4>2. lMsg[r].smallestTime <= e.ts BY <4>1 DEF IsNextTs, IsLocalFinished
      <4>3. smallestTime <= lMsg[r].smallestTime BY <2>p, <3>1
      <4>4. lMsg[r].smallestTime \in Nat BY <1>t DEF TypeOK, Lbts
      <4> QED BY <1>b, <2>s, <4>2, <4>3, <4>4
    <3>2. CASE totRx # totTx BY <1>13, <1>inv, <2>p, <3>2 DEF QueueInv
    <3> QED BY <3>1, <3>2
  <2>4. MessageInv'
    <3>1. CASE totRx = totTx BY <1>13, <2>e, <3>1 DEF MessageInv, InFlight
    <3>2. CASE totRx # totTx BY <1>13, <1>inv, <2>p, <3>2 DEF MessageInv, InFlight
    <3> QED BY <3>1, <3>2
  <2>5. CountInv' BY <1>13, <1>inv DEF CountInv, InFlight
  <2>6. LbtsInv' BY <2>f DEF LbtsInv
  <2>7. FinishInv' /\ FinishedIsGlobal'
    <3>1. CASE globalFinished
      <4>1. After' BY <1>13, <2>f, <2>g, <3>1 DEF After
      <4>2. InFlight = {} BY <2>e, <3>1
      <4>3. \A r \in Ranks : IsLocalFinished(r) BY <1>inv, <2>g, <3>1 DEF LbtsInv
      <4> QED BY <1>13, <4>1, <4>2, <4>3
              DEF FinishInv, FinishedIsGlobal, InFlight, IsLocalFinished
    <3>2. CASE ~globalFinished BY <1>f, <2>f, <3>2
    <3> QED BY <3>1, <3>2
  <2> QED BY <2>1, <2>2, <2>3, <2>4, <2>5, <2>6, <2>7
<1>14. CASE UNCHANGED vars
  <2> USE DEF vars, queueVars, windowVars, mpiVars
  <2>1. PhaseInv' BY <1>14, <1>inv DEF PhaseInv, Before, Running, After, InFlight
  <2>2. WindowInv' /\ QueueInv' BY <1>14, <1>inv DEF WindowInv, QueueInv
  <2>3. MessageInv' /\ CountInv' BY <1>14, <1>inv DEF MessageInv, CountInv, InFlight
  <2>4. LbtsInv' BY <1>14, <1>inv DEF LbtsInv, IsNextTs, IsLocalFinished
  <2>5. FinishInv' /\ FinishedIsGlobal'
    BY <1>14 DEF IInv, FinishInv, After, FinishedIsGlobal, IsLocalFinished
  <2> QED BY <2>1, <2>2, <2>3, <2>4, <2>5
<1> QED
  BY <1>1, <1>2, <1>3, <1>4, <1>5, <1>6, <1>7, <1>8, <1>9, <1>10, <1>11, <1>12, <1>13, <1>14
     DEF Next, UserCall, RankStep, Terminated

LEMMA SpecIInv == ASSUME SingleRun PROVE Spec => []IInv
BY InitIInv, NextIInv, PTL DEF Spec

-----------------------------------------------------------------------------
(* Causality: in a program that calls Run once, no message is ever due      *)
(* before the granted time or the clock of its receiver, so that            *)
(* rxTime - Now() in ReceiveMessages is never negative.                     *)
THEOREM Causality == ASSUME SingleRun PROVE Spec => []NoStraggler
<1>1. IInv => NoStraggler
  <2> SUFFICES ASSUME IInv, NEW m \in InFlight
               PROVE  /\ m_currentTs[m.to] <= m.rxTime
                      /\ pc[m.to] # "program" => m_grantedTime[m.to] <= m.rxTime
    BY DEF NoStraggler, InFlight
  <2>1. m.to \in Ranks /\ m.rxTime \in Nat /\ window \in Nat /\ m_lookAhead[m.to] \in Nat
        /\ m_currentTs[m.to] \in Nat /\ m_grantedTime[m.to] \in Int
    BY DEF IInv, TypeOK, Message, InFlight
  <2>2. PICK link \in LinksOf(m.to) : window + link.delay <= m.rxTime
    BY DEF IInv, MessageInv
  <2>3. link.delay \in Nat BY ConstantsAssumption DEF LinksOf
  <2>4. CASE runs[m.to] = 1
    <3>1. /\ m_currentTs[m.to] <= window + m_lookAhead[m.to]
          /\ m_grantedTime[m.to] <= window + m_lookAhead[m.to]
          /\ m_lookAhead[m.to] <= link.delay
      BY <2>1, <2>4 DEF IInv, WindowInv
    <3> QED BY <2>1, <2>2, <2>3, <3>1
  <2>5. CASE runs[m.to] # 1
    <3>1. pc[m.to] = "program" BY <2>1, <2>5 DEF IInv, PhaseInv
    <3>2. Before BY <2>1, <2>5, <3>1 DEF IInv, PhaseInv, Running, After
    <3> QED BY <2>1, <3>1, <3>2 DEF IInv, PhaseInv
  <2> QED BY <2>4, <2>5
<1> QED BY <1>1, SpecIInv, PTL

(* The assertion of ProcessOneEvent holds: no event is run in the past of   *)
(* its rank.                                                                *)
THEOREM EventsInOrder == ASSUME SingleRun PROVE Spec => []NoEventInPast
<1>1. IInv => NoEventInPast
  BY DEF IInv, QueueInv, NoEventInPast
<1> QED BY <1>1, SpecIInv, PTL

(* A rank that goes on after an all-gather has lost no time it was granted: *)
(* some rank has an event, from which on the new window is computed without *)
(* an overflow, it starts no earlier than the last one, and it stays where  *)
(* it is while a message is in transit.                                     *)
THEOREM GrantsAreKept == ASSUME SingleRun PROVE Spec => WindowsMoveForward
<1>1. ASSUME IInv, [Next]_vars
      PROVE  [\A r \in Ranks : pc[r] = "gather" /\ pc'[r] = "loop" =>
                m_grantedTime[r] <= m_grantedTime'[r]]_vars
  <2> SUFFICES ASSUME NEW r \in Ranks, pc[r] = "gather", pc'[r] = "loop"
               PROVE  m_grantedTime[r] <= m_grantedTime'[r]
    OBVIOUS
  <2>t. /\ window \in Nat /\ MaxTime \in Nat /\ Horizon \in Nat
        /\ m_grantedTime \in [Ranks -> Int] /\ m_lookAhead[r] \in Nat
        /\ \A s \in Ranks : lMsg[s].smallestTime \in Nat
    BY <1>1, ConstantsAssumption DEF IInv, TypeOK, Lbts
  <2>1. CASE Allgather
    <3> DEFINE totRx == Cardinality(UNION {lMsg[q].rxCount : q \in Ranks})
               totTx == Cardinality(UNION {lMsg[q].txCount : q \in Ranks})
    <3>1. runs[r] = 1 /\ \A s \in Ranks : pc[s] = "gather"
      BY <1>1, <2>1 DEF IInv, PhaseInv, Allgather
    <3>2. /\ m_grantedTime[r] <= window + m_lookAhead[r]
          /\ m_lookAhead[r] = MaxTime => m_grantedTime[r] = MaxTime
          /\ m_lookAhead[r] = MaxTime \/ Horizon + m_lookAhead[r] <= MaxTime
      BY <1>1, <3>1 DEF IInv, WindowInv
    <3>3. CASE totRx # totTx BY <2>1, <2>t, <3>3 DEF Allgather
    <3>4. CASE totRx = totTx
      <4>1. PICK s \in Ranks :
              /\ m_grantedTime' = [q \in Ranks |-> IF m_lookAhead[q] = MaxTime THEN MaxTime
                                                ELSE Wrap(lMsg[s].smallestTime + m_lookAhead[q])]
              /\ \A q \in Ranks : lMsg[s].smallestTime <= lMsg[q].smallestTime
        BY <2>1, <3>4 DEF Allgather
      <4>2. window <= lMsg[s].smallestTime BY <1>1, <3>1, SmallestIsLater
      <4>3. PICK q \in Ranks : ~lMsg[q].isFinished BY <2>1, <3>4 DEF Allgather
      <4>4. lMsg[q].smallestTime < Horizon
        <5>1. ~IsLocalFinished(q) /\ IsNextTs(q, lMsg[q].smallestTime)
          BY <1>1, <3>1, <4>3 DEF IInv, LbtsInv
        <5>2. PICK e \in m_events[q] : e.ts = lMsg[q].smallestTime BY <5>1 DEF IsNextTs
        <5> QED BY <1>1, <5>2 DEF IInv, QueueInv
      <4>5. lMsg[s].smallestTime < Horizon BY <2>t, <4>1, <4>4
      <4>6. CASE m_lookAhead[r] = MaxTime BY <2>t, <3>2, <4>1, <4>6
      <4>7. CASE m_lookAhead[r] # MaxTime
        <5>1. m_grantedTime'[r] = lMsg[s].smallestTime + m_lookAhead[r]
          BY <2>t, <3>2, <4>1, <4>5, <4>7 DEF Wrap
        <5> QED BY <2>t, <3>2, <4>2, <5>1
      <4> QED BY <4>6, <4>7
    <3> QED BY <3>3, <3>4
  <2>2. CASE AllReduce BY <2>2 DEF AllReduce, BeginLoop
  <2>3. ASSUME NEW s \in Ranks, Run(s) PROVE m_grantedTime[r] <= m_grantedTime'[r]
    BY <2>3, <2>t DEF Run
  <2>4. CASE UNCHANGED m_grantedTime BY <2>4, <2>t
  <2> QED
    BY <1>1, <2>1, <2>2, <2>3, <2>4
       DEF Next, UserCall, RankStep, Terminated, vars, windowVars, Schedule, Remove, Stop,
           BoundLookAhead, SendPacket, Arrive, ProcessOneEvent, EventReturn, StartReceive,
           ReceiveMessage, EnterAllgather
<1> QED BY <1>1, SpecIInv, PTL DEF Spec, WindowsMoveForward

(* m_globalFinished is only ever set with nothing in flight and no event    *)
(* left on any rank that was not stopped.                                   *)
THEOREM FinishTogether == ASSUME SingleRun PROVE Spec => []FinishedIsGlobal
<1>1. IInv => FinishedIsGlobal
  BY DEF IInv
<1> QED BY <1>1, SpecIInv, PTL
=============================================================================

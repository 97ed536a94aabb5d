--------------------------- MODULE GrantedTimeWindow ---------------------------
(***************************************************************************)
(* The conservative parallel engine with granted time windows.             *)
(*                                                                         *)
(*   src/src/mpi/model/distributed-simulator-impl.cc                       *)
(*   src/src/mpi/model/granted-time-window-mpi-interface.cc                *)
(*   src/src/point-to-point/model/point-to-point-remote-channel.cc         *)
(*                                                                         *)
(* Each MPI rank runs the events of its own nodes up to its granted time,  *)
(* and packets between ranks travel as MPI messages.  A rank that cannot   *)
(* go on receives what has arrived and joins an all-gather of every rank's *)
(* next event time and message counts, which opens the next window.        *)
(*                                                                         *)
(* A count is represented by the set of the messages it counts, and the    *)
(* sum over the ranks by the cardinality of the union.  The two collective *)
(* calls are single steps of all ranks: a rank that leaves one reads the   *)
(* gathered values and writes state of its own only.  Cancel, Remove and   *)
(* IsExpired are the code of DefaultSimulator; here Remove only takes an   *)
(* event out of the queue.                                                 *)
(***************************************************************************)
EXTENDS Integers, FiniteSets

CONSTANTS
  Ranks,      \* the MPI ranks
  Links,      \* remote point-to-point channels: [ends, delay]
  Delays,     \* relative delays of local events
  TxTimes,    \* transmission times of packets
  LookAheads, \* arguments of BoundLookAhead
  MaxTime,    \* GetMaximumSimulationTime, the largest int64 of a Time
  Horizon,    \* bound: no event or packet is due at it or later
  MaxEvents,  \* bound: local events and packets in a behaviour
  MaxRuns     \* bound: calls of Run by each rank

ASSUME ConstantsAssumption ==
  /\ Links \subseteq [ends : SUBSET Ranks, delay : Nat]
  /\ Delays \subseteq Nat
  /\ TxTimes \subseteq Nat
  /\ LookAheads \subseteq Nat
  /\ MaxTime \in Nat /\ Horizon \in Nat /\ MaxEvents \in Nat /\ MaxRuns \in Nat
  /\ 0 < Horizon /\ Horizon < MaxTime
  /\ \A delay \in {link.delay : link \in Links} \cup LookAheads : Horizon + delay <= MaxTime
  /\ Ranks # {} /\ IsFiniteSet(Ranks)

VARIABLES
  pc,                \* where each rank is
  runs,              \* how often each rank has entered Run
  m_events,          \* each rank's scheduler, a set of events [ts, uid]
  m_uid,
  m_currentTs,
  m_stop,
  m_lookAhead,
  m_grantedTime,
  m_globalFinished,
  g_txCount, g_rxCount,
  lMsg,              \* the LbtsMessage each rank brought to the all-gather
  network,           \* messages MPI has not delivered yet
  arrived,           \* messages MPI_Testany would report
  nextId,            \* identifies the next local event or packet
  window             \* history: the smallest time of the last window opened

queueVars  == <<m_events, m_uid, nextId>>
windowVars == <<m_lookAhead, m_grantedTime, window>>
mpiVars    == <<g_txCount, g_rxCount, network, arrived>>
vars == <<queueVars, windowVars, mpiVars, pc, runs, m_currentTs, m_stop,
          m_globalFinished, lMsg>>

-----------------------------------------------------------------------------
Ids     == 1 .. MaxEvents
Event   == [ts : Nat, uid : Nat]
Message == [id : Ids, to : Ranks, rxTime : Nat]
Lbts    == [rxCount : SUBSET Ids, txCount : SUBSET Ids, isFinished : BOOLEAN,
            smallestTime : Nat]

(* outside the block of Run that declares it, lMsg does not exist *)
NoLbts == [rxCount |-> {}, txCount |-> {}, isFinished |-> FALSE, smallestTime |-> 0]

LinksOf(r) == {link \in Links : r \in link.ends}

IsLocalFinished(r) == m_events[r] = {} \/ m_stop[r]

(* t is NextTs(): infinity when locally finished, else the head's time stamp *)
IsNextTs(r, t) ==
  IF IsLocalFinished(r)
  THEN t = MaxTime
  ELSE /\ \E e \in m_events[r] : e.ts = t
       /\ \A e \in m_events[r] : t <= e.ts

(* what RemoveNext returns *)
IsNext(r, e) ==
  \A f \in m_events[r] \ {e} : e.ts < f.ts \/ (e.ts = f.ts /\ e.uid < f.uid)

(* Defect: the window is not consulted. *)
MayProcessMutant(r) == ~IsLocalFinished(r)

(* the test at the head of the loop in Run *)
MayProcess(r) ==
  ~IsLocalFinished(r) /\ \E e \in m_events[r] : e.ts <= m_grantedTime[r]

-----------------------------------------------------------------------------
Init ==
  /\ pc = [r \in Ranks |-> "program"]
  /\ runs = [r \in Ranks |-> 0]
  /\ m_events = [r \in Ranks |-> {}]
  /\ m_uid = [r \in Ranks |-> 4]
  /\ m_currentTs = [r \in Ranks |-> 0]
  /\ m_stop = [r \in Ranks |-> FALSE]
  /\ m_lookAhead = [r \in Ranks |-> MaxTime]
  /\ m_grantedTime = [r \in Ranks |-> 0]
  /\ m_globalFinished = [r \in Ranks |-> FALSE]
  /\ g_txCount = [r \in Ranks |-> {}]
  /\ g_rxCount = [r \in Ranks |-> {}]
  /\ lMsg = [r \in Ranks |-> NoLbts]
  /\ network = {}
  /\ arrived = {}
  /\ nextId = 1
  /\ window = 0

-----------------------------------------------------------------------------
(* Calls of user code: the program before (or between) its Runs, and the    *)
(* function of a running event                                              *)
InUserCode(r) == pc[r] = "event" \/ (pc[r] = "program" /\ runs[r] < MaxRuns)

Insert(r, ts) ==
  /\ m_events' = [m_events EXCEPT ![r] = @ \cup {[ts |-> ts, uid |-> m_uid[r]]}]
  /\ m_uid' = [m_uid EXCEPT ![r] = @ + 1]

Schedule(r, delay) ==
  /\ InUserCode(r)
  /\ nextId <= MaxEvents
  /\ m_currentTs[r] + delay < Horizon
  /\ Insert(r, m_currentTs[r] + delay)
  /\ nextId' = nextId + 1
  /\ UNCHANGED <<windowVars, mpiVars, pc, runs, m_currentTs, m_stop, m_globalFinished, lMsg>>

Remove(r, e) ==
  /\ InUserCode(r)
  /\ e \in m_events[r]
  /\ m_events' = [m_events EXCEPT ![r] = @ \ {e}]
  /\ UNCHANGED <<m_uid, nextId, windowVars, mpiVars, pc, runs, m_currentTs, m_stop,
                 m_globalFinished, lMsg>>

Stop(r) ==
  /\ InUserCode(r)
  /\ m_stop' = [m_stop EXCEPT ![r] = TRUE]
  /\ UNCHANGED <<queueVars, windowVars, mpiVars, pc, runs, m_currentTs, m_globalFinished, lMsg>>

(* called before Run; a lookahead that is not positive only draws a warning *)
BoundLookAhead(r, lookAhead) ==
  /\ pc[r] = "program" /\ runs[r] < MaxRuns
  /\ lookAhead > 0
  /\ m_lookAhead' = [m_lookAhead EXCEPT ![r] = IF lookAhead < @ THEN lookAhead ELSE @]
  /\ UNCHANGED <<queueVars, m_grantedTime, window, mpiVars, pc, runs, m_currentTs, m_stop,
                 m_globalFinished, lMsg>>

(* Defect: the delay is subtracted. *)
ReceiveTimeSignMutant(r, link, txTime) == m_currentTs[r] + txTime - link.delay

(* TransmitStart of the remote channel: the receive time is absolute *)
ReceiveTime(r, link, txTime) == m_currentTs[r] + txTime + link.delay

(* the send is counted at once *)
SendPacket(r, link, txTime) ==
  /\ InUserCode(r)
  /\ link \in LinksOf(r)
  /\ nextId <= MaxEvents
  /\ ReceiveTime(r, link, txTime) < Horizon
  /\ \E to \in link.ends \ {r} :
       network' = network \cup
         {[id |-> nextId, to |-> to, rxTime |-> ReceiveTime(r, link, txTime)]}
  /\ g_txCount' = [g_txCount EXCEPT ![r] = @ \cup {nextId}]
  /\ nextId' = nextId + 1
  /\ UNCHANGED <<m_events, m_uid, windowVars, g_rxCount, arrived, pc, runs, m_currentTs,
                 m_stop, m_globalFinished, lMsg>>

(* MPI delivers a message, in any order *)
Arrive(m) ==
  /\ m \in network
  /\ network' = network \ {m}
  /\ arrived' = arrived \cup {m}
  /\ UNCHANGED <<queueVars, windowVars, g_txCount, g_rxCount, pc, runs, m_currentTs, m_stop,
                 m_globalFinished, lMsg>>

-----------------------------------------------------------------------------
(* Defect: CalculateLookAhead keeps the delay of any link, not the smallest. *)
RunMutant(r) ==
  /\ pc[r] = "program"
  /\ runs[r] < MaxRuns
  /\ runs' = [runs EXCEPT ![r] = @ + 1]
  /\ \E lookAhead \in {link.delay : link \in LinksOf(r)} :
       /\ m_lookAhead' = [m_lookAhead EXCEPT ![r] = lookAhead]
       /\ m_grantedTime' = [m_grantedTime EXCEPT ![r] = lookAhead]
  /\ pc' = [pc EXCEPT ![r] = "reduce"]
  /\ UNCHANGED <<queueVars, window, mpiVars, m_currentTs, m_stop, m_globalFinished, lMsg>>

(* Run.  CalculateLookAhead: the smallest delay of the rank's own remote    *)
(* links, and a first window of that length, up to the MPI_Allreduce        *)
Run(r) ==
  /\ pc[r] = "program"
  /\ runs[r] < MaxRuns
  /\ runs' = [runs EXCEPT ![r] = @ + 1]
  /\ LET delays == {m_lookAhead[r]} \cup {link.delay : link \in LinksOf(r)}
     IN \E lookAhead \in IF Cardinality(Ranks) <= 1 THEN {0} ELSE delays :
          /\ Cardinality(Ranks) > 1 => \A d \in delays : lookAhead <= d
          /\ m_lookAhead' = [m_lookAhead EXCEPT ![r] = lookAhead]
          /\ m_grantedTime' = [m_grantedTime EXCEPT ![r] = lookAhead]
  /\ pc' = [pc EXCEPT ![r] = "reduce"]
  /\ UNCHANGED <<queueVars, window, mpiVars, m_currentTs, m_stop, m_globalFinished, lMsg>>

(* Run after CalculateLookAhead: the flags are reset and the loop begins *)
BeginLoop ==
  /\ m_stop' = [r \in Ranks |-> FALSE]
  /\ m_globalFinished' = [r \in Ranks |-> FALSE]
  /\ pc' = [r \in Ranks |-> "loop"]

(* MPI_Allreduce: a rank without a lookahead takes the largest of the others, *)
(* and keeps infinity when there is none; then every rank begins its loop     *)
AllReduce ==
  /\ \A r \in Ranks : pc[r] = "reduce"
  /\ LET sendbuf(r) == IF m_lookAhead[r] = MaxTime THEN 0 ELSE m_lookAhead[r]
     IN \E recvbuf \in {sendbuf(r) : r \in Ranks} :
          /\ \A r \in Ranks : sendbuf(r) <= recvbuf
          /\ LET none == {r \in Ranks : m_lookAhead[r] = MaxTime /\ recvbuf # 0}
             IN /\ m_lookAhead' = [r \in Ranks |->
                     IF r \in none THEN recvbuf ELSE m_lookAhead[r]]
                /\ m_grantedTime' = [r \in Ranks |->
                     IF r \in none THEN recvbuf ELSE m_grantedTime[r]]
  /\ BeginLoop
  /\ UNCHANGED <<queueVars, window, mpiVars, runs, m_currentTs, lMsg>>

(* The next event is within the window: RemoveNext, make it current, invoke *)
ProcessOneEvent(r) ==
  /\ pc[r] = "loop"
  /\ MayProcess(r)
  /\ \E next \in m_events[r] :
       /\ IsNext(r, next)
       /\ m_events' = [m_events EXCEPT ![r] = @ \ {next}]
       /\ m_currentTs' = [m_currentTs EXCEPT ![r] = next.ts]
  /\ pc' = [pc EXCEPT ![r] = "event"]
  /\ UNCHANGED <<m_uid, nextId, windowVars, mpiVars, runs, m_stop, m_globalFinished, lMsg>>

EventReturn(r) ==
  /\ pc[r] = "event"
  /\ pc' = [pc EXCEPT ![r] = "loop"]
  /\ UNCHANGED <<queueVars, windowVars, mpiVars, runs, m_currentTs, m_stop, m_globalFinished,
                 lMsg>>

(* The next event is beyond the window, or there is none: ReceiveMessages *)
StartReceive(r) ==
  /\ pc[r] = "loop"
  /\ ~MayProcess(r)
  /\ pc' = [pc EXCEPT ![r] = "receive"]
  /\ UNCHANGED <<queueVars, windowVars, mpiVars, runs, m_currentTs, m_stop, m_globalFinished,
                 lMsg>>

(* Defect: the receive is not counted. *)
ReceiveMessageMutant(r, m) ==
  /\ pc[r] = "receive"
  /\ m \in arrived /\ m.to = r
  /\ arrived' = arrived \ {m}
  /\ Insert(r, m.rxTime)
  /\ UNCHANGED <<g_rxCount, nextId, windowVars, g_txCount, network, pc, runs, m_currentTs,
                 m_stop, m_globalFinished, lMsg>>

(* MPI_Testany reports a message: count it and schedule its reception with  *)
(* the delay rxTime - Now(), to which ScheduleWithContext adds Now() again  *)
ReceiveMessage(r, m) ==
  /\ pc[r] = "receive"
  /\ m \in arrived /\ m.to = r
  /\ arrived' = arrived \ {m}
  /\ g_rxCount' = [g_rxCount EXCEPT ![r] = @ \cup {m.id}]
  /\ Insert(r, m.rxTime)
  /\ UNCHANGED <<nextId, windowVars, g_txCount, network, pc, runs, m_currentTs, m_stop,
                 m_globalFinished, lMsg>>

(* MPI_Testany reports nothing: the rank brings its LbtsMessage *)
EnterAllgather(r) ==
  /\ pc[r] = "receive"
  /\ \A m \in arrived : m.to # r
  /\ \E t \in {e.ts : e \in m_events[r]} \cup {MaxTime} :
       /\ IsNextTs(r, t)
       /\ lMsg' = [lMsg EXCEPT ![r] =
            [rxCount |-> g_rxCount[r], txCount |-> g_txCount[r],
             isFinished |-> IsLocalFinished(r), smallestTime |-> t]]
  /\ pc' = [pc EXCEPT ![r] = "gather"]
  /\ UNCHANGED <<queueVars, windowVars, mpiVars, runs, m_currentTs, m_stop, m_globalFinished>>

(* the sum of two Times, an int64 that wraps *)
Wrap(t) == IF t > MaxTime THEN t - 2 * (MaxTime + 1) ELSE t

(* Defect: m_globalFinished does not wait for the transient messages. *)
AllgatherMutant ==
  /\ \A r \in Ranks : pc[r] = "gather"
  /\ LET globalFinished == \A r \in Ranks : lMsg[r].isFinished
     IN /\ m_globalFinished' = [r \in Ranks |-> globalFinished]
        /\ pc' = [r \in Ranks |-> IF globalFinished THEN "program" ELSE "loop"]
        /\ \E smallestTime \in {lMsg[r].smallestTime : r \in Ranks} :
             /\ \A r \in Ranks : smallestTime <= lMsg[r].smallestTime
             /\ m_grantedTime' = [r \in Ranks |-> Wrap(smallestTime + m_lookAhead[r])]
             /\ window' = smallestTime
  /\ lMsg' = [r \in Ranks |-> NoLbts]
  /\ UNCHANGED <<queueVars, m_lookAhead, mpiVars, runs, m_currentTs, m_stop>>

(* MPI_Allgather, and what every rank computes from the gathered messages *)
Allgather ==
  /\ \A r \in Ranks : pc[r] = "gather"
  /\ LET totRx == Cardinality(UNION {lMsg[r].rxCount : r \in Ranks})
         totTx == Cardinality(UNION {lMsg[r].txCount : r \in Ranks})
         globalFinished == (\A r \in Ranks : lMsg[r].isFinished) /\ totRx = totTx
     IN /\ \E smallestTime \in {lMsg[r].smallestTime : r \in Ranks} :
             /\ \A r \in Ranks : smallestTime <= lMsg[r].smallestTime
             /\ IF totRx = totTx
                THEN /\ m_grantedTime' = [r \in Ranks |->
                          IF m_lookAhead[r] = MaxTime THEN MaxTime
                          ELSE Wrap(smallestTime + m_lookAhead[r])]
                     /\ window' = smallestTime
                ELSE UNCHANGED <<m_grantedTime, window>>
        /\ m_globalFinished' = [r \in Ranks |-> globalFinished]
        /\ pc' = [r \in Ranks |-> IF globalFinished THEN "program" ELSE "loop"]
  /\ lMsg' = [r \in Ranks |-> NoLbts]
  /\ UNCHANGED <<queueVars, m_lookAhead, mpiVars, runs, m_currentTs, m_stop>>

-----------------------------------------------------------------------------
UserCall(r) ==
  \/ \E delay \in Delays : Schedule(r, delay)
  \/ \E e \in m_events[r] : Remove(r, e)
  \/ Stop(r)
  \/ \E lookAhead \in LookAheads : BoundLookAhead(r, lookAhead)
  \/ \E link \in Links, txTime \in TxTimes : SendPacket(r, link, txTime)

(* the steps a rank takes by itself once its program calls Run *)
RankStep(r) ==
  \/ Run(r)
  \/ ProcessOneEvent(r)
  \/ EventReturn(r)
  \/ StartReceive(r)
  \/ \E m \in arrived : ReceiveMessage(r, m)
  \/ EnterAllgather(r)

(* every rank has made its last Run *)
Terminated ==
  /\ \A r \in Ranks : pc[r] = "program" /\ runs[r] = MaxRuns
  /\ UNCHANGED vars

Next ==
  \/ \E r \in Ranks : UserCall(r)
  \/ \E r \in Ranks : RankStep(r)
  \/ AllReduce
  \/ Allgather
  \/ \E m \in network : Arrive(m)
  \/ Terminated

Spec == Init /\ [][Next]_vars

(* Every rank's program calls Run and its event functions return, MPI       *)
(* delivers every message and completes a collective call every rank has    *)
(* entered.                                                                 *)
FairSpec ==
  /\ Spec
  /\ \A r \in Ranks : WF_vars(RankStep(r))
  /\ WF_vars(AllReduce)
  /\ WF_vars(Allgather)
  /\ WF_vars(\E m \in network : Arrive(m))

-----------------------------------------------------------------------------
ProgramPoints == {"program", "reduce", "loop", "event", "receive", "gather"}

TypeOK ==
  /\ pc \in [Ranks -> ProgramPoints]
  /\ runs \in [Ranks -> 0 .. MaxRuns]
  /\ m_events \in [Ranks -> SUBSET Event]
  /\ m_uid \in [Ranks -> Nat]
  /\ m_currentTs \in [Ranks -> Nat]
  /\ m_stop \in [Ranks -> BOOLEAN]
  /\ m_lookAhead \in [Ranks -> Nat]
  /\ m_grantedTime \in [Ranks -> Int]
  /\ m_globalFinished \in [Ranks -> BOOLEAN]
  /\ g_txCount \in [Ranks -> SUBSET Ids]
  /\ g_rxCount \in [Ranks -> SUBSET Ids]
  /\ lMsg \in [Ranks -> Lbts]
  /\ network \subseteq Message
  /\ arrived \subseteq Message
  /\ nextId \in 1 .. MaxEvents + 1
  /\ window \in Nat

(* No message can reach a rank in its past, however long MPI holds it and   *)
(* however far the receiving rank has run: its receive time is not before   *)
(* the receiver's granted time, nor its clock.                              *)
NoStraggler ==
  \A m \in network \cup arrived :
    m_currentTs[m.to] <= m.rxTime /\
      (pc[m.to] # "program" => m_grantedTime[m.to] <= m.rxTime)

(* NS_ASSERT in ProcessOneEvent: no queued event lies before the clock of   *)
(* its rank.                                                                *)
NoEventInPast ==
  \A r \in Ranks : \A e \in m_events[r] : m_currentTs[r] <= e.ts

(* "Global halting condition is all nodes have empty queue's and no         *)
(* messages are in-flight": when m_globalFinished is set no message is in   *)
(* flight and no rank that was not stopped has an event left.               *)
FinishedIsGlobal ==
  (\E r \in Ranks : m_globalFinished[r]) =>
    /\ network = {} /\ arrived = {}
    /\ \A r \in Ranks : IsLocalFinished(r)

(* An all-gather after which the ranks go on takes back no granted time:    *)
(* the windows of a Run only move forward. The last one of a Run may: every *)
(* rank is finished, NextTs is the largest Time, and adding a finite        *)
(* lookahead to it overflows ("Overflow is possible here if near end of     *)
(* representable time"); nothing reads the result before the next Run       *)
(* sets it again.                                                           *)
WindowsMoveForward ==
  [][\A r \in Ranks : pc[r] = "gather" /\ pc'[r] = "loop" =>
       m_grantedTime[r] <= m_grantedTime'[r]]_vars

(* Every Run returns, on every rank, whatever the other ranks do: a rank    *)
(* that stops or has no events keeps joining the all-gathers of the others, *)
(* and all ranks leave the last one together.                               *)
EveryRunReturns ==
  (\E r \in Ranks : pc[r] # "program") ~> (\A r \in Ranks : pc[r] = "program")
=============================================================================

------------------------------ MODULE NullMessage ------------------------------
(***************************************************************************)
(* The conservative parallel engine with null messages.                    *)
(*                                                                         *)
(*   src/src/mpi/model/null-message-simulator-impl.cc                      *)
(*   src/src/mpi/model/null-message-mpi-interface.cc                       *)
(*   src/src/mpi/model/remote-channel-bundle.cc                            *)
(*   src/src/mpi/model/remote-channel-bundle-manager.cc                    *)
(*   src/src/point-to-point/model/point-to-point-net-device.cc             *)
(*                                                                         *)
(* The links between two ranks form a bundle.  Every message on a bundle,  *)
(* a packet or a null message, carries the sender's guarantee: a time      *)
(* before which it will send nothing more.  A rank runs its events up to   *)
(* its safe time, the smallest guarantee of its neighbours, and otherwise  *)
(* waits for a message.  Each rank sends null messages on each bundle from *)
(* an event of its own queue, put off whenever a packet is sent.           *)
(*                                                                         *)
(* The program calls Simulator::Stop (StopTime) on every rank before Run,  *)
(* as those in mpi/examples do.  Assertions are not modelled: a step that  *)
(* would fail one is taken, as in an optimised build.                      *)
(***************************************************************************)
EXTENDS Integers, FiniteSets, Sequences

CONSTANTS
  Ranks,        \* the MPI ranks, numbers
  Links,        \* the remote point-to-point channels
  Ends, Delay,  \* of a link: its two ranks and the attribute Delay
  Sources,      \* bound: the ranks whose program schedules events before Run
  Delays,       \* relative delays of user events
  TxTimes,      \* transmission times of packets
  TunePercent,  \* the attribute SchedulerTune, 1 .. 100
  StopTime,     \* when every rank stops
  MaxTime,      \* GetMaximumSimulationTime
  MaxCalls,     \* bound: user events scheduled and packets sent in a behaviour
  NoArg         \* stands for no bundle and no device

ASSUME NullMessageAssumption ==
  /\ Ranks \subseteq Nat /\ IsFiniteSet(Ranks)
  /\ Ends \in [Links -> SUBSET Ranks] /\ \A l \in Links : Cardinality(Ends[l]) = 2
  /\ Delay \in [Links -> Nat \ {0}]
  /\ Delays \subseteq Nat
  /\ TxTimes \subseteq Nat \ {0}
  /\ TunePercent \in 1 .. 100
  /\ StopTime \in Nat /\ MaxTime \in Nat /\ MaxCalls \in Nat /\ StopTime < MaxTime

VARIABLES
  pc,               \* where each rank is
  m_events,         \* each rank's scheduler, a set of events
  m_uid,
  m_currentTs,
  m_stop,
  m_safeTime,
  m_guaranteeTime,  \* of each rank's bundles, by neighbour
  m_nullEventId,    \* of each rank's bundles: the uid of the null message event
  busy,             \* of each rank, the links whose device is transmitting
  m_queue,          \* of each rank's devices, by link: the packets waiting
  network,          \* messages on the way, by sender and receiver
  calls             \* the calls counted by MaxCalls

vars == <<pc, m_events, m_uid, m_currentTs, m_stop, m_safeTime, m_guaranteeTime,
          m_nullEventId, busy, m_queue, network, calls>>

-----------------------------------------------------------------------------
Min(a, b) == IF a <= b THEN a ELSE b

LinksOf(r)    == {l \in Links : r \in Ends[l]}
Bundle(r, n)  == {l \in Links : Ends[l] = {r, n}}
Neighbours(r) == {n \in Ranks \ {r} : Bundle(r, n) # {}}

BundleDelay(r, n) ==
  CHOOSE d \in {Delay[l] : l \in Bundle(r, n)} : \A l \in Bundle(r, n) : d <= Delay[l]

(* m_schedulerTune times the delay, rounded *)
Period(r, n) == (TunePercent * BundleDelay(r, n) + 50) \div 100

Event(ts, uid, kind, arg) == [ts |-> ts, uid |-> uid, kind |-> kind, arg |-> arg]

IsNext(q, e) ==
  e \in q /\ \A f \in q \ {e} : e.ts < f.ts \/ (e.ts = f.ts /\ e.uid < f.uid)

(* Defect: the delay is also added for the way back. *)
GuaranteeTimeMutant(r, n, next) == Min(next.ts, m_safeTime[r]) + 2 * BundleDelay(r, n)

(* CalculateGuaranteeTime for neighbour n; next is the head of the queue *)
GuaranteeTime(r, n, next) == Min(next.ts, m_safeTime[r]) + BundleDelay(r, n)

Packet(rxTime, g) == [rxTime |-> rxTime, guarantee |-> g]
NullMsg(g)        == Packet(0, g)

IsFinished(r) == m_events[r] = {} \/ m_stop[r]

-----------------------------------------------------------------------------
Init ==
  /\ pc = [r \in Ranks |-> "program"]
  /\ m_events = [r \in Ranks |-> {}]
  /\ m_uid = [r \in Ranks |-> 4]
  /\ m_currentTs = [r \in Ranks |-> 0]
  /\ m_stop = [r \in Ranks |-> FALSE]
  /\ m_safeTime = [r \in Ranks |-> 0]
  /\ m_guaranteeTime = [r \in Ranks |-> [n \in Neighbours(r) |-> 0]]
  /\ m_nullEventId = [r \in Ranks |-> [n \in Neighbours(r) |-> 0]]
  /\ busy = [r \in Ranks |-> {}]
  /\ m_queue = [r \in Ranks |-> [l \in LinksOf(r) |-> 0]]
  /\ network = [r \in Ranks |-> [n \in Neighbours(r) |-> <<>>]]
  /\ calls = 0

(* Schedule and ScheduleWithContext, with the current time and a new uid *)
Insert(r, ts, kind) ==
  /\ m_events' = [m_events EXCEPT ![r] = @ \cup {Event(ts, m_uid[r], kind, NoArg)}]
  /\ m_uid' = [m_uid EXCEPT ![r] = @ + 1]

(* user code: the program before Run, or the function of an event *)
Schedule(r, delay) ==
  /\ pc[r] = "event" \/ (pc[r] = "program" /\ r \in Sources)
  /\ calls < MaxCalls
  /\ Insert(r, m_currentTs[r] + delay, "user")
  /\ calls' = calls + 1
  /\ UNCHANGED <<pc, m_currentTs, m_stop, m_safeTime, m_guaranteeTime, m_nullEventId, busy,
                 m_queue, network>>

(* Simulator::Stop (StopTime), the last call of the program, and Run up to  *)
(* its loop: InitializeNullMessageEvents goes through the bundles in the    *)
(* order of their ranks                                                     *)
Run(r) ==
  LET nullUid(n) == m_uid[r] + 1 + Cardinality({k \in Neighbours(r) : k < n})
  IN /\ pc[r] = "program"
     /\ pc' = [pc EXCEPT ![r] = "loop"]
     /\ network' = [network EXCEPT ![r] =
          [n \in Neighbours(r) |-> Append(@[n], NullMsg(BundleDelay(r, n)))]]
     /\ m_events' = [m_events EXCEPT ![r] = @ \cup
          {Event(StopTime, m_uid[r], "stop", NoArg)} \cup
          {Event(m_currentTs[r] + Period(r, n), nullUid(n), "null", n) : n \in Neighbours(r)}]
     /\ m_nullEventId' = [m_nullEventId EXCEPT ![r] = [n \in Neighbours(r) |-> nullUid(n)]]
     /\ m_uid' = [m_uid EXCEPT ![r] = @ + 1 + Cardinality(Neighbours(r))]
     /\ UNCHANGED <<m_currentTs, m_stop, m_safeTime, m_guaranteeTime, busy, m_queue, calls>>

-----------------------------------------------------------------------------
(* TransmitStart of the device, at time now with queue q, over link l: the  *)
(* completion is scheduled first, so that the guarantee computed for the    *)
(* packet sees it; then the null message event is put off, and the          *)
(* cancelled one stays in the queue.                                        *)
TransmitStart(r, l, txTime, now, q) ==
  \E n \in Ends[l] \ {r} :
    LET q1 == q \cup {Event(now + txTime, m_uid[r], "complete", l)}
    IN /\ \E next \in q1 :
            /\ IsNext(q1, next)
            /\ network' = [network EXCEPT ![r][n] =
                 Append(@, Packet(now + txTime + Delay[l], GuaranteeTime(r, n, next)))]
       /\ m_events' = [m_events EXCEPT ![r] =
            q1 \cup {Event(now + Period(r, n), m_uid[r] + 1, "null", n)}]
       /\ m_nullEventId' = [m_nullEventId EXCEPT ![r][n] = m_uid[r] + 1]
       /\ m_uid' = [m_uid EXCEPT ![r] = @ + 2]

(* Send of the device *)
SendNow(r, l, txTime) ==
  /\ pc[r] = "event"
  /\ calls < MaxCalls
  /\ l \notin busy[r]
  /\ TransmitStart(r, l, txTime, m_currentTs[r], m_events[r])
  /\ busy' = [busy EXCEPT ![r] = @ \cup {l}]
  /\ calls' = calls + 1
  /\ UNCHANGED <<pc, m_currentTs, m_stop, m_safeTime, m_guaranteeTime, m_queue>>

SendLater(r, l) ==
  /\ pc[r] = "event"
  /\ calls < MaxCalls
  /\ l \in busy[r]
  /\ m_queue' = [m_queue EXCEPT ![r][l] = @ + 1]
  /\ calls' = calls + 1
  /\ UNCHANGED <<pc, m_events, m_uid, m_currentTs, m_stop, m_safeTime, m_guaranteeTime,
                 m_nullEventId, busy, network>>

-----------------------------------------------------------------------------
(* Defect: the safe time is not consulted. *)
MayProcessMutant(r, e) ==
  pc[r] = "loop" /\ ~IsFinished(r) /\ IsNext(m_events[r], e)

(* the loop of Run *)
MayProcess(r, e) ==
  /\ pc[r] = "loop"
  /\ ~IsFinished(r)
  /\ IsNext(m_events[r], e)
  /\ e.ts <= m_safeTime[r]

(* RemoveNext and the new current time; next is where the rank goes on *)
TakeEvent(r, e, next) ==
  /\ MayProcess(r, e)
  /\ m_currentTs' = [m_currentTs EXCEPT ![r] = e.ts]
  /\ pc' = [pc EXCEPT ![r] = next]

(* an event of a model, or the reception of a packet *)
ProcessUser(r, e) ==
  /\ e.kind = "user"
  /\ TakeEvent(r, e, "event")
  /\ m_events' = [m_events EXCEPT ![r] = @ \ {e}]
  /\ UNCHANGED <<m_uid, m_stop, m_safeTime, m_guaranteeTime, m_nullEventId, busy, m_queue,
                 network, calls>>

EventReturn(r) ==
  /\ pc[r] = "event"
  /\ pc' = [pc EXCEPT ![r] = "receive"]
  /\ UNCHANGED <<m_events, m_uid, m_currentTs, m_stop, m_safeTime, m_guaranteeTime,
                 m_nullEventId, busy, m_queue, network, calls>>

ProcessStop(r, e) ==
  /\ e.kind = "stop"
  /\ TakeEvent(r, e, "receive")
  /\ m_events' = [m_events EXCEPT ![r] = @ \ {e}]
  /\ m_stop' = [m_stop EXCEPT ![r] = TRUE]
  /\ UNCHANGED <<m_uid, m_safeTime, m_guaranteeTime, m_nullEventId, busy, m_queue, network,
                 calls>>

(* Defect: the null message event is not scheduled again. *)
NullMessageEventHandlerMutant(r, e) ==
  /\ e.kind = "null" /\ e.uid = m_nullEventId[r][e.arg]
  /\ TakeEvent(r, e, "receive")
  /\ \E next \in m_events[r] \ {e} :
       /\ IsNext(m_events[r] \ {e}, next)
       /\ network' = [network EXCEPT ![r][e.arg] =
            Append(@, NullMsg(GuaranteeTime(r, e.arg, next)))]
  /\ m_events' = [m_events EXCEPT ![r] = @ \ {e}]
  /\ UNCHANGED <<m_stop, m_safeTime, m_guaranteeTime, m_nullEventId, m_uid, busy, m_queue, calls>>

NullMessageEventHandler(r, e) ==
  /\ e.kind = "null" /\ e.uid = m_nullEventId[r][e.arg]
  /\ TakeEvent(r, e, "receive")
  /\ \E next \in m_events[r] \ {e} :
       /\ IsNext(m_events[r] \ {e}, next)
       /\ network' = [network EXCEPT ![r][e.arg] =
            Append(@, NullMsg(GuaranteeTime(r, e.arg, next)))]
  /\ m_events' = [m_events EXCEPT ![r] = (@ \ {e}) \cup
       {Event(e.ts + Period(r, e.arg), m_uid[r], "null", e.arg)}]
  /\ m_nullEventId' = [m_nullEventId EXCEPT ![r][e.arg] = m_uid[r]]
  /\ m_uid' = [m_uid EXCEPT ![r] = @ + 1]
  /\ UNCHANGED <<m_stop, m_safeTime, m_guaranteeTime, busy, m_queue, calls>>

(* a cancelled event is invoked without effect *)
ProcessCancelled(r, e) ==
  /\ e.kind = "null" /\ e.uid # m_nullEventId[r][e.arg]
  /\ TakeEvent(r, e, "receive")
  /\ m_events' = [m_events EXCEPT ![r] = @ \ {e}]
  /\ UNCHANGED <<m_uid, m_stop, m_safeTime, m_guaranteeTime, m_nullEventId, busy, m_queue,
                 network, calls>>

(* TransmitComplete: ready, or at once busy with the next packet *)
TransmitCompleteIdle(r, e) ==
  /\ e.kind = "complete" /\ m_queue[r][e.arg] = 0
  /\ TakeEvent(r, e, "receive")
  /\ m_events' = [m_events EXCEPT ![r] = @ \ {e}]
  /\ busy' = [busy EXCEPT ![r] = @ \ {e.arg}]
  /\ UNCHANGED <<m_uid, m_stop, m_safeTime, m_guaranteeTime, m_nullEventId, m_queue, network,
                 calls>>

TransmitCompleteNext(r, e, txTime) ==
  /\ e.kind = "complete" /\ m_queue[r][e.arg] > 0
  /\ TakeEvent(r, e, "receive")
  /\ TransmitStart(r, e.arg, txTime, e.ts, m_events[r] \ {e})
  /\ m_queue' = [m_queue EXCEPT ![r][e.arg] = @ - 1]
  /\ UNCHANGED <<m_stop, m_safeTime, m_guaranteeTime, busy, calls>>

-----------------------------------------------------------------------------
(* GetSafeTime of the bundle manager, with the guarantees of rank r *)
SafeTime(r, guarantees) ==
  CHOOSE t \in {MaxTime} \cup {guarantees[n] : n \in Neighbours(r)} :
    t <= MaxTime /\ \A n \in Neighbours(r) : t <= guarantees[n]

(* the body of ReceiveMessages for the first message from neighbour n *)
Receive(r, n) ==
  LET message == Head(network[n][r])
  IN /\ network[n][r] # <<>>
     /\ network' = [network EXCEPT ![n][r] = Tail(@)]
     /\ m_guaranteeTime' = [m_guaranteeTime EXCEPT ![r][n] = message.guarantee]
     /\ IF message.rxTime > 0
        THEN Insert(r, message.rxTime, "user")
        ELSE UNCHANGED <<m_events, m_uid>>

(* ReceiveMessagesNonBlocking takes the messages that have arrived ... *)
ReceiveMessage(r, n) ==
  /\ pc[r] = "receive"
  /\ Receive(r, n)
  /\ UNCHANGED <<pc, m_currentTs, m_stop, m_safeTime, m_nullEventId, busy, m_queue, calls>>

(* ... and CalculateSafeTime follows *)
EndReceive(r) ==
  /\ pc[r] = "receive"
  /\ m_safeTime' = [m_safeTime EXCEPT ![r] = SafeTime(r, m_guaranteeTime[r])]
  /\ pc' = [pc EXCEPT ![r] = "loop"]
  /\ UNCHANGED <<m_events, m_uid, m_currentTs, m_stop, m_guaranteeTime, m_nullEventId, busy,
                 m_queue, network, calls>>

MustWait(r) ==
  /\ pc[r] = "loop"
  /\ ~IsFinished(r)
  /\ \A e \in m_events[r] : e.ts > m_safeTime[r]

(* ReceiveMessagesBlocking: one message from any neighbour, if there is one *)
ReceiveMessages(r) ==
  IF Neighbours(r) = {}
  THEN UNCHANGED <<network, m_guaranteeTime, m_events, m_uid>>
  ELSE \E n \in Neighbours(r) : Receive(r, n)

(* Defect: CalculateSafeTime is not called. *)
ReceiveBlockingMutant(r) ==
  /\ MustWait(r)
  /\ ReceiveMessages(r)
  /\ UNCHANGED <<pc, m_currentTs, m_stop, m_safeTime, m_nullEventId, busy, m_queue, calls>>

(* HandleArrivingMessagesBlocking *)
ReceiveBlocking(r) ==
  /\ MustWait(r)
  /\ ReceiveMessages(r)
  /\ m_safeTime' = [m_safeTime EXCEPT ![r] = SafeTime(r, m_guaranteeTime'[r])]
  /\ UNCHANGED <<pc, m_currentTs, m_stop, m_nullEventId, busy, m_queue, calls>>

RunReturn(r) ==
  /\ pc[r] = "loop"
  /\ IsFinished(r)
  /\ pc' = [pc EXCEPT ![r] = "done"]
  /\ UNCHANGED <<m_events, m_uid, m_currentTs, m_stop, m_safeTime, m_guaranteeTime,
                 m_nullEventId, busy, m_queue, network, calls>>

-----------------------------------------------------------------------------
UserCode(r) ==
  \/ \E delay \in Delays : Schedule(r, delay)
  \/ \E l \in LinksOf(r), txTime \in TxTimes : SendNow(r, l, txTime)
  \/ \E l \in LinksOf(r) : SendLater(r, l)

(* what the engine does without the program's choosing *)
Engine(r) ==
  \/ Run(r)
  \/ EventReturn(r)
  \/ \E e \in m_events[r] :
       \/ ProcessUser(r, e)
       \/ ProcessStop(r, e)
       \/ NullMessageEventHandler(r, e)
       \/ ProcessCancelled(r, e)
       \/ TransmitCompleteIdle(r, e)
       \/ \E txTime \in TxTimes : TransmitCompleteNext(r, e, txTime)
  \/ EndReceive(r)
  \/ ReceiveBlocking(r)
  \/ RunReturn(r)

Next ==
  \E r \in Ranks :
    \/ UserCode(r)
    \/ Engine(r)
    \/ \E n \in Neighbours(r) : ReceiveMessage(r, n)

Spec == Init /\ [][Next]_vars

(* User code returns, the threads of control of all ranks go on, and MPI    *)
(* delivers what was sent.                                                  *)
FairSpec == Spec /\ \A r \in Ranks : WF_vars(Engine(r))

-----------------------------------------------------------------------------
TypeOK ==
  /\ pc \in [Ranks -> {"program", "loop", "event", "receive", "done"}]
  /\ m_uid \in [Ranks -> Nat]
  /\ m_currentTs \in [Ranks -> 0 .. MaxTime]
  /\ m_stop \in [Ranks -> BOOLEAN]
  /\ m_safeTime \in [Ranks -> 0 .. MaxTime]
  /\ busy \in [Ranks -> SUBSET Links]
  /\ calls \in 0 .. MaxCalls
  /\ \A r \in Ranks :
       /\ m_events[r] \subseteq [ts : Nat, uid : Nat, kind : {"user", "stop", "null", "complete"},
                                 arg : Ranks \cup Links \cup {NoArg}]
       /\ m_guaranteeTime[r] \in [Neighbours(r) -> Nat]
       /\ m_nullEventId[r] \in [Neighbours(r) -> Nat]
       /\ m_queue[r] \in [LinksOf(r) -> Nat]
       /\ network[r] \in [Neighbours(r) -> Seq([rxTime : Nat, guarantee : Nat])]

(* "No PacketMessage will ever arrive on any incoming channel in this       *)
(* bundle with a ReceiveTime less than" its guarantee time; and so none is  *)
(* due before the clock of its receiver, nor is any event it became.        *)
NoStraggler ==
  \A r \in Ranks :
    /\ \A e \in m_events[r] : m_currentTs[r] <= e.ts
    /\ \A n \in Neighbours(r) : \A i \in DOMAIN network[n][r] :
         LET message == network[n][r][i]
         IN message.rxTime > 0 =>
              message.rxTime >= m_guaranteeTime[r][n] /\ message.rxTime >= m_currentTs[r]

(* A guarantee is never taken back on its way, so that the clock of the     *)
(* receiver cannot be past it: the assertions of SetGuaranteeTime and       *)
(* CalculateSafeTime.                                                       *)
GuaranteesHold ==
  \A r \in Ranks : \A n \in Neighbours(r) :
    /\ pc[r] # "program" => m_guaranteeTime[r][n] >= m_currentTs[r]
    /\ \A i \in DOMAIN network[n][r] :
         network[n][r][i].guarantee >=
           IF i = 1 THEN m_guaranteeTime[r][n] ELSE network[n][r][i - 1].guarantee

(* The null messages of a bundle never cease: while Run is in its loop one  *)
(* event of the bundle is queued, not cancelled, and due within a period,   *)
(* however packets, cancellations and null messages follow one another.     *)
NullMessagesGoOn ==
  \A r \in Ranks : pc[r] \in {"loop", "event", "receive"} =>
    \A n \in Neighbours(r) :
      \E e \in m_events[r] :
        /\ e.kind = "null" /\ e.arg = n /\ e.uid = m_nullEventId[r][n]
        /\ e.ts <= m_currentTs[r] + Period(r, n)

(* Every rank reaches its stop time and returns from Run, although each     *)
(* waits for messages of the others and no longer sends once it returned.   *)
EveryRunReturns == <>(\A r \in Ranks : pc[r] = "done" /\ m_currentTs[r] = StopTime)
=============================================================================

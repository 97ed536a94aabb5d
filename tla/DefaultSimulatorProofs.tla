------------------------ MODULE DefaultSimulatorProofs ------------------------
(***************************************************************************)
(* Proofs about DefaultSimulator, for every set of contexts and delays and *)
(* every number of events.  No event is lost between the threads or moved  *)
(* twice.  As long as m_uid does not wrap, the handles of a program answer *)
(* exactly, events run in the order of their keys, a cancelled one never   *)
(* runs, and m_unscheduledEvents counts the queue.                         *)
(***************************************************************************)
EXTENDS DefaultSimulator, SequenceTheorems, FiniteSetTheorems, TLAPS

(* Fewer events than the 2^32 the uid counter can tell apart. *)
NoWrap == VALID + MaxEvents < UidModulus

(* What Spec preserves besides the types, as long as NoWrap.               *)
(* Each schedule call has taken one uid, or will when its event is moved.  *)
UidsFollowCalls ==
  m_uid + Len(m_eventsWithContext) + Len(eventsWithContext) = VALID + nextImpl - 1

(* Every queued event comes after the current one. *)
QueueAfterCurrent ==
  /\ m_currentUid < m_uid
  /\ VALID <= m_uid
  /\ \A e \in m_events : VALID <= e.uid /\ e.uid < m_uid /\ KeyLess(Current, e)

(* A handle whose event has left the queue is cancelled or not after the    *)
(* current event.                                                           *)
IdsAccounted ==
  \A id \in ids : id.uid # DESTROY =>
    /\ VALID <= id.uid /\ id.uid < m_uid
    /\ pc # "disposed" =>
         id \in m_events \/ id.impl \in cancelled \/ ~KeyLess(Current, id)

DisposedIsEmpty == pc = "disposed" => m_events = {} /\ m_destroyEvents = <<>>

(* The swapped list exists only in the loop that empties it. *)
LocalListDrained ==
  pc \notin {"startInsert", "drainInsert"} => eventsWithContext = <<>>

IInv ==
  /\ TypeOK
  /\ UidsFollowCalls
  /\ QueueAfterCurrent
  /\ IdsAccounted
  /\ DisposedIsEmpty
  /\ LocalListDrained

-----------------------------------------------------------------------------
(* The 32-bit increment stays in range, and is exact below the modulus. *)
LEMMA UidRange ==
  ASSUME NEW n \in Nat
  PROVE  /\ n % UidModulus \in Uids
         /\ n < UidModulus => n % UidModulus = n
BY ConstantsAssumption DEF Uids

LEMMA InitType == Init => TypeOK
<1> SUFFICES ASSUME Init PROVE TypeOK
  OBVIOUS
<1> USE DEF Init
<1>1. m_uid \in Uids /\ m_currentUid \in Uids
  BY ConstantsAssumption DEF Uids, INVALID, VALID
<1>2. nextImpl \in 1 .. MaxEvents + 1
  BY ConstantsAssumption
<1>3. pc \in ProgramPoints /\ m_currentContext \in Contexts \cup {NoContext}
  BY DEF ProgramPoints
<1>4. m_stop \in BOOLEAN /\ m_eventsWithContextEmpty \in BOOLEAN
  OBVIOUS
<1>5. /\ m_eventsWithContext \in Seq(SideEvent) /\ eventsWithContext \in Seq(SideEvent)
      /\ m_destroyEvents \in Seq(DestroyId)
  OBVIOUS
<1>6. m_unscheduledEvents \in Int /\ m_eventCount \in Nat /\ m_currentTs \in Nat
  OBVIOUS
<1> QED BY <1>1, <1>2, <1>3, <1>4, <1>5, <1>6 DEF TypeOK

(* Every step keeps every variable in its type. *)
LEMMA NextType == TypeOK /\ [Next]_vars => TypeOK'
<1> SUFFICES ASSUME TypeOK, [Next]_vars PROVE TypeOK'
  OBVIOUS
<1> USE ConstantsAssumption DEF TypeOK, Impls
<1>i. ASSUME NEW ts \in Nat, NEW context \in Contexts \cup {NoContext}, NEW impl \in Impls,
             Insert(ts, context, impl)
      PROVE  m_events' \subseteq Event /\ m_uid' \in Uids /\ m_unscheduledEvents' \in Int
  <2>1. m_uid + 1 \in Nat BY DEF Uids
  <2>2. (m_uid + 1) % UidModulus \in Uids BY <2>1, UidRange
  <2>3. m_uid' \in Uids BY <1>i, <2>2 DEF Insert
  <2>4. [ts |-> ts, uid |-> m_uid, context |-> context, impl |-> impl] \in Event
    BY DEF Event
  <2> QED BY <1>i, <2>3, <2>4 DEF Insert
<1>v. ASSUME NEW impl \in Impls, NEW running \in ProgramPoints, NEW after \in ProgramPoints,
             Invoke(impl, running, after)
      PROVE  pc' \in ProgramPoints /\ m_stop' \in BOOLEAN /\ invoked' \subseteq Impls
  BY <1>v DEF Invoke
<1>1. ASSUME NEW delay \in Delays, NEW isStop \in BOOLEAN, Schedule(delay, isStop)
      PROVE  TypeOK'
  <2>1. m_currentTs + delay \in Nat OBVIOUS
  <2>2. nextImpl \in Impls BY <1>1 DEF Schedule
  <2>3. m_events' \subseteq Event /\ m_uid' \in Uids /\ m_unscheduledEvents' \in Int
    BY <1>1, <1>i, <2>1, <2>2 DEF Schedule
  <2>4. ids' \subseteq Event BY <1>1, <2>1, <2>2 DEF Schedule, Event
  <2> QED BY <1>1, <2>2, <2>3, <2>4 DEF Schedule, currentVars, sideVars
<1>2. ASSUME NEW context \in Contexts, NEW delay \in Delays,
             ScheduleWithContext(context, delay)
      PROVE  TypeOK'
  <2>1. m_currentTs + delay \in Nat OBVIOUS
  <2>2. nextImpl \in Impls BY <1>2 DEF ScheduleWithContext
  <2>3. m_events' \subseteq Event /\ m_uid' \in Uids /\ m_unscheduledEvents' \in Int
    BY <1>2, <1>i, <2>1, <2>2 DEF ScheduleWithContext
  <2> QED BY <1>2, <2>2, <2>3 DEF ScheduleWithContext, currentVars, sideVars
<1>3. ASSUME NEW context \in Contexts, NEW delay \in Delays,
             ThreadScheduleWithContext(context, delay)
      PROVE  TypeOK'
  <2>1. nextImpl \in Impls BY <1>3 DEF ThreadScheduleWithContext
  <2>2. [context |-> context, timestamp |-> delay, impl |-> nextImpl] \in SideEvent
    BY <2>1 DEF SideEvent
  <2>3. m_eventsWithContext' \in Seq(SideEvent)
    BY <1>3, <2>2 DEF ThreadScheduleWithContext
  <2>4. m_eventsWithContextEmpty' \in BOOLEAN
    BY <1>3 DEF ThreadScheduleWithContext
  <2> QED BY <1>3, <2>1, <2>3, <2>4 DEF ThreadScheduleWithContext, queueVars, currentVars
<1>4. CASE ScheduleDestroy
  <2>1. nextImpl \in Impls BY <1>4 DEF ScheduleDestroy
  <2>0. m_uid + 1 \in Nat BY DEF Uids
  <2>2. m_uid' \in Uids BY <1>4, <2>0, UidRange DEF ScheduleDestroy
  <2>3. [ts |-> m_currentTs, uid |-> DESTROY, context |-> NoContext, impl |-> nextImpl]
          \in DestroyId
    BY <2>1 DEF Event, DESTROY, DestroyId, Uids
  <2>4. m_destroyEvents' \in Seq(DestroyId) /\ ids' \subseteq Event
    BY <1>4, <2>3 DEF ScheduleDestroy, DestroyId
  <2> QED BY <1>4, <2>1, <2>2, <2>4 DEF ScheduleDestroy, currentVars, sideVars
<1>5. ASSUME NEW id \in ids, Remove(id) PROVE TypeOK'
  <2>1. m_destroyEvents' \in Seq(DestroyId)
    <3>1. CASE UNCHANGED m_destroyEvents
      BY <3>1
    <3>2. CASE \E i \in DOMAIN m_destroyEvents :
                 m_destroyEvents' = SubSeq(m_destroyEvents, 1, i - 1) \o
                   SubSeq(m_destroyEvents, i + 1, Len(m_destroyEvents))
      BY <3>2
    <3> QED BY <1>5, <3>1, <3>2 DEF Remove
  <2>2. id.impl \in Impls BY DEF Event
  <2>3. /\ m_events' \subseteq Event /\ cancelled' \subseteq Impls
        /\ m_unscheduledEvents' \in Int
    <3>1. CASE id.uid = DESTROY
      BY <1>5, <3>1 DEF Remove
    <3>2. CASE id.uid # DESTROY
      <4>1. /\ m_events' = m_events \ {id} /\ cancelled' = cancelled \cup {id.impl}
            /\ m_unscheduledEvents' = m_unscheduledEvents - 1
        BY <1>5, <3>2 DEF Remove
      <4>2. m_unscheduledEvents' \in Int BY <4>1
      <4>3. m_events' \subseteq Event BY <4>1
      <4>4. cancelled' \subseteq Impls BY <2>2, <4>1
      <4> QED BY <4>2, <4>3, <4>4
    <3> QED BY <3>1, <3>2
  <2> QED BY <1>5, <2>1, <2>3 DEF Remove, currentVars, sideVars
<1>6. ASSUME NEW id \in ids, Cancel(id) PROVE TypeOK'
  <2>1. id.impl \in Impls BY DEF Event
  <2> QED BY <1>6, <2>1 DEF Cancel, queueVars, currentVars, sideVars
<1>7. CASE Stop
  BY <1>7 DEF Stop, queueVars, currentVars, sideVars, implVars
<1>8. CASE Run
  BY <1>8 DEF Run, queueVars, currentVars, sideVars, implVars, ProgramPoints
<1>9. CASE DrainNothing
  BY <1>9 DEF DrainNothing, DrainReturn, queueVars, currentVars, sideVars, implVars,
              ProgramPoints
<1>10. CASE DrainSwap
  BY <1>10 DEF DrainSwap, queueVars, currentVars, implVars, ProgramPoints
<1>11. CASE DrainInsert
  <2> DEFINE event == Head(eventsWithContext)
  <2>1. event \in SideEvent /\ Tail(eventsWithContext) \in Seq(SideEvent)
    BY <1>11 DEF DrainInsert
  <2>2. /\ m_currentTs + event.timestamp \in Nat
        /\ event.context \in Contexts \cup {NoContext}
        /\ event.impl \in Impls
    BY <2>1 DEF SideEvent
  <2>3. Insert(m_currentTs + event.timestamp, event.context, event.impl)
    BY <1>11 DEF DrainInsert
  <2>4. m_events' \subseteq Event /\ m_uid' \in Uids /\ m_unscheduledEvents' \in Int
    BY <1>i, <2>2, <2>3
  <2> QED BY <1>11, <2>1, <2>4 DEF DrainInsert, currentVars, sideVars, implVars
<1>12. CASE DrainDone
  BY <1>12 DEF DrainDone, DrainReturn, queueVars, currentVars, sideVars, implVars,
               ProgramPoints
<1>13. CASE ProcessOneEvent
  <2>1. PICK next \in m_events : /\ m_events' = m_events \ {next}
                                 /\ m_currentTs' = next.ts
                                 /\ m_currentContext' = next.context
                                 /\ m_currentUid' = next.uid
                                 /\ Invoke(next.impl, "event", "drain")
    BY <1>13 DEF ProcessOneEvent
  <2>2. /\ next.ts \in Nat /\ next.uid \in Uids /\ next.impl \in Impls
        /\ next.context \in Contexts \cup {NoContext}
    BY DEF Event
  <2>3. pc' \in ProgramPoints /\ m_stop' \in BOOLEAN /\ invoked' \subseteq Impls
    BY <1>v, <2>1, <2>2 DEF ProgramPoints
  <2> QED BY <1>13, <2>1, <2>2, <2>3 DEF ProcessOneEvent, sideVars, implVars
<1>14. CASE EventReturn
  BY <1>14 DEF EventReturn, queueVars, currentVars, sideVars, implVars, ProgramPoints
<1>15. CASE RunReturn
  BY <1>15 DEF RunReturn, queueVars, currentVars, sideVars, implVars, ProgramPoints
<1>16. CASE Destroy
  BY <1>16 DEF Destroy, queueVars, currentVars, sideVars, implVars, ProgramPoints
<1>17. CASE DestroyOne
  <2>1. Head(m_destroyEvents).impl \in Impls
    BY <1>17 DEF DestroyOne, Event, DestroyId
  <2>2. Tail(m_destroyEvents) \in Seq(DestroyId)
    BY <1>17 DEF DestroyOne
  <2>3. pc' \in ProgramPoints /\ m_stop' \in BOOLEAN /\ invoked' \subseteq Impls
    BY <1>17, <1>v, <2>1 DEF DestroyOne, ProgramPoints
  <2> QED BY <1>17, <2>2, <2>3 DEF DestroyOne, queueVars, currentVars, sideVars, implVars
<1>18. CASE DestroyReturn
  BY <1>18 DEF DestroyReturn, queueVars, currentVars, sideVars, implVars, ProgramPoints
<1>19. CASE DoDispose
  <2>1. m_uid + Len(m_eventsWithContext) \in Nat BY DEF Uids
  <2>2. m_uid' \in Uids BY <1>19, <2>1, UidRange DEF DoDispose
  <2> QED BY <1>19, <2>2 DEF DoDispose, currentVars, implVars, ProgramPoints
<1>20. CASE UNCHANGED vars
  BY <1>20 DEF vars, queueVars, currentVars, sideVars, implVars
<1> QED
  BY <1>1, <1>2, <1>3, <1>4, <1>5, <1>6, <1>7, <1>8, <1>9, <1>10, <1>11, <1>12, <1>13,
     <1>14, <1>15, <1>16, <1>17, <1>18, <1>19, <1>20
     DEF Next, UserCall, MainStep, Terminated

(* Type correctness of the engine, whether or not m_uid wraps. *)
THEOREM TypeCorrect == Spec => []TypeOK
BY InitType, NextType, PTL DEF Spec

-----------------------------------------------------------------------------
(* The inductive invariant, as long as m_uid does not wrap. *)
LEMMA InitIInv == ASSUME NoWrap PROVE Init => IInv
<1> SUFFICES ASSUME Init PROVE IInv
  OBVIOUS
<1>1. TypeOK BY InitType
<1>2. UidsFollowCalls BY DEF Init, UidsFollowCalls, VALID
<1>3. QueueAfterCurrent BY DEF Init, QueueAfterCurrent, VALID, INVALID
<1>4. IdsAccounted BY DEF Init, IdsAccounted
<1>5. DisposedIsEmpty /\ LocalListDrained BY DEF Init, DisposedIsEmpty, LocalListDrained
<1> QED BY <1>1, <1>2, <1>3, <1>4, <1>5 DEF IInv

(* Every step preserves it: an insertion takes a larger uid than every      *)
(* event before it and a time stamp not before the current one.             *)
LEMMA NextIInv == ASSUME NoWrap, IInv, [Next]_vars PROVE IInv'
<1>t. TypeOK /\ TypeOK' BY NextType DEF IInv
<1> DEFINE Rest == /\ UidsFollowCalls
                   /\ QueueAfterCurrent
                   /\ IdsAccounted
                   /\ DisposedIsEmpty
                   /\ LocalListDrained
<1> SUFFICES Rest'
  BY <1>t DEF IInv
<1>b. /\ m_uid \in Nat /\ m_currentUid \in Nat /\ m_currentTs \in Nat /\ nextImpl \in Nat
      /\ MaxEvents \in Nat /\ UidModulus \in Nat /\ nextImpl <= MaxEvents + 1
      /\ Len(m_eventsWithContext) \in Nat /\ Len(eventsWithContext) \in Nat
      /\ \A e \in m_events : e.ts \in Nat /\ e.uid \in Nat
      /\ \A id \in ids : id.ts \in Nat /\ id.uid \in Nat
  BY <1>t, ConstantsAssumption DEF TypeOK, Uids, Event
<1>q. ASSUME UNCHANGED <<m_events, m_uid, m_currentUid, m_currentTs, cancelled, nextImpl, ids>>,
             UNCHANGED <<m_eventsWithContext, eventsWithContext>>, eventsWithContext = <<>>,
             pc # "disposed", pc' # "disposed"
      PROVE  Rest'
  <2>1. UidsFollowCalls' BY <1>q DEF IInv, UidsFollowCalls
  <2>2. QueueAfterCurrent' BY <1>q DEF IInv, QueueAfterCurrent, KeyLess, Current
  <2>3. IdsAccounted' BY <1>q DEF IInv, IdsAccounted, KeyLess, Current
  <2>4. DisposedIsEmpty' /\ LocalListDrained'
    BY <1>q DEF DisposedIsEmpty, LocalListDrained
  <2> QED BY <2>1, <2>2, <2>3, <2>4
<1>i. ASSUME NEW ts \in Nat, NEW context, NEW impl, Insert(ts, context, impl),
             m_currentTs <= ts, m_uid < VALID + MaxEvents,
             UNCHANGED <<m_currentTs, m_currentUid>>
      PROVE  m_uid' = m_uid + 1 /\ QueueAfterCurrent'
  <2>1. m_uid + 1 \in Nat /\ m_uid + 1 < UidModulus
    BY <1>b, <1>i DEF NoWrap, VALID
  <2>2. m_uid' = m_uid + 1
    BY <1>i, <2>1, UidRange DEF Insert
  <2> DEFINE new == [ts |-> ts, uid |-> m_uid, context |-> context, impl |-> impl]
  <2>3. VALID <= m_uid /\ m_currentUid < m_uid
    BY DEF IInv, QueueAfterCurrent
  <2>4. KeyLess(Current, new)
    BY <1>b, <1>i, <2>3 DEF KeyLess, Current
  <2>5. ASSUME NEW e \in m_events'
        PROVE  VALID <= e.uid /\ e.uid < m_uid' /\ KeyLess(Current, e)
    <3>1. CASE e = new
      BY <1>b, <2>2, <2>3, <2>4, <3>1
    <3>2. CASE e \in m_events
      BY <1>b, <2>2, <3>2 DEF IInv, QueueAfterCurrent
    <3> QED BY <1>i, <2>5, <3>1, <3>2 DEF Insert
  <2>6. Current' = Current BY <1>i DEF Current
  <2> QED BY <1>b, <1>i, <2>2, <2>3, <2>5, <2>6 DEF QueueAfterCurrent, KeyLess, VALID
<1>1. ASSUME NEW delay \in Delays, NEW isStop \in BOOLEAN, Schedule(delay, isStop)
      PROVE  Rest'
  <2>1. /\ m_currentTs + delay \in Nat /\ m_currentTs <= m_currentTs + delay
        /\ m_uid < VALID + MaxEvents
    BY <1>1, <1>b, ConstantsAssumption DEF Schedule, IInv, UidsFollowCalls, VALID
  <2>2. m_uid' = m_uid + 1 /\ QueueAfterCurrent'
    BY <1>1, <1>i, <2>1 DEF Schedule, currentVars
  <2>3. UidsFollowCalls'
    BY <1>1, <1>b, <2>2 DEF Schedule, sideVars, IInv, UidsFollowCalls, VALID
  <2>4. IdsAccounted'
    <3> DEFINE new == [ts |-> m_currentTs + delay, uid |-> m_uid,
                       context |-> m_currentContext, impl |-> nextImpl]
    <3>1. new \in m_events' BY <1>1 DEF Schedule, Insert
    <3>2. VALID <= m_uid /\ m_uid < m_uid'
      BY <1>b, <2>2 DEF IInv, QueueAfterCurrent
    <3>3. ids' = ids \cup {new} /\ m_events \subseteq m_events' /\ cancelled' = cancelled
          /\ pc' = pc /\ Current' = Current
      BY <1>1 DEF Schedule, Insert, currentVars, Current
    <3> QED BY <1>b, <2>2, <3>1, <3>2, <3>3 DEF IInv, IdsAccounted, KeyLess, VALID
  <2>5. DisposedIsEmpty' /\ LocalListDrained'
    BY <1>1 DEF Schedule, IInv, InUserCode, DisposedIsEmpty, LocalListDrained
  <2> QED BY <2>2, <2>3, <2>4, <2>5
<1>2. ASSUME NEW context \in Contexts, NEW delay \in Delays,
             ScheduleWithContext(context, delay)
      PROVE  Rest'
  <2>1. /\ m_currentTs + delay \in Nat /\ m_currentTs <= m_currentTs + delay
        /\ m_uid < VALID + MaxEvents
    BY <1>2, <1>b, ConstantsAssumption
       DEF ScheduleWithContext, IInv, UidsFollowCalls, VALID
  <2>2. m_uid' = m_uid + 1 /\ QueueAfterCurrent'
    BY <1>2, <1>i, <2>1 DEF ScheduleWithContext, currentVars
  <2>3. UidsFollowCalls'
    BY <1>2, <1>b, <2>2 DEF ScheduleWithContext, sideVars, IInv, UidsFollowCalls, VALID
  <2>4. IdsAccounted'
    BY <1>2, <1>b, <2>2 DEF ScheduleWithContext, Insert, currentVars, IInv, IdsAccounted,
                            KeyLess, Current
  <2>5. DisposedIsEmpty' /\ LocalListDrained'
    BY <1>2 DEF ScheduleWithContext, IInv, InUserCode, DisposedIsEmpty, LocalListDrained
  <2> QED BY <2>2, <2>3, <2>4, <2>5
<1>3. ASSUME NEW context \in Contexts, NEW delay \in Delays,
             ThreadScheduleWithContext(context, delay)
      PROVE  Rest'
  <2> USE DEF ThreadScheduleWithContext, queueVars, currentVars
  <2>1. Len(m_eventsWithContext') = Len(m_eventsWithContext) + 1
    BY <1>3, <1>t DEF TypeOK
  <2>2. UidsFollowCalls' BY <1>3, <1>b, <2>1 DEF IInv, UidsFollowCalls, VALID
  <2>3. QueueAfterCurrent' BY <1>3 DEF IInv, QueueAfterCurrent, KeyLess, Current
  <2>4. IdsAccounted' BY <1>3 DEF IInv, IdsAccounted, KeyLess, Current
  <2>5. DisposedIsEmpty' /\ LocalListDrained'
    BY <1>3 DEF IInv, DisposedIsEmpty, LocalListDrained
  <2> QED BY <2>2, <2>3, <2>4, <2>5
<1>4. CASE ScheduleDestroy
  <2> USE DEF ScheduleDestroy, currentVars, sideVars
  <2>1. m_uid + 1 \in Nat /\ m_uid + 1 < UidModulus
    BY <1>4, <1>b DEF NoWrap, IInv, UidsFollowCalls, VALID
  <2>2. m_uid' = m_uid + 1 BY <1>4, <2>1, UidRange
  <2>3. UidsFollowCalls' BY <1>4, <1>b, <2>2 DEF IInv, UidsFollowCalls, VALID
  <2>4. QueueAfterCurrent'
    BY <1>4, <1>b, <2>2 DEF IInv, QueueAfterCurrent, KeyLess, Current, VALID
  <2>5. IdsAccounted'
    BY <1>4, <1>b, <2>2 DEF IInv, IdsAccounted, KeyLess, Current
  <2>6. DisposedIsEmpty' /\ LocalListDrained'
    BY <1>4 DEF IInv, InUserCode, DisposedIsEmpty, LocalListDrained
  <2> QED BY <2>3, <2>4, <2>5, <2>6
<1>5. ASSUME NEW id \in ids, Remove(id) PROVE Rest'
  <2> USE DEF Remove, currentVars, sideVars
  <2>1. UidsFollowCalls' BY <1>5 DEF IInv, UidsFollowCalls
  <2>2. m_events' \subseteq m_events /\ cancelled \subseteq cancelled'
        /\ \A e \in m_events : e \in m_events' \/ e.impl \in cancelled'
    <3>1. CASE id.uid = DESTROY BY <1>5, <3>1
    <3>2. CASE id.uid # DESTROY BY <1>5, <3>2
    <3> QED BY <3>1, <3>2
  <2>3. QueueAfterCurrent'
    BY <1>5, <2>2 DEF IInv, QueueAfterCurrent, KeyLess, Current
  <2>4. IdsAccounted'
    BY <1>5, <2>2 DEF IInv, IdsAccounted, KeyLess, Current
  <2>5. DisposedIsEmpty' /\ LocalListDrained'
    BY <1>5 DEF IInv, InUserCode, DisposedIsEmpty, LocalListDrained
  <2> QED BY <2>1, <2>3, <2>4, <2>5
<1>6. ASSUME NEW id \in ids, Cancel(id) PROVE Rest'
  <2> USE DEF Cancel, queueVars, currentVars, sideVars
  <2>1. UidsFollowCalls' BY <1>6 DEF IInv, UidsFollowCalls
  <2>2. QueueAfterCurrent' BY <1>6 DEF IInv, QueueAfterCurrent, KeyLess, Current
  <2>3. IdsAccounted' BY <1>6 DEF IInv, IdsAccounted, KeyLess, Current
  <2>4. DisposedIsEmpty' /\ LocalListDrained'
    BY <1>6 DEF IInv, InUserCode, DisposedIsEmpty, LocalListDrained
  <2> QED BY <2>1, <2>2, <2>3, <2>4
<1>7. CASE DrainSwap
  <2> USE DEF DrainSwap, queueVars, currentVars, implVars
  <2>1. eventsWithContext = <<>> BY <1>7 DEF IInv, LocalListDrained
  <2>2. UidsFollowCalls' BY <1>7, <1>b, <2>1 DEF IInv, UidsFollowCalls
  <2>3. QueueAfterCurrent' BY <1>7 DEF IInv, QueueAfterCurrent, KeyLess, Current
  <2>4. IdsAccounted' BY <1>7 DEF IInv, IdsAccounted, KeyLess, Current
  <2>5. DisposedIsEmpty' /\ LocalListDrained'
    BY <1>7 DEF DisposedIsEmpty, LocalListDrained
  <2> QED BY <2>2, <2>3, <2>4, <2>5
<1>8. CASE DrainInsert
  <2> DEFINE event == Head(eventsWithContext)
  <2>1. event \in SideEvent /\ Len(eventsWithContext') = Len(eventsWithContext) - 1
        /\ Len(eventsWithContext) >= 1
    BY <1>8, <1>t DEF DrainInsert, TypeOK
  <2>2. /\ m_currentTs + event.timestamp \in Nat
        /\ m_currentTs <= m_currentTs + event.timestamp
    BY <1>b, <2>1 DEF SideEvent
  <2>3. m_uid < VALID + MaxEvents
    BY <1>b, <2>1 DEF IInv, UidsFollowCalls, VALID
  <2>4. Insert(m_currentTs + event.timestamp, event.context, event.impl)
        /\ UNCHANGED <<m_currentTs, m_currentUid>>
    BY <1>8 DEF DrainInsert, currentVars
  <2>5. m_uid' = m_uid + 1 /\ QueueAfterCurrent'
    BY <1>i, <2>2, <2>3, <2>4
  <2>6. UidsFollowCalls'
    BY <1>8, <1>b, <2>1, <2>5 DEF DrainInsert, sideVars, implVars, IInv, UidsFollowCalls, VALID
  <2>7. IdsAccounted'
    <3>1. UNCHANGED <<ids, cancelled, pc, Current>> /\ m_events \subseteq m_events'
      BY <1>8, <2>4 DEF DrainInsert, Insert, implVars, currentVars, Current
    <3> QED BY <1>b, <2>5, <3>1 DEF IInv, IdsAccounted, KeyLess
  <2>8. DisposedIsEmpty' /\ LocalListDrained'
    BY <1>8 DEF DrainInsert, DisposedIsEmpty, LocalListDrained
  <2> QED BY <2>5, <2>6, <2>7, <2>8
<1>9. CASE ProcessOneEvent
  <2> USE DEF ProcessOneEvent, sideVars, implVars
  <2>1. PICK next \in m_events : /\ IsNext(next)
                                 /\ m_events' = m_events \ {next}
                                 /\ m_currentTs' = next.ts
                                 /\ m_currentUid' = next.uid
                                 /\ Invoke(next.impl, "event", "drain")
    BY <1>9
  <2>2. pc = "loop" /\ pc' \in {"event", "drain"}
    BY <1>9, <2>1 DEF Invoke
  <2>3. UidsFollowCalls' BY <1>9 DEF IInv, UidsFollowCalls
  <2>4. QueueAfterCurrent'
    BY <1>9, <1>b, <2>1 DEF IInv, QueueAfterCurrent, IsNext, KeyLess, Current
  <2>5. IdsAccounted'
    <3>1. KeyLess(Current, next) BY DEF IInv, QueueAfterCurrent
    <3> SUFFICES ASSUME NEW id \in ids, id.uid # DESTROY,
                        id \notin m_events', id.impl \notin cancelled
                 PROVE  ~KeyLess(Current', id)
      BY <1>9, <2>2 DEF IInv, IdsAccounted
    <3>2. CASE id = next
      BY <1>b, <2>1, <3>2 DEF KeyLess, Current
    <3>3. CASE id \notin m_events
      <4>1. ~KeyLess(Current, id) BY <2>2, <3>3 DEF IInv, IdsAccounted
      <4> QED BY <1>b, <2>1, <3>1, <4>1 DEF KeyLess, Current
    <3> QED BY <2>1, <3>2, <3>3
  <2>6. DisposedIsEmpty' /\ LocalListDrained'
    BY <1>9, <2>2 DEF IInv, DisposedIsEmpty, LocalListDrained
  <2> QED BY <2>3, <2>4, <2>5, <2>6
<1>10. CASE DoDispose
  <2> USE DEF DoDispose, currentVars, implVars
  <2> DEFINE n == m_uid + Len(m_eventsWithContext)
  <2>1. n \in Nat /\ n < UidModulus
    BY <1>b DEF NoWrap, IInv, UidsFollowCalls, VALID
  <2>2. m_uid' = n BY <1>10, <2>1, UidRange
  <2>3. UidsFollowCalls' BY <1>10, <1>b, <2>2 DEF IInv, UidsFollowCalls
  <2>4. QueueAfterCurrent'
    BY <1>10, <1>b, <2>2 DEF IInv, QueueAfterCurrent, VALID
  <2>5. IdsAccounted' BY <1>10, <1>b, <2>2 DEF IInv, IdsAccounted
  <2>6. DisposedIsEmpty' /\ LocalListDrained'
    BY <1>10 DEF IInv, DisposedIsEmpty, LocalListDrained
  <2> QED BY <2>3, <2>4, <2>5, <2>6
<1>11. CASE Stop \/ Run \/ DrainNothing \/ DrainDone \/ EventReturn \/ RunReturn
            \/ Destroy \/ DestroyOne \/ DestroyReturn
  <2>1. /\ UNCHANGED <<queueVars, m_currentUid, m_currentTs, sideVars, implVars>>
        /\ UNCHANGED eventsWithContext
        /\ pc # "disposed" /\ pc' # "disposed"
    BY <1>11 DEF Stop, InUserCode, Run, DrainNothing, DrainDone, DrainReturn, EventReturn,
                 RunReturn, Destroy, DestroyOne, Invoke, DestroyReturn, currentVars
  <2>2. eventsWithContext = <<>>
    BY <1>11 DEF Stop, InUserCode, Run, DrainNothing, DrainDone, EventReturn, RunReturn,
                 Destroy, DestroyOne, DestroyReturn, IInv, LocalListDrained
  <2> QED BY <1>q, <2>1, <2>2 DEF queueVars, sideVars, implVars
<1>12. CASE UNCHANGED vars
  <2> USE DEF vars, queueVars, currentVars, sideVars, implVars
  <2>1. UidsFollowCalls' BY <1>12 DEF IInv, UidsFollowCalls
  <2>2. QueueAfterCurrent' BY <1>12 DEF IInv, QueueAfterCurrent, KeyLess, Current
  <2>3. IdsAccounted' BY <1>12 DEF IInv, IdsAccounted, KeyLess, Current
  <2>4. DisposedIsEmpty' /\ LocalListDrained'
    BY <1>12 DEF IInv, DisposedIsEmpty, LocalListDrained
  <2> QED BY <2>1, <2>2, <2>3, <2>4
<1> QED
  BY <1>1, <1>2, <1>3, <1>4, <1>5, <1>6, <1>7, <1>8, <1>9, <1>10, <1>11, <1>12
     DEF Next, UserCall, MainStep, Terminated

LEMMA SpecIInv == ASSUME NoWrap PROVE Spec => []IInv
BY InitIInv, NextIInv, PTL DEF Spec

-----------------------------------------------------------------------------
(* In a state of the invariant IsExpired answers exactly. *)
LEMMA IInvExpired == IInv => ExpiredIsExact
<1> SUFFICES ASSUME IInv, NEW id \in ids, id.uid # DESTROY
             PROVE  ~IsExpired(id) <=> id.impl \notin cancelled /\ id \in m_events
  BY DEF ExpiredIsExact
<1>1. CASE pc = "disposed"
  BY <1>1 DEF IInv, DisposedIsEmpty, IsExpired
<1>3. CASE pc # "disposed"
  <2>1. id.ts \in Nat /\ id.uid \in Nat /\ m_currentTs \in Nat /\ m_currentUid \in Nat
    BY ConstantsAssumption DEF IInv, TypeOK, Event, Uids
  <2>2. IsExpired(id) <=> id.impl \in cancelled \/ ~KeyLess(Current, id)
    BY <1>3, <2>1 DEF IsExpired, KeyLess, Current
  <2>3. id \in m_events => KeyLess(Current, id)
    BY DEF IInv, QueueAfterCurrent
  <2>4. id \in m_events \/ id.impl \in cancelled \/ ~KeyLess(Current, id)
    BY <1>3 DEF IInv, IdsAccounted
  <2> QED BY <1>3, <2>2, <2>3, <2>4
<1> QED BY <1>1, <1>3

(* Simulator::IsExpired is exact: under NoWrap, for every program, Remove   *)
(* and Cancel act exactly on the scheduled events that are still to run.    *)
THEOREM ExpiredExact == ASSUME NoWrap PROVE Spec => []ExpiredIsExact
BY IInvExpired, SpecIInv, PTL

(* ProcessOneEvent never goes back: under NoWrap the key of the current      *)
(* event strictly grows, so time is monotone and ties run first-in first-out.*)
THEOREM KeyOrder == ASSUME NoWrap PROVE Spec => RunsInKeyOrder
<1>1. ASSUME IInv, [Next]_vars
      PROVE  [Current' # Current => KeyLess(Current, Current')]_vars
  <2>1. CASE ProcessOneEvent
    <3>1. PICK next \in m_events : m_currentTs' = next.ts /\ m_currentUid' = next.uid
      BY <2>1 DEF ProcessOneEvent
    <3> QED BY <1>1, <3>1 DEF IInv, QueueAfterCurrent, KeyLess, Current
  <2>2. CASE ~ProcessOneEvent
    <3>1. Current' = Current
      BY <1>1, <2>2 DEF Next, UserCall, MainStep, Terminated, Schedule, ScheduleWithContext,
        ThreadScheduleWithContext, ScheduleDestroy, Remove, Cancel, Stop, Run, DrainNothing,
        DrainSwap, DrainInsert, DrainDone, EventReturn, RunReturn, Destroy, DestroyOne,
        DestroyReturn, DoDispose, vars, currentVars, Current
    <3> QED BY <3>1
  <2> QED BY <2>1, <2>2
<1> QED BY <1>1, SpecIInv, PTL DEF Spec, RunsInKeyOrder

-----------------------------------------------------------------------------
(* Where events are.  This part does not need NoWrap: the EventImpl of an   *)
(* event, unlike its uid, is an object of its own.                          *)
ImplsOf(s)  == {s[i].impl : i \in DOMAIN s}
Distinct(s) == \A i, j \in DOMAIN s : s[i].impl = s[j].impl => i = j

Scheduled    == 1 .. nextImpl - 1
DestroyImpls == ImplsOf(m_destroyEvents)

(* Each of the four containers holds an EventImpl at most once. *)
HeldOnce ==
  /\ Distinct(m_eventsWithContext) /\ Distinct(eventsWithContext) /\ Distinct(m_destroyEvents)
  /\ \A e, f \in m_events : e.impl = f.impl => e = f

(* No two of them hold the same one, and none holds one that was called. *)
HeldApart ==
  /\ SideImpls \cap LocalImpls = {}
  /\ QueueImpls \cap (SideImpls \cup LocalImpls) = {}
  /\ DestroyImpls \cap (SideImpls \cup LocalImpls \cup QueueImpls) = {}
  /\ invoked \cap (SideImpls \cup LocalImpls \cup QueueImpls \cup DestroyImpls) = {}

(* They hold only events that a schedule call has made. *)
HeldScheduled ==
  SideImpls \cup LocalImpls \cup QueueImpls \cup DestroyImpls \cup invoked \subseteq Scheduled

(* Until DoDispose every scheduled event is somewhere. *)
Covered ==
  pc # "disposed" =>
    Scheduled \subseteq
      SideImpls \cup LocalImpls \cup QueueImpls \cup DestroyIds \cup invoked \cup cancelled

PInv ==
  /\ TypeOK
  /\ LocalListDrained
  /\ HeldOnce
  /\ HeldApart
  /\ HeldScheduled
  /\ Covered

(* What the list operations of the code do to the EventImpls held. *)
LEMMA AppendImpls ==
  ASSUME NEW S, NEW s \in Seq(S), NEW e \in S
  PROVE  /\ ImplsOf(Append(s, e)) = ImplsOf(s) \cup {e.impl}
         /\ Distinct(s) /\ e.impl \notin ImplsOf(s) => Distinct(Append(s, e))
<1>1. /\ DOMAIN Append(s, e) = 1 .. Len(s) + 1 /\ DOMAIN s = 1 .. Len(s)
      /\ Len(s) \in Nat
      /\ \A i \in 1 .. Len(s) : Append(s, e)[i] = s[i]
      /\ Append(s, e)[Len(s) + 1] = e
  OBVIOUS
<1> DEFINE t == Append(s, e)
<1>2. ImplsOf(t) = ImplsOf(s) \cup {e.impl}
  <2>1. \A i \in DOMAIN t : t[i].impl \in ImplsOf(s) \cup {e.impl}
    BY <1>1 DEF ImplsOf
  <2>2. \A i \in DOMAIN s : i \in DOMAIN t /\ t[i] = s[i]
    BY <1>1
  <2>3. Len(s) + 1 \in DOMAIN t /\ t[Len(s) + 1] = e
    BY <1>1
  <2> QED BY <2>1, <2>2, <2>3 DEF ImplsOf
<1>3. ASSUME Distinct(s), e.impl \notin ImplsOf(s) PROVE Distinct(t)
  <2> SUFFICES ASSUME NEW i \in DOMAIN t, NEW j \in DOMAIN t, t[i].impl = t[j].impl PROVE i = j
    BY DEF Distinct
  <2>1. \A k \in DOMAIN s : s[k].impl # e.impl
    BY <1>3 DEF ImplsOf
  <2>2. (i \in DOMAIN s \/ i = Len(s) + 1) /\ (j \in DOMAIN s \/ j = Len(s) + 1)
    BY <1>1
  <2> QED BY <1>1, <1>3, <2>1, <2>2 DEF Distinct
<1> QED BY <1>2, <1>3

LEMMA TailImpls ==
  ASSUME NEW S, NEW s \in Seq(S), s # <<>>
  PROVE  /\ ImplsOf(s) = ImplsOf(Tail(s)) \cup {Head(s).impl}
         /\ Distinct(s) => Distinct(Tail(s)) /\ Head(s).impl \notin ImplsOf(Tail(s))
<1> DEFINE t == Tail(s)
<1>1. /\ Len(s) \in Nat /\ Len(s) >= 1 /\ DOMAIN s = 1 .. Len(s)
      /\ t \in Seq(S) /\ Len(t) = Len(s) - 1
  OBVIOUS
<1>2. DOMAIN t = 1 .. Len(s) - 1 /\ \A i \in 1 .. Len(s) - 1 : t[i] = s[i + 1]
  BY <1>1
<1>3. Head(s) = s[1]
  OBVIOUS
<1> HIDE DEF t
<1>4. \A i \in DOMAIN t : i + 1 \in DOMAIN s /\ t[i] = s[i + 1] /\ i + 1 # 1
  BY <1>1, <1>2
<1>5. \A i \in DOMAIN s : i = 1 \/ (i - 1 \in DOMAIN t /\ t[i - 1] = s[i])
  BY <1>1, <1>2
<1>6. ImplsOf(s) = ImplsOf(t) \cup {Head(s).impl}
  <2>1. \A i \in DOMAIN t : t[i].impl \in ImplsOf(s)
    BY <1>4 DEF ImplsOf
  <2>2. 1 \in DOMAIN s
    BY <1>1
  <2>3. Head(s).impl \in ImplsOf(s)
    BY <1>3, <2>2 DEF ImplsOf
  <2>4. \A i \in DOMAIN s : s[i].impl \in ImplsOf(t) \cup {Head(s).impl}
    BY <1>3, <1>5 DEF ImplsOf
  <2> QED BY <2>1, <2>3, <2>4 DEF ImplsOf
<1>7. ASSUME Distinct(s) PROVE Distinct(t) /\ Head(s).impl \notin ImplsOf(t)
  <2>1. 1 \in DOMAIN s
    BY <1>1
  <2>2. Head(s).impl \notin ImplsOf(t)
    BY <1>3, <1>4, <1>7, <2>1 DEF ImplsOf, Distinct
  <2>3. ASSUME NEW i \in DOMAIN t, NEW j \in DOMAIN t, t[i].impl = t[j].impl PROVE i = j
    <3>1. i + 1 = j + 1
      BY <1>4, <1>7, <2>3 DEF Distinct
    <3> QED BY <1>1, <1>2, <3>1
  <2> QED BY <2>2, <2>3 DEF Distinct
<1> QED BY <1>6, <1>7 DEF t

LEMMA CutImpls ==
  ASSUME NEW S, NEW s \in Seq(S), NEW n \in DOMAIN s
  PROVE  LET t == SubSeq(s, 1, n - 1) \o SubSeq(s, n + 1, Len(s))
         IN  ImplsOf(t) \subseteq ImplsOf(s) /\ (Distinct(s) => Distinct(t))
<1> DEFINE q == SubSeq(s, 1, n - 1)
           r == SubSeq(s, n + 1, Len(s))
           t == q \o r
<1>1. Len(s) \in Nat /\ n \in 1 .. Len(s) /\ DOMAIN s = 1 .. Len(s)
  OBVIOUS
<1>2. Len(q) = n - 1 /\ q \in Seq(S) /\ \A i \in 1 .. n - 1 : q[i] = s[i]
  BY <1>1
<1>3. Len(r) = Len(s) - n /\ r \in Seq(S) /\ \A i \in 1 .. Len(s) - n : r[i] = s[n + i]
  BY <1>1
<1> HIDE DEF q, r
<1>4. /\ DOMAIN t = 1 .. Len(s) - 1
      /\ \A i \in 1 .. n - 1 : t[i] = s[i]
      /\ \A i \in n .. Len(s) - 1 : t[i] = s[i + 1]
  <2>1. t \in Seq(S) /\ Len(t) = Len(q) + Len(r)
    BY <1>2, <1>3, ConcatProperties
  <2>2. \A i \in 1 .. Len(q) + Len(r) : t[i] = IF i <= Len(q) THEN q[i] ELSE r[i - Len(q)]
    BY <1>2, <1>3, ConcatProperties
  <2>5. DOMAIN t = 1 .. Len(t)
    BY <2>1
  <2>3. ASSUME NEW i \in 1 .. n - 1 PROVE t[i] = s[i]
    BY <1>1, <1>2, <1>3, <2>2
  <2>4. ASSUME NEW i \in n .. Len(s) - 1 PROVE t[i] = s[i + 1]
    <3>1. t[i] = r[i - Len(q)]
      BY <1>1, <1>2, <1>3, <2>2
    <3>2. i - Len(q) \in 1 .. Len(s) - n /\ n + (i - Len(q)) = i + 1
      BY <1>1, <1>2
    <3> QED BY <1>3, <3>1, <3>2
  <2> QED BY <1>1, <1>2, <1>3, <2>1, <2>3, <2>4, <2>5
<1> HIDE DEF t
<1>5. \A i \in DOMAIN t : \/ i \in DOMAIN s /\ i < n /\ t[i] = s[i]
                          \/ i + 1 \in DOMAIN s /\ i >= n /\ t[i] = s[i + 1]
  BY <1>1, <1>4
<1>6. ImplsOf(t) \subseteq ImplsOf(s)
  BY <1>5 DEF ImplsOf
<1>7. ASSUME Distinct(s) PROVE Distinct(t)
  <2> SUFFICES ASSUME NEW i \in DOMAIN t, NEW j \in DOMAIN t, t[i].impl = t[j].impl PROVE i = j
    BY DEF Distinct
  <2>1. i \in Int /\ j \in Int
    BY <1>1, <1>4
  <2> DEFINE I == IF i < n THEN i ELSE i + 1
             J == IF j < n THEN j ELSE j + 1
  <2>2. I \in DOMAIN s /\ J \in DOMAIN s /\ t[i] = s[I] /\ t[j] = s[J]
    BY <1>1, <1>5, <2>1
  <2>3. I = J
    BY <1>7, <2>2 DEF Distinct
  <2> QED BY <1>1, <2>1, <2>3
<1> QED BY <1>6, <1>7 DEF t, q, r

LEMMA InitPInv == Init => PInv
<1> SUFFICES ASSUME Init PROVE PInv
  OBVIOUS
<1>1. TypeOK
  BY InitType
<1>2. Scheduled = {}
  BY DEF Init, Scheduled
<1>3. LocalListDrained /\ HeldOnce
  BY DEF Init, LocalListDrained, HeldOnce, Distinct
<1>4. SideImpls = {} /\ LocalImpls = {} /\ QueueImpls = {} /\ DestroyImpls = {} /\ invoked = {}
  BY DEF Init, SideImpls, LocalImpls, QueueImpls, DestroyImpls, ImplsOf
<1>5. HeldApart /\ HeldScheduled /\ Covered
  BY <1>2, <1>4 DEF HeldApart, HeldScheduled, Covered
<1> QED BY <1>1, <1>3, <1>5 DEF PInv

(* A step moves an EventImpl from one container to the next, or to those    *)
(* that were called or cancelled.                                           *)
LEMMA NextPInv == PInv /\ [Next]_vars => PInv'
<1> SUFFICES ASSUME PInv, [Next]_vars PROVE PInv'
  OBVIOUS
<1>t. TypeOK /\ TypeOK'
  BY NextType DEF PInv
<1>p. LocalListDrained /\ HeldOnce /\ HeldApart /\ HeldScheduled /\ Covered
  BY DEF PInv
<1>r. /\ nextImpl' = nextImpl => Scheduled' = Scheduled
      /\ nextImpl' = nextImpl + 1 => Scheduled' = Scheduled \cup {nextImpl}
      /\ nextImpl \notin Scheduled
  <2>1. nextImpl \in Nat /\ nextImpl >= 1
    BY <1>t, ConstantsAssumption DEF TypeOK
  <2> QED BY <2>1 DEF Scheduled
<1>s. /\ SideImpls = ImplsOf(m_eventsWithContext) /\ SideImpls' = ImplsOf(m_eventsWithContext')
      /\ LocalImpls = ImplsOf(eventsWithContext) /\ LocalImpls' = ImplsOf(eventsWithContext')
      /\ DestroyImpls = ImplsOf(m_destroyEvents) /\ DestroyImpls' = ImplsOf(m_destroyEvents')
  BY DEF SideImpls, LocalImpls, DestroyImpls, ImplsOf
<1>seq. /\ m_eventsWithContext \in Seq(SideEvent) /\ eventsWithContext \in Seq(SideEvent)
        /\ m_destroyEvents \in Seq(DestroyId)
  BY <1>t DEF TypeOK
<1> DEFINE Places == HeldApart /\ HeldScheduled /\ Covered
           Good   == LocalListDrained /\ HeldOnce /\ Places
           Same   == UNCHANGED <<m_eventsWithContext, eventsWithContext, m_destroyEvents>>
(* an insertion puts an EventImpl that is not in the queue there *)
<1>i. ASSUME NEW ts, NEW context, NEW impl, Insert(ts, context, impl), impl \notin QueueImpls
      PROVE  /\ QueueImpls' = QueueImpls \cup {impl}
             /\ \A e, f \in m_events' : e.impl = f.impl => e = f
  <2> DEFINE new == [ts |-> ts, uid |-> m_uid, context |-> context, impl |-> impl]
  <2>1. m_events' = m_events \cup {new} /\ new.impl = impl
    BY <1>i DEF Insert
  <2>2. \A e \in m_events : e.impl # impl
    BY <1>i DEF QueueImpls
  <2> HIDE DEF new
  <2>3. QueueImpls' = QueueImpls \cup {impl}
    BY <2>1 DEF QueueImpls
  <2> QED BY <1>p, <2>1, <2>2, <2>3 DEF HeldOnce
(* a removal takes out just that EventImpl *)
<1>o. ASSUME NEW x \in m_events, m_events' = m_events \ {x}
      PROVE  /\ QueueImpls' = QueueImpls \ {x.impl} /\ x.impl \in QueueImpls
             /\ \A e, f \in m_events' : e.impl = f.impl => e = f
  BY <1>o, <1>p DEF HeldOnce, QueueImpls
<1>d. ids \subseteq ids' => DestroyIds \subseteq DestroyIds'
  BY DEF DestroyIds
<1>n. nextImpl \notin SideImpls \cup LocalImpls \cup QueueImpls \cup DestroyImpls \cup invoked
  BY <1>p, <1>r DEF HeldScheduled
<1>1. ASSUME NEW ts, NEW context, Insert(ts, context, nextImpl), InUserCode,
             nextImpl' = nextImpl + 1, ids \subseteq ids', Same,
             UNCHANGED <<cancelled, pc, invoked>>
      PROVE  Good'
  <2>1. QueueImpls' = QueueImpls \cup {nextImpl}
        /\ \A e, f \in m_events' : e.impl = f.impl => e = f
    BY <1>1, <1>i, <1>n
  <2>2. SideImpls' = SideImpls /\ LocalImpls' = LocalImpls /\ DestroyImpls' = DestroyImpls
    BY <1>1, <1>s
  <2>3. Scheduled' = Scheduled \cup {nextImpl} /\ DestroyIds \subseteq DestroyIds'
    BY <1>1, <1>r, <1>d
  <2>4. Places'
    BY <1>1, <1>n, <1>p, <2>1, <2>2, <2>3 DEF HeldApart, HeldScheduled, Covered
  <2>5. LocalListDrained' /\ HeldOnce'
    BY <1>1, <1>p, <2>1 DEF LocalListDrained, HeldOnce, Distinct
  <2> QED BY <2>4, <2>5
<1>2. ASSUME NEW delay \in Delays, NEW isStop \in BOOLEAN, Schedule(delay, isStop) PROVE Good'
  <2>1. ids \subseteq ids' /\ nextImpl' = nextImpl + 1 /\ InUserCode
    BY <1>2 DEF Schedule
  <2>2. Insert(m_currentTs + delay, m_currentContext, nextImpl)
    BY <1>2 DEF Schedule
  <2>3. Same /\ UNCHANGED <<cancelled, pc, invoked>>
    BY <1>2 DEF Schedule, sideVars
  <2> QED BY <1>1, <2>1, <2>2, <2>3
<1>3. ASSUME NEW context \in Contexts, NEW delay \in Delays, ScheduleWithContext(context, delay)
      PROVE  Good'
  <2>1. ids \subseteq ids' /\ nextImpl' = nextImpl + 1 /\ InUserCode
    BY <1>3 DEF ScheduleWithContext
  <2>2. Insert(m_currentTs + delay, context, nextImpl)
    BY <1>3 DEF ScheduleWithContext
  <2>3. Same /\ UNCHANGED <<cancelled, pc, invoked>>
    BY <1>3 DEF ScheduleWithContext, sideVars
  <2> QED BY <1>1, <2>1, <2>2, <2>3
<1>4. ASSUME NEW context \in Contexts, NEW delay \in Delays,
             ThreadScheduleWithContext(context, delay)
      PROVE  Good'
  <2> DEFINE new == [context |-> context, timestamp |-> delay, impl |-> nextImpl]
  <2>0. new \in SideEvent
    <3>1. nextImpl \in Impls
      BY <1>4, <1>t, ConstantsAssumption DEF ThreadScheduleWithContext, TypeOK, Impls
    <3> QED BY <3>1, ConstantsAssumption DEF SideEvent
  <2>1. /\ m_eventsWithContext' = Append(m_eventsWithContext, new) /\ new.impl = nextImpl
        /\ UNCHANGED <<m_events, ids, cancelled, m_destroyEvents, eventsWithContext, pc, invoked>>
        /\ nextImpl' = nextImpl + 1
    BY <1>4 DEF ThreadScheduleWithContext, queueVars
  <2> HIDE DEF new
  <2>2. SideImpls' = SideImpls \cup {nextImpl} /\ Distinct(m_eventsWithContext')
    <3>1. Distinct(m_eventsWithContext)
      BY <1>p DEF HeldOnce
    <3> QED BY <1>n, <1>s, <1>seq, <2>0, <2>1, <3>1, AppendImpls
  <2>3. LocalImpls' = LocalImpls /\ DestroyImpls' = DestroyImpls /\ QueueImpls' = QueueImpls
        /\ Scheduled' = Scheduled \cup {nextImpl} /\ DestroyIds' = DestroyIds
    BY <1>r, <1>s, <2>1 DEF QueueImpls, DestroyIds
  <2>4. Places'
    BY <1>n, <1>p, <2>1, <2>2, <2>3 DEF HeldApart, HeldScheduled, Covered
  <2>5. LocalListDrained' /\ HeldOnce'
    BY <1>p, <2>1, <2>2 DEF LocalListDrained, HeldOnce
  <2> QED BY <2>4, <2>5
<1>5. ASSUME ScheduleDestroy PROVE Good'
  <2> DEFINE new == [ts |-> m_currentTs, uid |-> DESTROY, context |-> NoContext,
                     impl |-> nextImpl]
  <2>0. new \in DestroyId
    <3>1. nextImpl \in Impls
      BY <1>5, <1>t, ConstantsAssumption DEF ScheduleDestroy, TypeOK, Impls
    <3> QED BY <1>t, <3>1, ConstantsAssumption DEF TypeOK, DestroyId, Event, DESTROY, Uids
  <2>1. /\ m_destroyEvents' = Append(m_destroyEvents, new) /\ new.impl = nextImpl
        /\ new.uid = DESTROY /\ ids' = ids \cup {new}
        /\ UNCHANGED <<m_events, cancelled, m_eventsWithContext, eventsWithContext, pc, invoked>>
        /\ nextImpl' = nextImpl + 1
    BY <1>5 DEF ScheduleDestroy, sideVars
  <2> HIDE DEF new
  <2>2. DestroyImpls' = DestroyImpls \cup {nextImpl} /\ Distinct(m_destroyEvents')
    <3>1. Distinct(m_destroyEvents)
      BY <1>p DEF HeldOnce
    <3> QED BY <1>n, <1>s, <1>seq, <2>0, <2>1, <3>1, AppendImpls
  <2>3. LocalImpls' = LocalImpls /\ SideImpls' = SideImpls /\ QueueImpls' = QueueImpls
        /\ Scheduled' = Scheduled \cup {nextImpl}
    BY <1>r, <1>s, <2>1 DEF QueueImpls
  <2>4. DestroyIds \cup {nextImpl} \subseteq DestroyIds'
    BY <2>1 DEF DestroyIds
  <2>5. Places'
    BY <1>n, <1>p, <2>1, <2>2, <2>3, <2>4 DEF HeldApart, HeldScheduled, Covered
  <2>6. LocalListDrained' /\ HeldOnce'
    BY <1>p, <2>1, <2>2 DEF LocalListDrained, HeldOnce
  <2> QED BY <2>5, <2>6
<1>6. ASSUME NEW id \in ids, Remove(id) PROVE Good'
  <2>1. /\ UNCHANGED <<m_eventsWithContext, eventsWithContext, ids, pc, invoked>>
        /\ nextImpl' = nextImpl
    BY <1>6 DEF Remove, sideVars
  <2>2. /\ QueueImpls' \subseteq QueueImpls /\ QueueImpls \subseteq QueueImpls' \cup cancelled'
        /\ cancelled \subseteq cancelled'
        /\ \A e, f \in m_events' : e.impl = f.impl => e = f
    <3>1. CASE UNCHANGED <<m_events, cancelled>>
      BY <1>p, <3>1 DEF QueueImpls, HeldOnce
    <3>2. CASE m_events' = m_events \ {id} /\ cancelled' = cancelled \cup {id.impl}
      BY <1>p, <3>2 DEF QueueImpls, HeldOnce
    <3> QED BY <1>6, <3>1, <3>2 DEF Remove
  <2>3. DestroyImpls' \subseteq DestroyImpls /\ Distinct(m_destroyEvents')
    <3>0. Distinct(m_destroyEvents)
      BY <1>p DEF HeldOnce
    <3>1. CASE UNCHANGED m_destroyEvents
      BY <1>s, <3>0, <3>1
    <3>2. CASE \E i \in DOMAIN m_destroyEvents :
                 m_destroyEvents' = SubSeq(m_destroyEvents, 1, i - 1) \o
                   SubSeq(m_destroyEvents, i + 1, Len(m_destroyEvents))
      BY <1>s, <1>seq, <3>0, <3>2, CutImpls
    <3> QED BY <1>6, <3>1, <3>2 DEF Remove
  <2>4. LocalImpls' = LocalImpls /\ SideImpls' = SideImpls /\ Scheduled' = Scheduled
        /\ DestroyIds' = DestroyIds
    BY <1>r, <1>s, <2>1 DEF DestroyIds
  <2>5. Places'
    BY <1>p, <2>1, <2>2, <2>3, <2>4 DEF HeldApart, HeldScheduled, Covered
  <2>6. LocalListDrained' /\ HeldOnce'
    BY <1>p, <2>1, <2>2, <2>3 DEF LocalListDrained, HeldOnce
  <2> QED BY <2>5, <2>6
(* steps that only cancel or change what is not about events *)
<1>q. ASSUME Same, UNCHANGED <<m_events, ids, nextImpl, invoked>>, cancelled \subseteq cancelled',
             pc # "disposed", pc' \in {"startInsert", "drainInsert"} => pc' = pc,
             eventsWithContext = <<>>
      PROVE  Good'
  <2>1. /\ LocalImpls' = LocalImpls /\ SideImpls' = SideImpls /\ DestroyImpls' = DestroyImpls
        /\ QueueImpls' = QueueImpls /\ Scheduled' = Scheduled /\ DestroyIds' = DestroyIds
    BY <1>q, <1>r, <1>s DEF QueueImpls, DestroyIds
  <2>2. Places'
    BY <1>p, <1>q, <2>1 DEF HeldApart, HeldScheduled, Covered
  <2>3. LocalListDrained' /\ HeldOnce'
    BY <1>p, <1>q DEF LocalListDrained, HeldOnce
  <2> QED BY <2>2, <2>3
<1>7. ASSUME NEW id \in ids, Cancel(id) PROVE Good'
  <2>1. pc \notin {"startInsert", "drainInsert", "disposed"} /\ pc' = pc
    BY <1>7 DEF Cancel, InUserCode
  <2>2. eventsWithContext = <<>>
    BY <1>p, <2>1 DEF LocalListDrained
  <2> QED BY <1>7, <1>q, <2>1, <2>2 DEF Cancel, queueVars, sideVars
<1>8. ASSUME Stop \/ Run \/ DrainNothing \/ DrainDone \/ EventReturn \/ RunReturn \/ Destroy
             \/ DestroyReturn
      PROVE  Good'
  <2>1. eventsWithContext = <<>>
    BY <1>8, <1>p DEF Stop, InUserCode, Run, DrainNothing, DrainDone, EventReturn, RunReturn,
                 Destroy, DestroyReturn, LocalListDrained
  <2>2. pc # "disposed" /\ (pc' \in {"startInsert", "drainInsert"} => pc' = pc)
    BY <1>8 DEF Stop, InUserCode, Run, DrainNothing, DrainDone, DrainReturn, EventReturn,
                 RunReturn, Destroy, DestroyReturn
  <2>3. Same /\ UNCHANGED <<m_events, ids, nextImpl, invoked, cancelled>>
    BY <1>8 DEF Stop, Run, DrainNothing, DrainDone, EventReturn, RunReturn, Destroy,
                DestroyReturn, queueVars, sideVars, implVars
  <2> QED BY <1>q, <2>1, <2>2, <2>3
<1>9. ASSUME DrainSwap PROVE Good'
  <2>1. /\ eventsWithContext' = m_eventsWithContext /\ m_eventsWithContext' = <<>>
        /\ pc # "disposed" /\ pc \notin {"startInsert", "drainInsert"}
        /\ pc' \in {"startInsert", "drainInsert"}
        /\ UNCHANGED <<m_events, ids, nextImpl, invoked, cancelled, m_destroyEvents>>
    BY <1>9 DEF DrainSwap, queueVars, implVars
  <2>2. LocalImpls = {}
    BY <1>p, <2>1 DEF LocalListDrained, LocalImpls
  <2>3. /\ LocalImpls' = SideImpls /\ SideImpls' = {} /\ DestroyImpls' = DestroyImpls
        /\ QueueImpls' = QueueImpls /\ Scheduled' = Scheduled /\ DestroyIds' = DestroyIds
    BY <1>r, <1>s, <2>1 DEF QueueImpls, DestroyIds, SideImpls
  <2>4. Places'
    BY <1>p, <2>1, <2>2, <2>3 DEF HeldApart, HeldScheduled, Covered
  <2>5. Distinct(m_eventsWithContext')
    BY <2>1 DEF Distinct
  <2>6. LocalListDrained' /\ HeldOnce'
    BY <1>p, <2>1, <2>5 DEF LocalListDrained, HeldOnce
  <2> QED BY <2>4, <2>6
<1>10. ASSUME DrainInsert PROVE Good'
  <2> DEFINE event == Head(eventsWithContext)
  <2>1. /\ eventsWithContext # <<>> /\ eventsWithContext' = Tail(eventsWithContext)
        /\ Insert(m_currentTs + event.timestamp, event.context, event.impl)
        /\ pc' = pc /\ pc \in {"startInsert", "drainInsert"}
        /\ UNCHANGED <<m_eventsWithContext, ids, nextImpl, invoked, cancelled, m_destroyEvents>>
    BY <1>10 DEF DrainInsert, sideVars, implVars
  <2>2. /\ LocalImpls = LocalImpls' \cup {event.impl} /\ event.impl \notin LocalImpls'
        /\ Distinct(eventsWithContext')
    <3>1. Distinct(eventsWithContext)
      BY <1>p DEF HeldOnce
    <3> QED BY <1>s, <1>seq, <2>1, <3>1, TailImpls
  <2> HIDE DEF event
  <2>3. event.impl \notin QueueImpls
    BY <1>p, <2>2 DEF HeldApart
  <2>4. QueueImpls' = QueueImpls \cup {event.impl}
        /\ \A e, f \in m_events' : e.impl = f.impl => e = f
    BY <1>i, <2>1, <2>3
  <2>5. SideImpls' = SideImpls /\ DestroyImpls' = DestroyImpls /\ Scheduled' = Scheduled
        /\ DestroyIds' = DestroyIds
    BY <1>r, <1>s, <2>1 DEF DestroyIds
  <2>6. Places'
    BY <1>p, <2>1, <2>2, <2>4, <2>5 DEF HeldApart, HeldScheduled, Covered
  <2>7. LocalListDrained' /\ HeldOnce'
    BY <1>p, <2>1, <2>2, <2>4 DEF LocalListDrained, HeldOnce
  <2> QED BY <2>6, <2>7
<1>11. ASSUME ProcessOneEvent PROVE Good'
  <2>1. PICK next \in m_events : m_events' = m_events \ {next} /\ Invoke(next.impl, "event", "drain")
    BY <1>11 DEF ProcessOneEvent
  <2>2. /\ Same /\ UNCHANGED <<ids, nextImpl, cancelled>>
        /\ pc = "loop" /\ pc' \in {"event", "drain"}
    BY <1>11, <2>1 DEF ProcessOneEvent, Invoke, sideVars, implVars
  <2>3. \/ next.impl \in cancelled /\ invoked' = invoked
        \/ invoked' = invoked \cup {next.impl}
    BY <2>1 DEF Invoke
  <2>4. QueueImpls' = QueueImpls \ {next.impl} /\ next.impl \in QueueImpls
        /\ \A e, f \in m_events' : e.impl = f.impl => e = f
    BY <1>o, <2>1
  <2>5. SideImpls' = SideImpls /\ LocalImpls' = LocalImpls /\ DestroyImpls' = DestroyImpls
        /\ Scheduled' = Scheduled /\ DestroyIds' = DestroyIds
    BY <1>r, <1>s, <2>2 DEF DestroyIds
  <2>6. Places'
    BY <1>p, <2>2, <2>3, <2>4, <2>5 DEF HeldApart, HeldScheduled, Covered
  <2>7. LocalListDrained' /\ HeldOnce'
    BY <1>p, <2>2, <2>4 DEF LocalListDrained, HeldOnce
  <2> QED BY <2>6, <2>7
<1>12. ASSUME DestroyOne PROVE Good'
  <2> DEFINE h == Head(m_destroyEvents).impl
  <2>1. /\ m_destroyEvents # <<>> /\ m_destroyEvents' = Tail(m_destroyEvents)
        /\ pc = "destroy" /\ pc' \in {"destroyEvent", "destroy"}
        /\ UNCHANGED <<m_events, m_eventsWithContext, eventsWithContext, ids, nextImpl, cancelled>>
    BY <1>12 DEF DestroyOne, Invoke, queueVars, sideVars, implVars
  <2>2. invoked' = invoked \/ invoked' = invoked \cup {h}
    BY <1>12 DEF DestroyOne, Invoke
  <2>3. /\ DestroyImpls = DestroyImpls' \cup {h} /\ h \notin DestroyImpls'
        /\ Distinct(m_destroyEvents')
    <3>1. Distinct(m_destroyEvents)
      BY <1>p DEF HeldOnce
    <3> QED BY <1>s, <1>seq, <2>1, <3>1, TailImpls
  <2> HIDE DEF h
  <2>4. SideImpls' = SideImpls /\ LocalImpls' = LocalImpls /\ QueueImpls' = QueueImpls
        /\ Scheduled' = Scheduled /\ DestroyIds' = DestroyIds
    BY <1>r, <1>s, <2>1 DEF DestroyIds, QueueImpls
  <2>5. Places'
    BY <1>p, <2>1, <2>2, <2>3, <2>4 DEF HeldApart, HeldScheduled, Covered
  <2>6. LocalListDrained' /\ HeldOnce'
    BY <1>p, <2>1, <2>3 DEF LocalListDrained, HeldOnce
  <2> QED BY <2>5, <2>6
<1>13. ASSUME DoDispose PROVE Good'
  <2>1. /\ m_events' = {} /\ m_eventsWithContext' = <<>> /\ pc' = "disposed" /\ pc = "destroy"
        /\ UNCHANGED <<eventsWithContext, m_destroyEvents, nextImpl, invoked>>
    BY <1>13 DEF DoDispose, implVars
  <2>2. SideImpls' = {} /\ QueueImpls' = {} /\ LocalImpls' = LocalImpls
        /\ DestroyImpls' = DestroyImpls /\ Scheduled' = Scheduled
    BY <1>r, <1>s, <2>1 DEF SideImpls, QueueImpls
  <2>3. Places'
    BY <1>p, <2>1, <2>2 DEF HeldApart, HeldScheduled, Covered
  <2>4. Distinct(m_eventsWithContext')
    BY <2>1 DEF Distinct
  <2>5. LocalListDrained' /\ HeldOnce'
    BY <1>p, <2>1, <2>4 DEF LocalListDrained, HeldOnce
  <2> QED BY <2>3, <2>5
<1>14. ASSUME UNCHANGED vars PROVE Good'
  <2>1. Same /\ UNCHANGED <<m_events, ids, nextImpl, invoked, cancelled, pc>>
    BY <1>14 DEF vars, queueVars, sideVars, implVars
  <2>2. /\ LocalImpls' = LocalImpls /\ SideImpls' = SideImpls /\ DestroyImpls' = DestroyImpls
        /\ QueueImpls' = QueueImpls /\ Scheduled' = Scheduled /\ DestroyIds' = DestroyIds
    BY <2>1, <1>r, <1>s DEF QueueImpls, DestroyIds
  <2>3. Places'
    BY <1>p, <2>1, <2>2 DEF HeldApart, HeldScheduled, Covered
  <2>4. LocalListDrained' /\ HeldOnce'
    BY <1>p, <2>1 DEF LocalListDrained, HeldOnce
  <2> QED BY <2>3, <2>4
<1>15. Good'
  BY <1>2, <1>3, <1>4, <1>5, <1>6, <1>7, <1>8, <1>9, <1>10, <1>11, <1>12, <1>13, <1>14
     DEF Next, UserCall, MainStep, Terminated
<1> QED BY <1>t, <1>15 DEF PInv

LEMMA SpecPInv == Spec => []PInv
BY InitPInv, NextPInv, PTL DEF Spec

(* No event is lost between the threads, the two lists and the scheduler,   *)
(* and none is called twice, even if m_uid wraps.                           *)
THEOREM NothingLost == Spec => []NoEventLostOrDoubled
<1>1. PInv => NoEventLostOrDoubled
  <2>1. HeldApart /\ Covered => NoEventLostOrDoubled
    BY DEF HeldApart, Covered, NoEventLostOrDoubled, Scheduled
  <2> QED BY <2>1 DEF PInv
<1> QED BY <1>1, SpecPInv, PTL

(* The program cancels only what is still held, and Invoke looks at the     *)
(* mark: neither order of the two gets an event both.                       *)
LEMMA NextCancelled ==
  ASSUME IInv, PInv, CancelledNeverInvoked, [Next]_vars
  PROVE  CancelledNeverInvoked'
<1>1. ASSUME NEW id \in ids, ~IsExpired(id) PROVE id.impl \notin invoked
  <2>1. /\ id.uid = DESTROY => \E i \in DOMAIN m_destroyEvents : m_destroyEvents[i] = id
        /\ id.uid # DESTROY => id \in m_events
    BY <1>1, IInvExpired DEF ExpiredIsExact, IsExpired
  <2>2. id.impl \in QueueImpls \cup DestroyImpls
    BY <2>1 DEF QueueImpls, DestroyImpls, ImplsOf
  <2> QED BY <2>2 DEF PInv, HeldApart
<1>2. ASSUME NEW impl, NEW running, NEW after, Invoke(impl, running, after), cancelled' = cancelled
      PROVE  CancelledNeverInvoked'
  BY <1>2 DEF Invoke, CancelledNeverInvoked
<1>3. ASSUME NEW id \in ids, Remove(id) \/ Cancel(id) PROVE CancelledNeverInvoked'
  <2>1. invoked' = invoked
    BY <1>3 DEF Remove, Cancel
  <2>2. cancelled' = cancelled \/ (cancelled' = cancelled \cup {id.impl} /\ ~IsExpired(id))
    BY <1>3 DEF Remove, Cancel
  <2> QED BY <1>1, <2>1, <2>2 DEF CancelledNeverInvoked
<1>4. CASE ProcessOneEvent
  <2>1. PICK next \in m_events : Invoke(next.impl, "event", "drain")
    BY <1>4 DEF ProcessOneEvent
  <2> QED BY <1>2, <1>4, <2>1 DEF ProcessOneEvent, implVars
<1>5. CASE DestroyOne
  BY <1>2, <1>5 DEF DestroyOne, implVars
<1>6. CASE UNCHANGED <<cancelled, invoked>>
  BY <1>6 DEF CancelledNeverInvoked
<1>7. \/ UNCHANGED <<cancelled, invoked>>
      \/ ProcessOneEvent \/ DestroyOne
      \/ \E id \in ids : Remove(id) \/ Cancel(id)
  BY DEF Next, UserCall, MainStep, Terminated, Schedule, ScheduleWithContext,
     ThreadScheduleWithContext, ScheduleDestroy, Stop, Run, DrainNothing, DrainSwap, DrainInsert,
     DrainDone, EventReturn, RunReturn, Destroy, DestroyReturn, DoDispose, vars, implVars
<1> QED BY <1>3, <1>4, <1>5, <1>6, <1>7

(* Cancel and the event race only through IsExpired, and it is exact: under *)
(* NoWrap no cancelled event is called and no called event is cancelled.    *)
THEOREM CancelIsSafe == ASSUME NoWrap PROVE Spec => []CancelledNeverInvoked
<1>1. Init => CancelledNeverInvoked
  BY DEF Init, CancelledNeverInvoked
<1> QED BY <1>1, NextCancelled, SpecIInv, SpecPInv, PTL DEF Spec

-----------------------------------------------------------------------------
CInv == IsFiniteSet(m_events) /\ UnscheduledCountsQueue

(* The counter follows the queue: an inserted event is new, and an event    *)
(* that is removed was there.                                               *)
LEMMA NextCInv == ASSUME IInv, PInv, CInv, [Next]_vars PROVE CInv'
<1>0. IsFiniteSet(m_events) /\ m_unscheduledEvents \in Int
  BY DEF CInv, IInv, TypeOK
<1>c. pc # "disposed" => m_unscheduledEvents = Cardinality(m_events)
  BY DEF CInv, UnscheduledCountsQueue
<1>n. Cardinality(m_events) \in Nat
  BY <1>0, FS_CardinalityType
<1>i. ASSUME NEW ts, NEW context, NEW impl, Insert(ts, context, impl), impl \notin QueueImpls,
             pc # "disposed"
      PROVE  CInv'
  <2> DEFINE new == [ts |-> ts, uid |-> m_uid, context |-> context, impl |-> impl]
  <2>1. new.impl = impl /\ m_events' = m_events \cup {new}
        /\ m_unscheduledEvents' = m_unscheduledEvents + 1
    BY <1>i DEF Insert
  <2> HIDE DEF new
  <2>2. new \notin m_events
    BY <1>i, <2>1 DEF QueueImpls
  <2>3. IsFiniteSet(m_events') /\ Cardinality(m_events') = Cardinality(m_events) + 1
    BY <1>0, <2>1, <2>2, FS_AddElement
  <2> QED BY <1>c, <1>i, <2>1, <2>3 DEF CInv, UnscheduledCountsQueue
<1>o. ASSUME NEW x \in m_events, m_events' = m_events \ {x}, pc # "disposed",
             m_unscheduledEvents' = m_unscheduledEvents - 1
      PROVE  CInv'
  <2>1. IsFiniteSet(m_events') /\ Cardinality(m_events') = Cardinality(m_events) - 1
    BY <1>0, <1>o, FS_RemoveElement
  <2> QED BY <1>c, <1>o, <2>1 DEF CInv, UnscheduledCountsQueue
<1>q. ASSUME UNCHANGED <<m_events, m_unscheduledEvents>>, pc = "disposed" => pc' = "disposed"
      PROVE  CInv'
  BY <1>0, <1>c, <1>q DEF CInv, UnscheduledCountsQueue
<1>f. nextImpl \notin QueueImpls
  <2>1. nextImpl \in Int
    BY ConstantsAssumption DEF PInv, TypeOK
  <2>2. nextImpl \notin Scheduled
    BY <2>1 DEF Scheduled
  <2> QED BY <2>2 DEF PInv, HeldScheduled
<1>1. ASSUME NEW delay \in Delays, NEW isStop \in BOOLEAN, Schedule(delay, isStop) PROVE CInv'
  BY <1>1, <1>f, <1>i DEF Schedule, InUserCode
<1>2. ASSUME NEW context \in Contexts, NEW delay \in Delays, ScheduleWithContext(context, delay)
      PROVE  CInv'
  BY <1>2, <1>f, <1>i DEF ScheduleWithContext, InUserCode
<1>3. CASE DrainInsert
  <2> DEFINE event == Head(eventsWithContext)
  <2>1. eventsWithContext \in Seq(SideEvent) /\ eventsWithContext # <<>>
    BY <1>3 DEF DrainInsert, PInv, TypeOK
  <2>2. event.impl \in LocalImpls
    <3>1. LocalImpls = ImplsOf(eventsWithContext)
      BY DEF LocalImpls, ImplsOf
    <3> QED BY <2>1, <3>1, TailImpls
  <2>3. event.impl \notin QueueImpls
    BY <2>2 DEF PInv, HeldApart
  <2> QED BY <1>3, <1>i, <2>3 DEF DrainInsert
<1>4. ASSUME NEW id \in ids, Remove(id) PROVE CInv'
  <2>1. CASE id.uid = DESTROY
    BY <1>4, <1>q, <2>1 DEF Remove
  <2>2. CASE id.uid # DESTROY
    <3>1. id \in m_events
      BY <1>4, <2>2, IInvExpired DEF Remove, ExpiredIsExact
    <3> QED BY <1>4, <1>o, <2>2, <3>1 DEF Remove, InUserCode
  <2> QED BY <2>1, <2>2
<1>5. CASE ProcessOneEvent
  <2>1. PICK next \in m_events : m_events' = m_events \ {next}
    BY <1>5 DEF ProcessOneEvent
  <2> QED BY <1>5, <1>o, <2>1 DEF ProcessOneEvent
<1>6. CASE DoDispose
  <2>1. m_events' = {} /\ pc' = "disposed"
    BY <1>6 DEF DoDispose
  <2> QED BY <2>1, FS_EmptySet DEF CInv, UnscheduledCountsQueue
<1>7. CASE /\ UNCHANGED <<m_events, m_unscheduledEvents>>
           /\ pc = "disposed" => pc' = "disposed"
  BY <1>7, <1>q
<1>8. \/ UNCHANGED <<m_events, m_unscheduledEvents>> /\ (pc = "disposed" => pc' = "disposed")
      \/ DrainInsert \/ ProcessOneEvent \/ DoDispose
      \/ \E id \in ids : Remove(id)
      \/ \E delay \in Delays, isStop \in BOOLEAN : Schedule(delay, isStop)
      \/ \E context \in Contexts, delay \in Delays : ScheduleWithContext(context, delay)
  BY DEF Next, UserCall, MainStep, Terminated, Cancel, ThreadScheduleWithContext, ScheduleDestroy,
     Stop, Run, DrainNothing, DrainReturn, DrainSwap, DrainDone, EventReturn, RunReturn, Destroy,
     DestroyOne, DestroyReturn, vars, queueVars
<1> QED BY <1>1, <1>2, <1>3, <1>4, <1>5, <1>6, <1>7, <1>8

(* The NS_ASSERT at the end of Run cannot fail under NoWrap:                *)
(* m_unscheduledEvents is the number of events in the scheduler.            *)
THEOREM CounterIsExact == ASSUME NoWrap PROVE Spec => []UnscheduledCountsQueue
<1>1. Init => CInv
  BY FS_EmptySet DEF Init, CInv, UnscheduledCountsQueue
<1>2. CInv => UnscheduledCountsQueue
  BY DEF CInv
<1> QED BY <1>1, <1>2, NextCInv, SpecIInv, SpecPInv, PTL DEF Spec
=============================================================================

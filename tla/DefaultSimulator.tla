--------------------------- MODULE DefaultSimulator ---------------------------
(***************************************************************************)
(* The default simulator engine of ns-3: the event loop, the event queue,  *)
(* the event handles a program keeps (EventId), and the side queue through *)
(* which other threads inject events.                                      *)
(*                                                                         *)
(*   src/src/core/model/default-simulator-impl.{h,cc}                      *)
(*   src/src/core/model/scheduler.h   (the order of event keys)            *)
(*   src/src/core/model/event-id.h, event-impl.cc, simulator.cc            *)
(*                                                                         *)
(* One main thread runs the program and the event loop; any other thread   *)
(* may only call ScheduleWithContext.  The scheduler is the set of its     *)
(* events and RemoveNext takes the one with the smallest key, which is     *)
(* what scheduler.h promises; SetScheduler moves every event to another    *)
(* scheduler and so is the identity here.  The flag of the side queue is   *)
(* read without the lock: a stale TRUE is the same as a read made earlier, *)
(* and FALSE is set back to TRUE by the reading thread alone.              *)
(***************************************************************************)
EXTENDS Integers, Sequences, FiniteSets

CONSTANTS
  Contexts,     \* the contexts a program passes to ScheduleWithContext
  NoContext,    \* Simulator::NO_CONTEXT
  Delays,       \* the relative delays a program schedules with
  UidModulus,   \* 2^32 in the code: m_uid is a uint32_t
  MaxEvents     \* bound: how many events a behaviour schedules

ASSUME ConstantsAssumption ==
  /\ NoContext \notin Contexts
  /\ Delays \subseteq Nat
  /\ MaxEvents \in Nat
  /\ UidModulus \in Nat /\ UidModulus > 4

VARIABLES
  m_events,                  \* the scheduler: a set of events
  m_destroyEvents,           \* list of ids to run in Destroy
  m_stop,
  m_uid, m_currentUid, m_currentTs, m_currentContext,
  m_unscheduledEvents, m_eventCount,
  m_eventsWithContext,       \* the side queue, filled by other threads
  m_eventsWithContextEmpty,  \* its flag, read by the main thread without the lock
  eventsWithContext,         \* local of ProcessEventsWithContext: the swapped list
  pc,                        \* where the main thread is
  cancelled,                 \* the EventImpls whose m_cancel is set
  stops,                     \* the EventImpls that call Simulator::Stop
  nextImpl,                  \* the EventImpl the next schedule call creates
  ids,                       \* the EventIds the program has been given
  invoked                    \* history: the EventImpls whose function was called

queueVars   == <<m_events, m_uid, m_unscheduledEvents>>
currentVars == <<m_currentUid, m_currentTs, m_currentContext, m_eventCount>>
sideVars    == <<m_eventsWithContext, m_eventsWithContextEmpty>>
implVars    == <<cancelled, stops, nextImpl, ids>>
vars == <<queueVars, currentVars, sideVars, implVars, m_destroyEvents, m_stop,
          eventsWithContext, pc, invoked>>

-----------------------------------------------------------------------------
(* EventId::UID *)
INVALID == 0
DESTROY == 2
VALID   == 4

Uids  == 0 .. UidModulus - 1
Impls == 1 .. MaxEvents

(* Scheduler::Event, and an EventId: the same four fields *)
Event == [ts : Nat, uid : Uids, context : Contexts \cup {NoContext}, impl : Impls]

(* the ids that ScheduleDestroy returns *)
DestroyId == {id \in Event : id.uid = DESTROY}

(* EventWithContext: the timestamp is still relative *)
SideEvent == [context : Contexts \cup {NoContext}, timestamp : Nat, impl : Impls]

(* operator < of EventKey: by time stamp, then by uid *)
KeyLess(a, b) == a.ts < b.ts \/ (a.ts = b.ts /\ a.uid < b.uid)

(* the key of the event being run, or last run *)
Current == [ts |-> m_currentTs, uid |-> m_currentUid]

(* what PeekNext returns *)
IsNext(e) == e \in m_events /\ \A f \in m_events \ {e} : KeyLess(e, f)

(* Defect: the running event does not count as expired. *)
IsExpiredMutant(id) ==
  \/ pc = "disposed"
  \/ id.impl \in cancelled
  \/ /\ id.uid = DESTROY
     /\ \A i \in DOMAIN m_destroyEvents : m_destroyEvents[i] # id
  \/ /\ id.uid # DESTROY
     /\ \/ id.ts < m_currentTs
        \/ id.ts = m_currentTs /\ id.uid < m_currentUid

(* Simulator::IsExpired (no engine any more) and the engine's IsExpired *)
IsExpired(id) ==
  \/ pc = "disposed"
  \/ id.impl \in cancelled
  \/ /\ id.uid = DESTROY
     /\ \A i \in DOMAIN m_destroyEvents : m_destroyEvents[i] # id
  \/ /\ id.uid # DESTROY
     /\ \/ id.ts < m_currentTs
        \/ id.ts = m_currentTs /\ id.uid <= m_currentUid

-----------------------------------------------------------------------------
Init ==
  /\ m_events = {}
  /\ m_destroyEvents = <<>>
  /\ m_stop = FALSE
  /\ m_uid = VALID
  /\ m_currentUid = INVALID
  /\ m_currentTs = 0
  /\ m_currentContext = NoContext
  /\ m_unscheduledEvents = 0
  /\ m_eventCount = 0
  /\ m_eventsWithContext = <<>>
  /\ m_eventsWithContextEmpty = TRUE
  /\ eventsWithContext = <<>>
  /\ pc = "program"
  /\ cancelled = {}
  /\ stops = {}
  /\ nextImpl = 1
  /\ ids = {}
  /\ invoked = {}

-----------------------------------------------------------------------------
(* Calls of the main thread: from the program, before or after Run, from    *)
(* the function of a running event, or from one that Destroy runs.          *)
InUserCode == pc \in {"program", "event", "destroyEvent"}

(* Defect: the insertion is not counted. *)
InsertMutant(ts, context, impl) ==
  /\ m_events' = m_events \cup
       {[ts |-> ts, uid |-> m_uid, context |-> context, impl |-> impl]}
  /\ m_uid' = (m_uid + 1) % UidModulus
  /\ UNCHANGED m_unscheduledEvents

(* the tail all insertions share: take the next uid, count, insert *)
Insert(ts, context, impl) ==
  /\ m_events' = m_events \cup
       {[ts |-> ts, uid |-> m_uid, context |-> context, impl |-> impl]}
  /\ m_uid' = (m_uid + 1) % UidModulus
  /\ m_unscheduledEvents' = m_unscheduledEvents + 1

(* Schedule, and ScheduleNow (delay 0); Stop(delay) schedules Simulator::Stop *)
Schedule(delay, isStop) ==
  /\ InUserCode
  /\ nextImpl <= MaxEvents
  /\ Insert(m_currentTs + delay, m_currentContext, nextImpl)
  /\ ids' = ids \cup {[ts |-> m_currentTs + delay, uid |-> m_uid,
                       context |-> m_currentContext, impl |-> nextImpl]}
  /\ stops' = IF isStop THEN stops \cup {nextImpl} ELSE stops
  /\ nextImpl' = nextImpl + 1
  /\ UNCHANGED <<currentVars, sideVars, cancelled, m_destroyEvents, m_stop,
                 eventsWithContext, pc, invoked>>

(* ScheduleWithContext called by the main thread: no EventId is returned *)
ScheduleWithContext(context, delay) ==
  /\ InUserCode
  /\ nextImpl <= MaxEvents
  /\ Insert(m_currentTs + delay, context, nextImpl)
  /\ nextImpl' = nextImpl + 1
  /\ UNCHANGED <<currentVars, sideVars, cancelled, stops, ids, m_destroyEvents,
                 m_stop, eventsWithContext, pc, invoked>>

(* Defect: the flag is not cleared with the push_back. *)
ThreadScheduleWithContextMutant(context, delay) ==
  /\ pc # "disposed"
  /\ nextImpl <= MaxEvents
  /\ m_eventsWithContext' = Append(m_eventsWithContext,
       [context |-> context, timestamp |-> delay, impl |-> nextImpl])
  /\ nextImpl' = nextImpl + 1
  /\ UNCHANGED <<m_eventsWithContextEmpty, queueVars, currentVars, cancelled, stops,
                 ids, m_destroyEvents, m_stop, eventsWithContext, pc, invoked>>

(* ScheduleWithContext called by another thread: push_back and the flag,    *)
(* both under m_eventsWithContextMutex                                      *)
ThreadScheduleWithContext(context, delay) ==
  /\ pc # "disposed"
  /\ nextImpl <= MaxEvents
  /\ m_eventsWithContext' = Append(m_eventsWithContext,
       [context |-> context, timestamp |-> delay, impl |-> nextImpl])
  /\ m_eventsWithContextEmpty' = FALSE
  /\ nextImpl' = nextImpl + 1
  /\ UNCHANGED <<queueVars, currentVars, cancelled, stops, ids, m_destroyEvents,
                 m_stop, eventsWithContext, pc, invoked>>

(* Defect: a destroy event is given an ordinary uid. *)
ScheduleDestroyMutant ==
  /\ InUserCode
  /\ nextImpl <= MaxEvents
  /\ LET id == [ts |-> m_currentTs, uid |-> m_uid, context |-> NoContext,
                impl |-> nextImpl]
     IN /\ m_destroyEvents' = Append(m_destroyEvents, id)
        /\ ids' = ids \cup {id}
  /\ m_uid' = (m_uid + 1) % UidModulus
  /\ nextImpl' = nextImpl + 1
  /\ UNCHANGED <<m_events, m_unscheduledEvents, currentVars, sideVars, cancelled,
                 stops, m_stop, eventsWithContext, pc, invoked>>

ScheduleDestroy ==
  /\ InUserCode
  /\ nextImpl <= MaxEvents
  /\ LET id == [ts |-> m_currentTs, uid |-> DESTROY, context |-> NoContext,
                impl |-> nextImpl]
     IN /\ m_destroyEvents' = Append(m_destroyEvents, id)
        /\ ids' = ids \cup {id}
  /\ m_uid' = (m_uid + 1) % UidModulus
  /\ nextImpl' = nextImpl + 1
  /\ UNCHANGED <<m_events, m_unscheduledEvents, currentVars, sideVars, cancelled,
                 stops, m_stop, eventsWithContext, pc, invoked>>

(* An expired or unknown id is ignored; a destroy event is erased from its   *)
(* list and, unlike the others, is not marked cancelled.                     *)
Remove(id) ==
  /\ InUserCode
  /\ \/ /\ id.uid = DESTROY
        /\ \E i \in DOMAIN m_destroyEvents :
             /\ m_destroyEvents[i] = id
             /\ m_destroyEvents' = SubSeq(m_destroyEvents, 1, i - 1) \o
                  SubSeq(m_destroyEvents, i + 1, Len(m_destroyEvents))
        /\ UNCHANGED <<m_events, m_unscheduledEvents, cancelled>>
     \/ /\ id.uid # DESTROY
        /\ ~IsExpired(id)
        /\ m_events' = m_events \ {id}
        /\ cancelled' = cancelled \cup {id.impl}
        /\ m_unscheduledEvents' = m_unscheduledEvents - 1
        /\ UNCHANGED m_destroyEvents
  /\ UNCHANGED <<m_uid, currentVars, sideVars, stops, nextImpl, ids, m_stop,
                 eventsWithContext, pc, invoked>>

Cancel(id) ==
  /\ InUserCode
  /\ ~IsExpired(id)
  /\ cancelled' = cancelled \cup {id.impl}
  /\ UNCHANGED <<queueVars, currentVars, sideVars, stops, nextImpl, ids,
                 m_destroyEvents, m_stop, eventsWithContext, pc, invoked>>

Stop ==
  /\ InUserCode
  /\ m_stop' = TRUE
  /\ UNCHANGED <<queueVars, currentVars, sideVars, implVars, m_destroyEvents,
                 eventsWithContext, pc, invoked>>

-----------------------------------------------------------------------------
(* The event loop.  pc: "start" and "drain" are the two calls of            *)
(* ProcessEventsWithContext, in Run and at the end of ProcessOneEvent;      *)
(* "startInsert" and "drainInsert" its loop over the swapped list.          *)
Run ==
  /\ pc = "program"
  /\ pc' = "start"
  /\ UNCHANGED <<queueVars, currentVars, sideVars, implVars, m_destroyEvents,
                 m_stop, eventsWithContext, invoked>>

(* ProcessEventsWithContext returns: Run then clears m_stop before its loop *)
DrainReturn ==
  /\ pc' = "loop"
  /\ m_stop' = IF pc \in {"start", "startInsert"} THEN FALSE ELSE m_stop

(* the early return: the flag is read without the lock *)
DrainNothing ==
  /\ pc \in {"start", "drain"}
  /\ m_eventsWithContextEmpty
  /\ DrainReturn
  /\ UNCHANGED <<queueVars, currentVars, sideVars, implVars, m_destroyEvents,
                 eventsWithContext, invoked>>

(* Defect: the side queue is copied, not swapped. *)
DrainSwapMutant ==
  /\ pc \in {"start", "drain"}
  /\ ~m_eventsWithContextEmpty
  /\ eventsWithContext' = m_eventsWithContext
  /\ m_eventsWithContextEmpty' = TRUE
  /\ pc' = IF pc = "start" THEN "startInsert" ELSE "drainInsert"
  /\ UNCHANGED <<m_eventsWithContext, queueVars, currentVars, implVars,
                 m_destroyEvents, m_stop, invoked>>

(* the critical section: swap the side queue with the empty local list *)
DrainSwap ==
  /\ pc \in {"start", "drain"}
  /\ ~m_eventsWithContextEmpty
  /\ eventsWithContext' = m_eventsWithContext
  /\ m_eventsWithContext' = <<>>
  /\ m_eventsWithContextEmpty' = TRUE
  /\ pc' = IF pc = "start" THEN "startInsert" ELSE "drainInsert"
  /\ UNCHANGED <<queueVars, currentVars, implVars, m_destroyEvents, m_stop, invoked>>

(* Defect: the relative time stamp is inserted as an absolute one. *)
DrainInsertMutant ==
  /\ pc \in {"startInsert", "drainInsert"}
  /\ eventsWithContext # <<>>
  /\ LET event == Head(eventsWithContext)
     IN Insert(event.timestamp, event.context, event.impl)
  /\ eventsWithContext' = Tail(eventsWithContext)
  /\ UNCHANGED <<currentVars, sideVars, implVars, m_destroyEvents, m_stop, pc, invoked>>

(* one iteration of the loop that moves the swapped list into the scheduler *)
DrainInsert ==
  /\ pc \in {"startInsert", "drainInsert"}
  /\ eventsWithContext # <<>>
  /\ LET event == Head(eventsWithContext)
     IN Insert(m_currentTs + event.timestamp, event.context, event.impl)
  /\ eventsWithContext' = Tail(eventsWithContext)
  /\ UNCHANGED <<currentVars, sideVars, implVars, m_destroyEvents, m_stop, pc, invoked>>

DrainDone ==
  /\ pc \in {"startInsert", "drainInsert"}
  /\ eventsWithContext = <<>>
  /\ DrainReturn
  /\ UNCHANGED <<queueVars, currentVars, sideVars, implVars, m_destroyEvents,
                 eventsWithContext, invoked>>

(* Defect: m_cancel is not tested. *)
InvokeMutant(impl, running, after) ==
  /\ invoked' = invoked \cup {impl}
  /\ \/ impl \in stops /\ m_stop' = TRUE /\ pc' = after
     \/ impl \notin stops /\ pc' = running /\ UNCHANGED m_stop

(* EventImpl::Invoke: nothing if cancelled; Simulator::Stop runs to its end; *)
(* any other function becomes user code, at running, until it returns        *)
Invoke(impl, running, after) ==
  \/ /\ impl \in cancelled
     /\ pc' = after
     /\ UNCHANGED <<m_stop, invoked>>
  \/ /\ impl \notin cancelled
     /\ invoked' = invoked \cup {impl}
     /\ \/ impl \in stops /\ m_stop' = TRUE /\ pc' = after
        \/ impl \notin stops /\ pc' = running /\ UNCHANGED m_stop

(* an iteration of the loop in Run: RemoveNext, make it current, Invoke *)
ProcessOneEvent ==
  /\ pc = "loop"
  /\ ~m_stop
  /\ \E next \in m_events :
       /\ IsNext(next)
       /\ m_events' = m_events \ {next}
       /\ m_currentTs' = next.ts
       /\ m_currentContext' = next.context
       /\ m_currentUid' = next.uid
       /\ Invoke(next.impl, "event", "drain")
  /\ m_unscheduledEvents' = m_unscheduledEvents - 1
  /\ m_eventCount' = m_eventCount + 1
  /\ UNCHANGED <<m_uid, sideVars, implVars, m_destroyEvents, eventsWithContext>>

(* the function of the current event returns *)
EventReturn ==
  /\ pc = "event"
  /\ pc' = "drain"
  /\ UNCHANGED <<queueVars, currentVars, sideVars, implVars, m_destroyEvents,
                 m_stop, eventsWithContext, invoked>>

(* the loop ends: no event in the scheduler, or Stop was called *)
RunReturn ==
  /\ pc = "loop"
  /\ m_events = {} \/ m_stop
  /\ pc' = "program"
  /\ UNCHANGED <<queueVars, currentVars, sideVars, implVars, m_destroyEvents,
                 m_stop, eventsWithContext, invoked>>

-----------------------------------------------------------------------------
(* Simulator::Destroy: run the destroy events, then release the engine *)
Destroy ==
  /\ pc = "program"
  /\ pc' = "destroy"
  /\ UNCHANGED <<queueVars, currentVars, sideVars, implVars, m_destroyEvents,
                 m_stop, eventsWithContext, invoked>>

DestroyOne ==
  /\ pc = "destroy"
  /\ m_destroyEvents # <<>>
  /\ m_destroyEvents' = Tail(m_destroyEvents)
  /\ Invoke(Head(m_destroyEvents).impl, "destroyEvent", "destroy")
  /\ UNCHANGED <<queueVars, currentVars, sideVars, implVars, eventsWithContext>>

DestroyReturn ==
  /\ pc = "destroyEvent"
  /\ pc' = "destroy"
  /\ UNCHANGED <<queueVars, currentVars, sideVars, implVars, m_destroyEvents,
                 m_stop, eventsWithContext, invoked>>

(* the last reference goes: DoDispose moves the side queue into the          *)
(* scheduler, then drops every event without running it                      *)
DoDispose ==
  /\ pc = "destroy"
  /\ m_destroyEvents = <<>>
  /\ m_events' = {}
  /\ m_eventsWithContext' = <<>>
  /\ m_eventsWithContextEmpty' = TRUE
  /\ m_uid' = (m_uid + Len(m_eventsWithContext)) % UidModulus
  /\ m_unscheduledEvents' = m_unscheduledEvents + Len(m_eventsWithContext)
  /\ pc' = "disposed"
  /\ UNCHANGED <<currentVars, implVars, m_destroyEvents, m_stop,
                 eventsWithContext, invoked>>

-----------------------------------------------------------------------------
UserCall ==
  \/ \E delay \in Delays, isStop \in BOOLEAN : Schedule(delay, isStop)
  \/ \E context \in Contexts, delay \in Delays : ScheduleWithContext(context, delay)
  \/ ScheduleDestroy
  \/ \E id \in ids : Remove(id)
  \/ \E id \in ids : Cancel(id)
  \/ Stop

(* the steps the main thread takes by itself *)
MainStep ==
  \/ DrainNothing
  \/ DrainSwap
  \/ DrainInsert
  \/ DrainDone
  \/ ProcessOneEvent
  \/ EventReturn
  \/ RunReturn
  \/ DestroyOne
  \/ DestroyReturn
  \/ DoDispose

(* after Destroy the program ends, or starts again with a new engine *)
Terminated == pc = "disposed" /\ UNCHANGED vars

Next ==
  \/ UserCall
  \/ Run
  \/ MainStep
  \/ Destroy
  \/ Terminated
  \/ \E context \in Contexts, delay \in Delays :
       ThreadScheduleWithContext(context, delay)

Spec == Init /\ [][Next]_vars

(* An event function returns, and the main thread keeps executing its loop. *)
FairSpec == Spec /\ WF_vars(MainStep)

-----------------------------------------------------------------------------
ProgramPoints == {"program", "start", "startInsert", "loop", "event", "drain",
                  "drainInsert", "destroy", "destroyEvent", "disposed"}

TypeOK ==
  /\ m_events \subseteq Event
  /\ m_destroyEvents \in Seq(DestroyId)
  /\ m_stop \in BOOLEAN
  /\ m_uid \in Uids /\ m_currentUid \in Uids
  /\ m_currentTs \in Nat
  /\ m_currentContext \in Contexts \cup {NoContext}
  /\ m_unscheduledEvents \in Int
  /\ m_eventCount \in Nat
  /\ m_eventsWithContext \in Seq(SideEvent)
  /\ m_eventsWithContextEmpty \in BOOLEAN
  /\ eventsWithContext \in Seq(SideEvent)
  /\ pc \in ProgramPoints
  /\ cancelled \subseteq Impls /\ stops \subseteq Impls /\ invoked \subseteq Impls
  /\ nextImpl \in 1 .. MaxEvents + 1
  /\ ids \subseteq Event

(* IsExpired answers from the key of the current event, without looking at  *)
(* the queue, and still answers, at every moment and for every id of a      *)
(* scheduled event, exactly whether the event has left the queue or been    *)
(* cancelled: Remove and Cancel act on an id only after that answer, and    *)
(* the schedulers' Remove has no answer for an event they do not hold. Ids  *)
(* of destroy events are not included: simulator.h:412-414 calls testing    *)
(* them a program error (crash), although the code searches its list for    *)
(* them and simulator-test-suite.cc:194-211 tests them.                     *)
ExpiredIsExact ==
  \A id \in {i \in ids : i.uid # DESTROY} :
    ~IsExpired(id) <=> id.impl \notin cancelled /\ id \in m_events

(* An event that was cancelled, or removed from the queue, is never called, *)
(* and an event that has been called is never marked cancelled: Cancel and  *)
(* the event race only through IsExpired. It covers Cancel of a destroy     *)
(* event, but not Remove of one, which erases it from the list without the  *)
(* mark; simulator.h:386-387 and :401-402 call both a program error (crash),*)
(* but the code supports both.                                              *)
CancelledNeverInvoked == cancelled \cap invoked = {}

(* NS_ASSERT at the end of Run: m_unscheduledEvents counts the scheduler's   *)
(* events through every Schedule, Remove, drain and ProcessOneEvent.         *)
UnscheduledCountsQueue ==
  pc # "disposed" => m_unscheduledEvents = Cardinality(m_events)

(* NS_ASSERT in ProcessOneEvent, made strict: the key of the current event  *)
(* only ever grows, so time never goes back and events with the same time   *)
(* stamp run in the order in which they were inserted.                      *)
RunsInKeyOrder == [][Current' # Current => KeyLess(Current, Current')]_vars

(* where an event that has not run yet can be *)
SideImpls  == {m_eventsWithContext[i].impl : i \in DOMAIN m_eventsWithContext}
LocalImpls == {eventsWithContext[i].impl : i \in DOMAIN eventsWithContext}
QueueImpls == {e.impl : e \in m_events}
DestroyIds == {id.impl : id \in {i \in ids : i.uid = DESTROY}}

(* No event is lost between the threads, and none can run twice: every      *)
(* event scheduled so far is in the side queue, in the list being moved or  *)
(* in the scheduler, in one place only, or it has been called or cancelled. *)
NoEventLostOrDoubled ==
  pc # "disposed" =>
    /\ 1 .. nextImpl - 1 \subseteq
         SideImpls \cup LocalImpls \cup QueueImpls \cup DestroyIds \cup invoked \cup cancelled
    /\ invoked \cap (SideImpls \cup LocalImpls \cup QueueImpls) = {}
    /\ SideImpls \cap LocalImpls = {}
    /\ QueueImpls \cap (SideImpls \cup LocalImpls) = {}

(* An event that another thread injects while an event function runs        *)
(* always reaches the scheduler, even when that function stops the          *)
(* simulation: ProcessOneEvent ends by looking at the side queue.           *)
InjectedEventIsMoved ==
  \A i \in Impls : (pc = "event" /\ i \in SideImpls) ~> i \notin SideImpls

=============================================================================

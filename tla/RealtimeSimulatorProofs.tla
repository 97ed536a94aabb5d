------------------------ MODULE RealtimeSimulatorProofs ------------------------
(***************************************************************************)
(* Proofs about RealtimeSimulator, for every set of threads and delays and *)
(* every bound on the clock and on the number of events: no event runs     *)
(* early, events run in the order of their keys, and no wakeup is lost.    *)
(***************************************************************************)
EXTENDS RealtimeSimulator, TLAPS

(* The wall clock is never behind the last event, before Run and after a   *)
(* fatal jitter too.                                                       *)
ClockNotBehind == m_currentTs <= clock

(* A uid is handed out once: the counter is beyond every uid in use. *)
UidsBelowCounter ==
  /\ m_currentUid < m_uid
  /\ \A ev \in m_events : ev.uid < m_uid

(* Events leave the queue only by user code and by ProcessOneEvent, so the  *)
(* event that is waited for, or one of its time, is queued during the wait. *)
AwaitedIsQueued ==
  Waiting \/ main = "take" => \E ev \in m_events : ev.ts = tsNext

(* The wait ends uninterrupted only when its deadline has been reached. *)
TakeIsDue == main = "take" => tsNext <= clock

(* DoSynchronize sleeps only for more than the time it would spin, so the   *)
(* end of a sleep is never before its start.                                *)
SleepsForward == main = "timed" => SpinTime < left

RInv ==
  /\ TypeOK
  /\ SleepsForward
  /\ ClockNotBehind
  /\ UidsBelowCounter
  /\ NothingInPast
  /\ AwaitedIsQueued
  /\ TakeIsDue
  /\ NoLostWakeup

-----------------------------------------------------------------------------
(* The part of the type invariant that arithmetic needs. *)
Numbers ==
  /\ clock \in Nat /\ m_currentTs \in Nat /\ m_currentUid \in Nat /\ m_uid \in Nat
  /\ tsNow \in Nat /\ tsNext \in Nat /\ left \in Nat
  /\ \A ev \in m_events : ev.ts \in Nat /\ ev.uid \in Nat

LEMMA TypeNumbers == TypeOK => Numbers
<1> SUFFICES ASSUME TypeOK PROVE Numbers
  OBVIOUS
<1>1. \A ev \in Event : ev.ts \in Nat /\ ev.uid \in Nat
  BY DEF Event
<1> QED BY <1>1 DEF TypeOK, Numbers

LEMMA InitRInv == Init => RInv
<1> SUFFICES ASSUME Init PROVE RInv
  OBVIOUS
<1>1. TypeOK
  BY DEF Init, TypeOK
<1>2. ClockNotBehind /\ UidsBelowCounter
  <2>1. clock = 0 /\ m_currentTs = 0 /\ m_currentUid = 0 /\ m_uid = 4 /\ m_events = {}
    BY DEF Init
  <2> QED BY <2>1 DEF ClockNotBehind, UidsBelowCounter
<1>3. SleepsForward /\ NothingInPast /\ AwaitedIsQueued /\ TakeIsDue /\ NoLostWakeup
  BY DEF Init, SleepsForward, NothingInPast, AwaitedIsQueued, TakeIsDue, NoLostWakeup, Waiting
<1> QED BY <1>1, <1>2, <1>3 DEF RInv

(* Every step keeps every variable in its type. *)
LEMMA NextType == TypeOK /\ SleepsForward /\ [Next]_vars => TypeOK'
<1> SUFFICES ASSUME TypeOK, SleepsForward, [Next]_vars PROVE TypeOK'
  OBVIOUS
<1>n. Numbers
  BY TypeNumbers
<1>i. ASSUME NEW delay \in Delays, NEW ts \in AbsoluteTs(delay), Insert(ts)
      PROVE  m_events' \subseteq Event /\ m_uid' \in Nat /\ m_condition' \in BOOLEAN
  <2>1. ts \in Nat /\ m_uid + 1 \in Nat
    BY <1>n, RealtimeAssumption DEF AbsoluteTs, Numbers
  <2>2. [ts |-> ts, uid |-> m_uid] \in Event
    BY <1>n, <2>1 DEF Event, Numbers
  <2> QED BY <1>i, <2>1, <2>2 DEF Insert, TypeOK
<1>1. ASSUME NEW delay \in Delays, Schedule(delay) PROVE TypeOK'
  BY <1>1, <1>i DEF Schedule, current, waitVars, TypeOK
<1>2. ASSUME NEW t \in Threads, NEW delay \in Delays, ThreadInsert(t, delay) PROVE TypeOK'
  BY <1>2, <1>i DEF ThreadInsert, current, waitVars, TypeOK
<1>3. ASSUME NEW ev \in m_events, Remove(ev) PROVE TypeOK'
  BY <1>3 DEF Remove, current, waitVars, TypeOK
<1>4. ASSUME NEW t \in Threads, ThreadSignal(t) PROVE TypeOK'
  BY <1>4 DEF ThreadSignal, current, waitVars, TypeOK
<1>5. CASE Tick
  <2>1. clock' \in Nat
    BY <1>5, <1>n DEF Tick, Numbers
  <2> QED BY <1>5, <2>1 DEF Tick, current, waitVars, TypeOK
<1>6. CASE Plan
  <2>1. tsNext' \in Nat /\ tsNow' \in Nat
    BY <1>6, <1>n DEF Plan, Numbers
  <2> QED BY <1>6, <2>1 DEF Plan, Goto, current, TypeOK
<1>7. CASE Take
  <2>1. m_currentTs' \in Nat /\ m_currentUid' \in Nat
    BY <1>7, <1>n DEF Take, Numbers
  <2>2. m_events' \subseteq Event /\ main' \in {"fatal", "event"}
    BY <1>7 DEF Take, Goto, TypeOK
  <2> QED BY <1>7, <2>1, <2>2 DEF Take, waitVars, TypeOK
<1>8. CASE Sync
  <2>1. left' \in Nat
    BY <1>8, <1>n DEF Sync, Deadline, Numbers
  <2>2. main' \in {"timed", "drift"}
    BY <1>8 DEF Sync, Goto
  <2> QED BY <1>8, <2>1, <2>2 DEF Sync, current, TypeOK
<1>9. CASE TimedWait
  <2>1. until' \in Nat \cup {Refused}
    <3>1. clock + (left - SpinTime) \in Nat
      BY <1>9, <1>n, RealtimeAssumption DEF TimedWait, Numbers, SleepsForward
    <3> QED BY <1>9, <3>1 DEF TimedWait
  <2> QED BY <1>9, <2>1 DEF TimedWait, Goto, current, TypeOK
<1>10. CASE TestCondition \/ RefusedWait \/ Sleep \/ WakeUp \/ Drift \/ SpinWait
  BY <1>10 DEF TestCondition, RefusedWait, Sleep, WakeUp, Drift, SpinWait, Goto, current, waitVars,
               TypeOK
<1>11. CASE Stop \/ ThreadStop \/ Run \/ RunReturns \/ Check \/ Idle \/ EventReturns
  BY <1>11 DEF Stop, ThreadStop, Run, RunReturns, Check, Idle, EventReturns, Goto, current,
               waitVars, TypeOK
<1>12. CASE UNCHANGED vars
  BY <1>12 DEF vars, TypeOK
<1> QED
  BY <1>1, <1>2, <1>3, <1>4, <1>5, <1>6, <1>7, <1>8, <1>9, <1>10, <1>11, <1>12
  DEF Next, Program, ThreadStep, MainStep

(* Every step keeps the rest of the invariant. *)
LEMMA NextRInv == RInv /\ [Next]_vars => RInv'
<1> SUFFICES ASSUME RInv, [Next]_vars PROVE RInv'
  OBVIOUS
<1>t. TypeOK /\ SleepsForward
  BY DEF RInv
<1>p. ClockNotBehind /\ UidsBelowCounter /\ NothingInPast
  BY DEF RInv
<1>w. AwaitedIsQueued /\ TakeIsDue /\ NoLostWakeup
  BY DEF RInv
<1>t1. TypeOK'
  BY <1>t, NextType
<1>n. Numbers /\ Numbers'
  <2>1. Numbers
    BY <1>t, TypeNumbers
  <2>2. Numbers'
    BY <1>t1, TypeNumbers, PTL
  <2> QED BY <2>1, <2>2
<1> DEFINE Order == ClockNotBehind /\ UidsBelowCounter /\ NothingInPast
           Wait  == AwaitedIsQueued /\ TakeIsDue /\ NoLostWakeup
(* what an insertion, of either kind of thread, does to the queue *)
<1>i. ASSUME NEW delay \in Delays, NEW ts \in AbsoluteTs(delay), Insert(ts),
             UNCHANGED <<clock, current>>
      PROVE  Order'
  <2>1. m_events' = m_events \cup {[ts |-> ts, uid |-> m_uid]} /\ m_uid' = m_uid + 1
    BY <1>i DEF Insert
  <2>2. ts \in Nat /\ m_currentTs <= ts
    BY <1>n, <1>p, RealtimeAssumption DEF AbsoluteTs, Numbers, ClockNotBehind
  <2>3. UNCHANGED <<clock, m_currentTs, m_currentUid>>
    BY <1>i DEF current
  <2>4. ClockNotBehind'
    BY <1>p, <2>3 DEF ClockNotBehind
  <2>5. UidsBelowCounter'
    BY <1>n, <1>p, <2>1, <2>3 DEF UidsBelowCounter, Numbers
  <2>6. NothingInPast'
    BY <1>n, <1>p, <2>1, <2>2, <2>3 DEF UidsBelowCounter, NothingInPast, Numbers
  <2> QED BY <2>4, <2>5, <2>6
(* steps that leave the queue, the counter and the current event alone *)
<1>q. ASSUME UNCHANGED <<m_events, current, m_uid>>, clock <= clock' PROVE Order'
  <2>1. UNCHANGED <<m_events, m_uid, m_currentTs, m_currentUid>>
    BY <1>q DEF current
  <2>2. ClockNotBehind'
    BY <1>n, <1>p, <1>q, <2>1 DEF ClockNotBehind, Numbers
  <2>3. UidsBelowCounter' /\ NothingInPast'
    BY <1>p, <2>1 DEF UidsBelowCounter, NothingInPast
  <2> QED BY <2>2, <2>3
<1>q1. ASSUME UNCHANGED <<m_events, current, m_uid, clock>> PROVE Order'
  <2>1. clock <= clock'
    BY <1>q1, <1>n DEF Numbers
  <2> QED BY <1>q, <1>q1, <2>1
(* the next event is not after any other *)
<1>f. ASSUME NEW ev \in m_events, IsNext(ev) PROVE \A f \in m_events : ev.ts <= f.ts
  BY <1>f, <1>n DEF IsNext, KeyLess, Numbers
<1>s. SleepsForward'
  <2>1. CASE Sync
    <3>1. main' = IF left' > SpinTime THEN "timed" ELSE "drift"
      BY <2>1 DEF Sync, Goto
    <3> QED BY <1>n, <3>1, RealtimeAssumption DEF SleepsForward, Numbers
  <2>2. CASE ~Sync
    <3>1. main' = "timed" => main = "timed" /\ left' = left
      BY <2>2 DEF Next, Program, ThreadStep, MainStep, Schedule, Remove, Stop, Run, ThreadInsert,
                  ThreadSignal, ThreadStop, RunReturns, Check, Idle, Plan, TimedWait,
                  TestCondition, RefusedWait, Sleep, WakeUp, Drift, SpinWait, Take, EventReturns,
                  Tick, Goto, waitVars, vars
    <3> QED BY <1>t, <3>1 DEF SleepsForward
  <2> QED BY <2>1, <2>2
<1> USE DEF waitVars
<1>1. ASSUME NEW delay \in Delays, Schedule(delay) PROVE Order' /\ Wait'
  <2>1. Order'
    BY <1>1, <1>i DEF Schedule
  <2>2. main' \in {"setup", "event"}
    BY <1>1 DEF Schedule, UserCode
  <2> QED BY <2>1, <2>2 DEF AwaitedIsQueued, TakeIsDue, NoLostWakeup, Waiting
<1>2. ASSUME NEW t \in Threads, NEW delay \in Delays, ThreadInsert(t, delay)
      PROVE  Order' /\ Wait'
  <2>1. Order'
    BY <1>2, <1>i DEF ThreadInsert
  <2>2. m_events \subseteq m_events' /\ m_condition' = TRUE
    BY <1>2 DEF ThreadInsert, Insert
  <2>3. m_mutex' # NoThread
    BY <1>2, RealtimeAssumption DEF ThreadInsert
  <2>4. UNCHANGED <<clock, main, tsNext>>
    BY <1>2 DEF ThreadInsert
  <2>5. AwaitedIsQueued' /\ TakeIsDue'
    BY <1>w, <2>2, <2>4 DEF AwaitedIsQueued, TakeIsDue, Waiting
  <2>6. NoLostWakeup'
    BY <2>2, <2>3 DEF NoLostWakeup, Free
  <2> QED BY <2>1, <2>5, <2>6
<1>3. ASSUME NEW ev \in m_events, Remove(ev) PROVE Order' /\ Wait'
  <2>1. /\ m_events' \subseteq m_events /\ main' \in {"setup", "event"}
        /\ UNCHANGED <<clock, m_currentTs, m_currentUid, m_uid>>
    BY <1>3 DEF Remove, UserCode, current
  <2>2. Order'
    BY <1>p, <2>1 DEF ClockNotBehind, UidsBelowCounter, NothingInPast
  <2> QED BY <2>1, <2>2 DEF AwaitedIsQueued, TakeIsDue, NoLostWakeup, Waiting
<1>4. ASSUME NEW t \in Threads, ThreadSignal(t) PROVE Order' /\ Wait'
  <2>1. Order'
    BY <1>4, <1>q1 DEF ThreadSignal
  <2>2. AwaitedIsQueued' /\ TakeIsDue'
    BY <1>4, <1>w DEF ThreadSignal, AwaitedIsQueued, TakeIsDue, Waiting
  <2>3. NoLostWakeup'
    BY <1>4, <1>w DEF ThreadSignal, NoLostWakeup, Waiting, HoldsConditionMutex
  <2> QED BY <2>1, <2>2, <2>3
<1>5. ASSUME Tick PROVE Order' /\ Wait'
  <2>1. clock' = clock + 1 /\ clock <= clock'
    BY <1>5, <1>n DEF Tick, Numbers
  <2>2. Order'
    BY <1>5, <1>q, <2>1 DEF Tick
  <2>3. UNCHANGED <<main, tsNext, m_events, m_mutex, m_condition>>
    BY <1>5 DEF Tick
  <2>4. TakeIsDue'
    BY <1>n, <1>w, <2>1, <2>3 DEF TakeIsDue, Numbers
  <2>5. AwaitedIsQueued' /\ NoLostWakeup'
    BY <1>w, <2>3 DEF AwaitedIsQueued, NoLostWakeup, Waiting, Free
  <2> QED BY <2>2, <2>4, <2>5
<1>6. ASSUME Plan PROVE Order' /\ Wait'
  <2>1. PICK ev \in m_events : IsNext(ev) /\ tsNext' = ev.ts
    BY <1>6 DEF Plan
  <2>2. \A f \in m_events : ev.ts <= f.ts
    BY <1>f, <2>1
  <2>3. Order'
    BY <1>6, <1>q1 DEF Plan
  <2>4. main' = "sync" /\ m_events' = m_events
    BY <1>6 DEF Plan, Goto
  <2>5. AwaitedIsQueued' /\ TakeIsDue' /\ NoLostWakeup'
    BY <2>1, <2>2, <2>4 DEF AwaitedIsQueued, TakeIsDue, NoLostWakeup
  <2> QED BY <2>3, <2>5
<1>7. ASSUME Take PROVE Order' /\ Wait'
  <2>1. PICK ev \in m_events :
          /\ IsNext(ev)
          /\ m_events' = m_events \ {ev}
          /\ m_currentTs' = ev.ts /\ m_currentUid' = ev.uid
    BY <1>7 DEF Take
  <2>2. main = "take" /\ main' \in {"fatal", "event"} /\ UNCHANGED <<clock, m_uid>>
    BY <1>7 DEF Take, Goto
  <2>3. ev.ts <= clock
    <3>1. PICK f \in m_events : f.ts = tsNext
      BY <1>w, <2>2 DEF AwaitedIsQueued
    <3>2. ev.ts <= f.ts
      BY <1>f, <2>1
    <3>3. tsNext <= clock
      BY <1>w, <2>2 DEF TakeIsDue
    <3> QED BY <1>n, <3>1, <3>2, <3>3 DEF Numbers
  <2>4. ClockNotBehind' /\ UidsBelowCounter'
    BY <1>p, <2>1, <2>2, <2>3 DEF ClockNotBehind, UidsBelowCounter
  <2>5. NothingInPast'
    BY <2>1 DEF NothingInPast, IsNext, KeyLess
  <2> QED BY <2>2, <2>4, <2>5 DEF AwaitedIsQueued, TakeIsDue, NoLostWakeup, Waiting
<1>8. ASSUME Sync \/ TimedWait \/ TestCondition \/ RefusedWait \/ Sleep \/ WakeUp
      PROVE  Order' /\ Wait'
  <2>1. UNCHANGED <<m_events, current, m_uid, clock, tsNext, m_condition, m_mutex>>
    BY <1>8 DEF Sync, TimedWait, TestCondition, RefusedWait, Sleep, WakeUp
  <2>2. main' # "take" /\ (Waiting' => Waiting)
    BY <1>8 DEF Sync, TimedWait, TestCondition, RefusedWait, Sleep, WakeUp, Goto, Waiting
  <2>3. main' \in {"sleep", "asleep"} /\ m_condition => main \in {"sleep", "asleep"}
    BY <1>8 DEF Sync, TimedWait, TestCondition, RefusedWait, Sleep, WakeUp, Goto
  <2>4. Order'
    BY <1>q1, <2>1
  <2>5. AwaitedIsQueued' /\ TakeIsDue'
    BY <1>w, <2>1, <2>2 DEF AwaitedIsQueued, TakeIsDue
  <2>6. NoLostWakeup'
    BY <1>w, <2>1, <2>2, <2>3 DEF NoLostWakeup, Free
  <2> QED BY <2>4, <2>5, <2>6
<1>9. ASSUME Drift \/ SpinWait PROVE Order' /\ Wait'
  <2>1. UNCHANGED <<m_events, current, m_uid, clock, tsNext, m_condition, m_mutex>>
    BY <1>9 DEF Drift, SpinWait
  <2>2. Waiting /\ main' \in {"take", "spin", "plan"}
    BY <1>9 DEF Drift, SpinWait, Goto, Waiting
  <2>3. main' = "take" => clock >= Deadline
    BY <1>9 DEF Drift, SpinWait, Goto
  <2>4. Order'
    BY <1>q1, <2>1
  <2>5. TakeIsDue'
    BY <1>n, <2>1, <2>3 DEF TakeIsDue, Deadline, Numbers
  <2>6. AwaitedIsQueued' /\ NoLostWakeup'
    BY <1>w, <2>1, <2>2 DEF AwaitedIsQueued, NoLostWakeup, Free, Waiting
  <2> QED BY <2>4, <2>5, <2>6
<1>10. ASSUME Run \/ RunReturns \/ Check \/ Idle \/ EventReturns
       PROVE  Order' /\ Wait'
  <2>1. Order'
    BY <1>10, <1>q1 DEF Run, RunReturns, Check, Idle, EventReturns
  <2>2. main' \in {"check", "returned", "idle", "plan", "idle refused"}
    BY <1>10 DEF Run, RunReturns, Check, Idle, EventReturns, Goto
  <2> QED BY <2>1, <2>2 DEF AwaitedIsQueued, TakeIsDue, NoLostWakeup, Waiting
<1>11. ASSUME Stop \/ ThreadStop \/ UNCHANGED vars
       PROVE  Order' /\ Wait'
  <2>1. UNCHANGED <<m_events, current, m_uid, clock, main, tsNext, m_condition, m_mutex>>
    BY <1>11 DEF Stop, ThreadStop, vars, current
  <2>2. Order'
    BY <1>q1, <2>1
  <2>3. Wait'
    BY <1>w, <2>1 DEF AwaitedIsQueued, TakeIsDue, NoLostWakeup, Free, Waiting
  <2> QED BY <2>2, <2>3
<1>12. Order' /\ Wait'
  BY <1>1, <1>2, <1>3, <1>4, <1>5, <1>6, <1>7, <1>8, <1>9, <1>10, <1>11
  DEF Next, Program, ThreadStep, MainStep
<1> QED BY <1>t1, <1>s, <1>12 DEF RInv

-----------------------------------------------------------------------------
(* The inductive invariant holds of the real-time engine, whatever the      *)
(* other threads insert and whenever they interrupt.                        *)
THEOREM Inductive == Spec => []RInv
BY InitRInv, NextRInv, PTL DEF Spec

(* The function of an event runs at its time or later, also when the head   *)
(* of the queue has changed while ProcessOneEvent was waiting.              *)
THEOREM NeverEarly == Spec => []NotEarly
<1>1. RInv => NotEarly
  BY DEF RInv, ClockNotBehind, NotEarly
<1> QED BY <1>1, Inductive, PTL

(* What Insert queues comes after the current event, so that                *)
(* ProcessOneEvent never steps back in time.                                *)
THEOREM TimeOnlyForward == Spec => []NothingInPast
<1>1. RInv => NothingInPast
  BY DEF RInv
<1> QED BY <1>1, Inductive, PTL

(* An event that must run before the awaited one interrupts the wait, and a *)
(* main thread that went to sleep after the condition was set is signalled. *)
THEOREM WakeupsArrive == Spec => []NoLostWakeup
<1>1. RInv => NoLostWakeup
  BY DEF RInv
<1> QED BY <1>1, Inductive, PTL

=============================================================================

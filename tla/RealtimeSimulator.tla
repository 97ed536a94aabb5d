--------------------------- MODULE RealtimeSimulator ---------------------------
(***************************************************************************)
(* The real-time engine: the main thread waits until the wall clock        *)
(* reaches the next event, while other threads (packet readers of emulated *)
(* devices) insert events under the mutex and interrupt the wait.          *)
(*                                                                         *)
(*   src/src/core/model/realtime-simulator-impl.cc                         *)
(*   src/src/core/model/wall-clock-synchronizer.cc                         *)
(*   src/src/core/model/unix-system-condition.cc                           *)
(*                                                                         *)
(* Time is in jiffies since Run set the origin, and the clock never goes   *)
(* back. A critical section of the main thread is one step, taken when no  *)
(* other thread is in one; that of an inserting thread is two, because the *)
(* main thread reads the condition without the mutex in between. The       *)
(* mutex of the condition is held by the main thread from its test of the  *)
(* condition until it sleeps.                                              *)
(***************************************************************************)
EXTENDS Integers, FiniteSets

CONSTANTS
  Threads,     \* the threads besides the main thread
  NoThread,
  Delays,      \* arguments of the Schedule calls
  SpinTime,    \* jiffies a wait does not sleep for (3 in DoSynchronize)
  HardLimit,   \* the attribute of that name
  MaxClock,    \* bound: the clock, except to finish a sleep, and the time of an event
  MaxEvents    \* bound: events scheduled

ASSUME RealtimeAssumption ==
  /\ NoThread \notin Threads
  /\ Delays \subseteq Nat
  /\ SpinTime \in Nat /\ HardLimit \in Nat
  /\ MaxClock \in Nat /\ MaxEvents \in Nat

VARIABLES
  clock,           \* GetCurrentRealtime
  m_events,        \* queued events
  m_currentTs, m_currentUid, m_uid,
  m_stop,
  hard,            \* m_synchronizationMode is SYNC_HARD_LIMIT
  main,            \* where the main thread is
  tsNow, tsNext,   \* locals of ProcessOneEvent
  left, until,     \* jiffies to wait; end of the sleep
  m_condition,
  m_mutex          \* the thread that is in a critical section

vars == <<clock, m_events, m_currentTs, m_currentUid, m_uid, m_stop, hard, main, tsNow, tsNext,
          left, until, m_condition, m_mutex>>

waitVars == <<tsNow, tsNext, left, until>>
current  == <<m_currentTs, m_currentUid>>

Event   == [ts : Nat, uid : Nat]
Free    == m_mutex = NoThread
Goto(p) == main' = p

(* The end of a sleep when the nanoseconds of the clock and of the sleep    *)
(* add up to exactly 10^9: TimedWait normalises only larger sums, and       *)
(* pthread_cond_timedwait refuses the time at once, without giving up the   *)
(* mutex. The fraction of the second is not modelled: it may always happen. *)
Refused == -1

HoldsConditionMutex == main \in {"sleep", "refused", "idle refused"}

KeyLess(a, b) == a.ts < b.ts \/ (a.ts = b.ts /\ a.uid < b.uid)

IsNext(ev) == ev \in m_events /\ \A f \in m_events \ {ev} : KeyLess(ev, f)

Init ==
  /\ clock = 0
  /\ m_events = {}
  /\ m_currentTs = 0 /\ m_currentUid = 0 /\ m_uid = 4
  /\ m_stop = FALSE
  /\ hard \in BOOLEAN
  /\ main = "setup"
  /\ tsNow = 0 /\ tsNext = 0 /\ left = 0 /\ until = 0
  /\ m_condition = FALSE
  /\ m_mutex = NoThread

Running == main \notin {"setup", "returned", "fatal"}

(* the wall clock *)
Tick ==
  /\ Running
  /\ clock < MaxClock \/ (main \in {"test", "sleep", "asleep"} /\ clock < until)
  /\ clock' = clock + 1
  /\ UNCHANGED <<m_events, current, m_uid, m_stop, hard, main, waitVars, m_condition, m_mutex>>

-----------------------------------------------------------------------------
(* Calls of the program on the main thread, before Run or from the function *)
(* of an event.                                                             *)
UserCode == main \in {"setup", "event"}

(* Insert and the first half of Signal; the deadline must not be beyond the *)
(* bounded clock                                                            *)
Insert(ts) ==
  /\ m_uid < MaxEvents + 4
  /\ ts <= MaxClock
  /\ m_events' = m_events \cup {[ts |-> ts, uid |-> m_uid]}
  /\ m_uid' = m_uid + 1
  /\ m_condition' = TRUE

(* Defect: the clock was read before the mutex was taken. *)
AbsoluteTsMutant(delay) == {clock + delay, m_currentTs + delay, clock - 1 + delay}

(* Schedule counts from the last event, ScheduleRealtime from the real      *)
(* time; ScheduleWithContext does the one on the main thread and the other  *)
(* on every other thread. Before Run the synchronizer has no origin and the *)
(* real time is that of the day, beyond MaxClock: such a time is left out.  *)
AbsoluteTs(delay) == {clock + delay, m_currentTs + delay}

Schedule(delay) ==
  /\ UserCode /\ Free
  /\ \E ts \in AbsoluteTs(delay) : Insert(ts)
  /\ UNCHANGED <<clock, current, m_stop, hard, main, waitVars, m_mutex>>

(* Remove of an event that is not expired *)
Remove(ev) ==
  /\ UserCode /\ Free
  /\ ev \in m_events
  /\ m_events' = m_events \ {ev}
  /\ UNCHANGED <<clock, current, m_uid, m_stop, hard, main, waitVars, m_condition, m_mutex>>

Stop ==
  /\ UserCode
  /\ m_stop' = TRUE
  /\ UNCHANGED <<clock, m_events, current, m_uid, hard, main, waitVars, m_condition, m_mutex>>

(* The origin is the time of the call, so the clock is 0. m_running is set  *)
(* just before the origin, without the mutex; a thread that schedules in    *)
(* between gets the time of the day, which is left out as before Run.       *)
Run ==
  /\ main = "setup"
  /\ m_stop' = FALSE
  /\ Goto("check")
  /\ UNCHANGED <<clock, m_events, current, m_uid, hard, waitVars, m_condition, m_mutex>>

-----------------------------------------------------------------------------
(* The other threads.                                                       *)

ThreadInsert(t, delay) ==
  /\ Running /\ Free
  /\ m_mutex' = t
  /\ \E ts \in AbsoluteTs(delay) : Insert(ts)
  /\ UNCHANGED <<clock, current, m_stop, hard, main, waitVars>>

(* pthread_cond_signal, then the end of the critical section *)
ThreadSignal(t) ==
  /\ m_mutex = t
  /\ ~HoldsConditionMutex
  /\ main' = IF main = "asleep" THEN "test" ELSE main
  /\ m_mutex' = NoThread
  /\ UNCHANGED <<clock, m_events, current, m_uid, m_stop, hard, waitVars, m_condition>>

ThreadStop ==
  /\ Running
  /\ m_stop' = TRUE
  /\ UNCHANGED <<clock, m_events, current, m_uid, hard, main, waitVars, m_condition, m_mutex>>

-----------------------------------------------------------------------------
(* Run and ProcessOneEvent.                                                 *)
RunReturns ==
  /\ main = "check" /\ m_stop
  /\ Goto("returned")
  /\ UNCHANGED <<clock, m_events, current, m_uid, m_stop, hard, waitVars, m_condition, m_mutex>>

Check ==
  /\ main = "check" /\ ~m_stop /\ Free
  /\ Goto(IF m_events = {} THEN "idle" ELSE "plan")
  /\ UNCHANGED <<clock, m_events, current, m_uid, m_stop, hard, waitVars, m_condition, m_mutex>>

(* Defect: the wait is not limited to one second. *)
IdleMutant ==
  /\ main = "idle" /\ m_condition
  /\ Goto("check")
  /\ UNCHANGED <<clock, m_events, current, m_uid, m_stop, hard, waitVars, m_condition, m_mutex>>

(* Synchronize for a second, or less if interrupted; the result is ignored. *)
(* Whether the condition is set from before is not looked at.               *)
Idle ==
  /\ main = "idle"
  /\ Goto("check") \/ (~m_condition /\ Goto("idle refused"))
  /\ UNCHANGED <<clock, m_events, current, m_uid, m_stop, hard, waitVars, m_condition, m_mutex>>

(* the critical section at the head of the loop *)
Plan ==
  /\ main = "plan" /\ Free
  /\ \E ev \in m_events :
       /\ IsNext(ev)
       /\ tsNext' = ev.ts
       /\ tsNow' = clock
  /\ m_condition' = FALSE
  /\ Goto("sync")
  /\ UNCHANGED <<clock, m_events, current, m_uid, m_stop, hard, left, until, m_mutex>>

(* tsNow + tsDelay: an event that is late already is waited for until now *)
Deadline == IF tsNext <= tsNow THEN tsNow ELSE tsNext

(* Defect: the condition is reset after the mutex is given up. *)
SyncMutant ==
  /\ main = "sync"
  /\ left' = IF clock >= Deadline THEN 0 ELSE Deadline - clock
  /\ Goto(IF left' > SpinTime THEN "timed" ELSE "drift")
  /\ m_condition' = FALSE
  /\ UNCHANGED <<clock, m_events, current, m_uid, m_stop, hard, tsNow, tsNext, until, m_mutex>>

(* DoSynchronize: the drift since tsNow is taken off the delay *)
Sync ==
  /\ main = "sync"
  /\ left' = IF clock >= Deadline THEN 0 ELSE Deadline - clock
  /\ Goto(IF left' > SpinTime THEN "timed" ELSE "drift")
  /\ UNCHANGED <<clock, m_events, current, m_uid, m_stop, hard, tsNow, tsNext, until,
                 m_condition, m_mutex>>

(* TimedWait reads the clock again *)
TimedWait ==
  /\ main = "timed"
  /\ until' \in {clock + (left - SpinTime), Refused}
  /\ Goto("test")
  /\ UNCHANGED <<clock, m_events, current, m_uid, m_stop, hard, tsNow, tsNext, left,
                 m_condition, m_mutex>>

TestCondition ==
  /\ main = "test"
  /\ Goto(CASE m_condition -> "plan"
            [] ~m_condition /\ until = Refused -> "refused"
            [] OTHER -> "sleep")
  /\ UNCHANGED <<clock, m_events, current, m_uid, m_stop, hard, waitVars, m_condition, m_mutex>>

(* the loop in TimedWait tries again, until the condition is set *)
RefusedWait ==
  /\ m_condition
  /\ \/ main = "refused" /\ Goto("plan")
     \/ main = "idle refused" /\ Goto("check")
  /\ UNCHANGED <<clock, m_events, current, m_uid, m_stop, hard, waitVars, m_condition, m_mutex>>

Sleep ==
  /\ main = "sleep"
  /\ Goto("asleep")
  /\ UNCHANGED <<clock, m_events, current, m_uid, m_stop, hard, waitVars, m_condition, m_mutex>>

(* the end of the time, or a wakeup without a reason *)
WakeUp ==
  /\ main = "asleep"
  /\ Goto(IF clock >= until THEN "drift" ELSE "test")
  /\ UNCHANGED <<clock, m_events, current, m_uid, m_stop, hard, waitVars, m_condition, m_mutex>>

Drift ==
  /\ main = "drift"
  /\ Goto(IF clock >= Deadline THEN "take" ELSE "spin")
  /\ UNCHANGED <<clock, m_events, current, m_uid, m_stop, hard, waitVars, m_condition, m_mutex>>

(* Defect: an interrupted wait counts as one that was completed. *)
SpinWaitMutant ==
  /\ main = "spin"
  /\ clock >= Deadline \/ m_condition
  /\ Goto("take")
  /\ UNCHANGED <<clock, m_events, current, m_uid, m_stop, hard, waitVars, m_condition, m_mutex>>

SpinWait ==
  /\ main = "spin"
  /\ \/ clock >= Deadline /\ Goto("take")
     \/ clock < Deadline /\ m_condition /\ Goto("plan")
  /\ UNCHANGED <<clock, m_events, current, m_uid, m_stop, hard, waitVars, m_condition, m_mutex>>

Jitter(ts) == IF clock >= ts THEN clock - ts ELSE ts - clock

(* whatever event is the next one now; a jitter beyond the hard limit ends  *)
(* the program                                                              *)
Take ==
  /\ main = "take" /\ Free
  /\ \E ev \in m_events :
       /\ IsNext(ev)
       /\ m_events' = m_events \ {ev}
       /\ m_currentTs' = ev.ts /\ m_currentUid' = ev.uid
       /\ Goto(IF hard /\ Jitter(ev.ts) > HardLimit THEN "fatal" ELSE "event")
  /\ UNCHANGED <<clock, m_uid, m_stop, hard, waitVars, m_condition, m_mutex>>

EventReturns ==
  /\ main = "event"
  /\ Goto("check")
  /\ UNCHANGED <<clock, m_events, current, m_uid, m_stop, hard, waitVars, m_condition, m_mutex>>

-----------------------------------------------------------------------------
Program ==
  \/ \E delay \in Delays : Schedule(delay)
  \/ \E ev \in m_events : Remove(ev)
  \/ Stop \/ Run

ThreadStep ==
  \/ \E t \in Threads : (\E delay \in Delays : ThreadInsert(t, delay)) \/ ThreadSignal(t)
  \/ ThreadStop

MainStep ==
  \/ RunReturns \/ Check \/ Idle
  \/ Plan \/ Sync \/ TimedWait \/ TestCondition \/ RefusedWait \/ Sleep \/ WakeUp \/ Drift \/ SpinWait
  \/ Take \/ EventReturns

Next == Program \/ ThreadStep \/ MainStep \/ Tick

Spec == Init /\ [][Next]_vars

FairSpec ==
  /\ Spec
  /\ WF_vars(Tick) /\ WF_vars(MainStep)
  /\ \A t \in Threads : WF_vars(ThreadSignal(t))

-----------------------------------------------------------------------------
TypeOK ==
  /\ clock \in Nat
  /\ m_events \subseteq Event
  /\ m_currentTs \in Nat /\ m_currentUid \in Nat /\ m_uid \in Nat
  /\ m_stop \in BOOLEAN /\ hard \in BOOLEAN
  /\ main \in {"setup", "check", "idle", "plan", "sync", "timed", "test", "sleep", "asleep",
               "refused", "idle refused", "drift", "spin", "take", "event", "returned", "fatal"}
  /\ tsNow \in Nat /\ tsNext \in Nat /\ left \in Nat /\ until \in Nat \cup {Refused}
  /\ m_condition \in BOOLEAN
  /\ m_mutex \in Threads \cup {NoThread}

(* No event is run before the wall clock has reached its time, although the *)
(* event at the head may have changed since the wait began.                 *)
NotEarly == main = "event" => m_currentTs <= clock

(* Every event queued comes after the current one, in time or, at the same  *)
(* time, in the order of scheduling (the assertions of the Schedule calls   *)
(* and of ProcessOneEvent): events run in the order of their keys, although *)
(* other threads read their time from the wall clock while one runs.        *)
NothingInPast ==
  \A ev \in m_events :
    m_currentTs < ev.ts \/ (m_currentTs = ev.ts /\ m_currentUid < ev.uid)

Waiting == main \in {"sync", "timed", "test", "sleep", "asleep", "refused", "drift", "spin"}

(* While the main thread waits, either the condition tells it to look again *)
(* or there is no event earlier than the one it waits for; asleep, with the *)
(* condition set, it is about to be signalled. No wakeup is lost.           *)
NoLostWakeup ==
  /\ Waiting /\ ~m_condition => \A ev \in m_events : tsNext <= ev.ts
  /\ main \in {"sleep", "asleep"} /\ m_condition => ~Free

(* "The simulation will run until one of: ... The user called               *)
(* Simulator::Stop": after Stop, on any thread, Run returns. It does not in *)
(* a timed wait that pthread_cond_timedwait refuses, which no time ends.    *)
StopEnds == (m_stop /\ Running) ~> main \in {"returned", "fatal"}

(* the main thread is in the end left in a timed wait that is refused *)
StuckInWait == <>[](main \in {"refused", "idle refused"})

(* Stop signals nobody, and the main thread may be asleep for an event far  *)
(* away or in the idle wait: Run still returns after Stop, on any thread,   *)
(* unless a refused wait keeps it for ever.                                 *)
StopEndsUnlessRefused == StuckInWait \/ StopEnds
=============================================================================

# A verification project for ns-3

ns-3 is a discrete-event network simulator: a library (`src/src/<module>/model`)
of an event engine, network objects and protocol models, and programs that build
a topology and call `Simulator::Run`. This project keeps TLA+ modules for the
parts of ns-3 where an execution depends on an order nobody wrote down (event
order, threads, MPI ranks, timers, queues at their limits), TLC configurations
that check them on small instances, and TLAPS proofs of the main results for
every instance.

Paths below are relative to `src/src/` of the repository.

## Inventory

| part | state | operations | interacts with | what is hard |
|---|---|---|---|---|
| default simulator engine (`core/model/default-simulator-impl`) | event queue, current time/uid/context, destroy list, side queue and its flag, `m_stop` | Schedule, ScheduleWithContext, ScheduleNow, ScheduleDestroy, Remove, Cancel, IsExpired, Run, Stop, Destroy | scheduler, EventId handles held by every model, injecting threads | handles that outlive events, an unlocked flag, ties, uid wrap |
| schedulers (`core/model/*-scheduler`) | list, heap, map, priority queue, calendar buckets | Insert, PeekNext, RemoveNext, Remove | the engines | removal from the middle, resizing, equal time stamps |
| real-time engine (`core/model/realtime-simulator-impl`, `wall-clock-synchronizer`) | as above under a mutex; synchronizer condition | the same, from any thread; Synchronize, Signal | wall clock, emulated devices | lost wakeups, the head changing during a wait |
| conservative parallel engine, granted time window (`mpi/model/distributed-simulator-impl`, `granted-time-window-mpi-interface`) | per rank: queue, clock, lookahead, granted time, rx/tx counts | Run (LBTS all-gather), SendPacket, ReceiveMessages | ranks by MPI, remote point-to-point channels | causality, transient messages, termination of all ranks together |
| conservative parallel engine, null messages (`mpi/model/null-message-simulator-impl`, `remote-channel-bundle`) | per rank: queue, safe time, guarantee time per neighbour | Run, null message events, blocking receive | neighbour ranks | deadlock, guarantees that must hold |
| point-to-point and CSMA links (`point-to-point`, `csma`) | transmitter state, queue, channel state, backoff | Send, TransmitStart, TransmitComplete, Receive | queues, channel, IP | one frame on the wire, retries, detach |
| net-device queues and traffic control (`network/utils/queue*`, `traffic-control`) | packet queue, limits, stopped flags, requeued packet | Enqueue, Dequeue, Stop/Wake, Run | devices, queue discs | stalls, limits, accounting |
| live visualizer (`visualizer/visualizer/core.py`, `visualizer/model/pyviz.cc`) | lock, go event, target time, pause messages, view timer, play button | run one sample period, update the view, play, speed, query, quit | engine, Gtk and GLib | two threads, an event loop nested in a handler, joining from a handler |
| test runner (`test.py` of the repository) | two queues, worker threads, interrupt flag, counts, results file | dispatch, work, interrupt, collect, report | child processes | interrupts, workers and children that fail, an honest exit status |
| timers (`core/model/timer`, `watchdog`, `trickle-timer`) | state flags, event id, remaining delay | Schedule, Suspend, Resume, Cancel, Ping, Reset | engine | expiry racing the owner's calls |
| ARP and NDP caches (`internet/model/arp-*`, `ndisc-cache`) | entry state machine, pending packets, retries | lookup, reply, wait timeout | IP, devices | timeout racing a reply, pending packets lost |
| TCP (`internet/model/tcp-*`) | socket state machine, tx/rx buffers, congestion state | connect, send, close, segments, timers | IP | loss, reordering, simultaneous close |
| routing (`aodv`, `olsr`, `dsdv`, `dsr`, `internet/model/rip`, `global-router`) | tables, sequence numbers, queues of pending packets | requests, replies, errors, timers | IP | loops, stale routes |
| wireless (`wifi`, `lte`, `wimax`, `lr-wpan`, `mesh`, `uan`) | MAC state machines, block-ack windows, RLC buffers | frames, timers, scheduling | channels | windows, retransmission |
| object model (`core/model/object`, `type-id`, `attribute`, `config`) | aggregation, attributes, trace sources | aggregate, set, connect | everything | initialisation order |

Properties that make each part correct, in the order of the table: handles that
answer exactly and events in key order; an event list that returns the earliest
event; no event run before its real time and no wakeup lost; causality and
common termination; guarantees kept and no deadlock; one frame at a time and no
device stuck; no queue stalled with packets in it; messages shown once, play that
goes on and a quit that completes; no job lost and no false success; a timer that fires once, at
its time; pending packets sent or dropped, never forgotten; then, for the
protocols, what their standards promise.

## Modules

| module | models | run by |
|---|---|---|
| `DefaultSimulator` | default simulator engine, its handles and the side queue of other threads | `MCDefaultSimulator` |
| `EventKey`, `EventList` | order of event keys; what `scheduler.h` promises (abstract). With a `std::map` `MapScheduler` is this specification | instantiated by the ones below |
| `ListScheduler`, `HeapScheduler`, `CalendarScheduler` | the three schedulers with an algorithm of their own | instantiated by `EventQueue`; `MCHeapScheduler` |
| `EventQueue` | composes the three: an engine's queue, whose scheduler `SetScheduler` may replace in mid-run; implements `EventList` | `MCEventQueue` |
| `RealtimeSimulator` | real-time engine, wall-clock synchronizer and the condition below it | `MCRealtimeSimulator` |
| `GrantedTimeWindow` | parallel engine with time windows | `MCGrantedTimeWindow` |
| `NullMessage` | parallel engine with null messages, and the transmit machine of the point-to-point devices that send | `MCNullMessage` |
| `TrafficControl` | composes traffic control layer, queue disc, device queue, byte limits and point-to-point device | itself |
| `Visualizer` | simulation thread and GUI thread of the live visualizer | itself |
| `TestRunner` | main thread, workers, interrupt and results of `test.py` | `MCTestRunner` |
| `DefaultSimulatorProofs`, `GrantedTimeWindowProofs`, `NullMessageProofs`, `EventQueueProofs`, `RealtimeSimulatorProofs`, `TrafficControlProofs`, `VisualizerProofs`, `TestRunnerProofs` | the theorems about the module of the name | tlapm |

Variables keep the names of the members (`m_events`, `m_currentTs`,
`m_grantedTime`, ...). Every operation is one action; where other threads or
ranks can come in between, a function is cut there and `pc` says where its
thread is. User code is arbitrary: whenever the program or the function of an
event has control it may make any call, in any order. `...Mutant` definitions
are plausible mistakes, each next to the definition it stands for; no
specification uses them, and each is known to break the property it is meant
for. `PROJECT.json` maps every definition to its lines.

**DefaultSimulator.** `ProcessEventsWithContext` is cut into the unlocked test of
its flag (`DrainNothing`), the critical section (`DrainSwap`) and the loop
(`DrainInsert`, `DrainDone`), because another thread may add to the side queue
between them (`ThreadScheduleWithContext`). `EventId`s the program has received
stay in `ids` for ever, so stale handles are always tried. `m_uid` wraps at
`UidModulus`. The scheduler is a set and `RemoveNext` takes its smallest key:
this is what the scheduler modules justify, and what `heap_remove` refutes for
one of them. `Destroy` and `DoDispose` end a behaviour. `core/model/simulator.h`
says at 386-387, 401-402 and 412-414 that removing, cancelling or testing an event
scheduled for the "destroy" time is a program error (crash); the code supports all
three (`default-simulator-impl.cc:318-330` and 360-376) and
`core/test/simulator-test-suite.cc:194-211` relies on it. The model follows the
code; `ExpiredIsExact` is about the other ids only.

**Schedulers.** `EventQueue` holds the data structure of the scheduler in use
(`store`) and passes every call on to it; `SetScheduler` drains it, earliest first,
into a fresh one of any type. Under the mapping "the set of events held" this
implements `EventList`. The environment inserts only keys after the last one
removed, which DefaultSimulator's `KeyOrder` theorem gives. What a call returns and
leaves is an operator on the data structure (`PeekNext`, `Inserted`, `NextRemoved`,
`TakenOut`), and a loop is a function from the number of rounds to the state after
them: `Rise` and `Sink` are the rounds of the heap's loops, `Move` that of
`SetScheduler`, and the calendar's rounds are calls of `DoInsert` and `DoRemoveNext`.
The calendar is one record with the members of the class, `m_reverse` among them;
it goes through every `ResizeUp`, `ResizeDown` and `CalculateNewWidth`, with both
values of `Reverse`. The modules use no RECURSIVE operator, so that they can be
proved about.

**GrantedTimeWindow.** A rank runs events within its window, then receives and
joins the all-gather. MPI is external: it delivers messages in any order and at
any time (`Arrive`), and the two collective calls are one step of all ranks. A
rank leaving a collective call only writes state of its own from the values
gathered, so nothing is lost by letting all leave at once. Counters are
represented by the sets of what they count. The granted time is an int64 sum that
wraps (`Wrap`): the code says at `distributed-simulator-impl.cc:427` "Overflow is
possible here if near end of representable time". When every rank is finished
`smallestTime` is `MaxTime`, the largest `Time`, and with a finite lookahead the sum
is negative. That is always the last all-gather of a Run, and nothing reads the
result before the next Run sets it again, so `WindowsMoveForward` is about the
all-gathers after which a rank goes on. That none of these overflows rests on
`Horizon`, a bound on the times of events that is at least the largest lookahead
below `MaxTime`.

**NullMessage.** A message carries a guarantee; a rank runs up to the smallest
guarantee received. Channels are FIFO, as MPI orders messages between two ranks
with one tag. Null message events are ordinary events of the queue, cancelled
ones included, because `Next ()` looks at those too. The device is part of the
module: its `TransmitStart` schedules the completion before it hands the packet
to the channel, and the guarantee depends on that order.

**RealtimeSimulator.** A critical section of the main thread is one step; that of
an inserting thread is two, because the main thread reads the condition without
the mutex in between. `Synchronize` is cut at every place where the clock or the
condition is read: drift correction (`Sync`), `TimedWait`, the test under the
condition's mutex, the sleep, the drift afterwards (`Drift`) and `SpinWait`. The
wall clock is an action of its own (`Tick`). A wait whose end has exactly 10^9
nanoseconds is refused by `pthread_cond_timedwait`
(`core/model/unix-system-condition.cc:187` compares with `>` where `>=` is
needed), and `TimedWait` then loops with the condition's mutex held until the
condition is set. Fractions of a second are not modelled, so this may happen in
any wait (`Refused`); a refused wait ends with the next insertion, and without one
never, not even by `Stop`: this is the finding of realtime_refused. `StopEnds` is
what `simulator.h` promises, and `StopEndsUnlessRefused` what is left of it. A
cancelled event is one whose function does nothing. `Run` is one step, where the
code sets `m_running` before `SetOrigin`, without the mutex
(`realtime-simulator-impl.cc:433-434`): a thread that schedules in between would read
a clock that has not been started. Before `Run` that clock reads 0 in the model.

**TrafficControl.** Everything from `TrafficControlLayer::Send` to the end of a
transmission. A packet is its size on the link, chosen when it leaves the queue
disc. The traces that connect device queue and `NetDeviceQueue` are part of
`DeviceSend` and `TransmitNext`, as in the code, where all of it happens within
one call. The byte limits are a record of the members of `DynamicQueueLimits`,
unsigned and modulo `Word`; whether the hold time has expired is left open. The
configuration (disc or none, limits or none, packets or bytes) is chosen in `Init`.
With one device queue `Requeue` is unreachable and left out. `PacketEnqueued` stops
the queue for want of room for an MTU, but what is queued has the link's header on
top: in a queue measured in bytes a full-size packet may find no room and is
discarded with the message "BUG!", the finding of traffic_discard. `RoomForPacket`
says that this is the only way.

**Visualizer.** The lock is held by the simulation thread exactly while it runs,
so what the GUI does under it is one step. `update_view_timeout` polls the lock
and runs the event loop in between: `stack` holds the handlers that have not
returned. Times are kept relative to the view (`lag`, `togo`), so that a
simulation may go on for ever in a finite model. GLib and Gtk are external: a
source is not dispatched again while it is being dispatched, nor while one of
higher priority is ready.

**TestRunner.** `run_tests` from the moment the queues exist. How the child process
of a suite can end (`Ends`) is read off `core/model/test.cc`: the file is opened after
the arguments are read and printed into after the suite has run. So it is missing
with code 0 when the test-runner prints its help for an argument it does not know
(`test.cc:975-979`; suite names with blanks, which `test.py --constrain=bogus` makes of
an error message, are such arguments) or NS_LOG is print-list (`log.cc:96-99`); it is
empty with code 1 when no test has the name (`test.cc:1061-1065`) or a test calls
`exit (1)` (`lte/model/lte-asn1-header.cc:413`); valgrind may replace both codes by 2.
A crash may come before, during or after the suite. Undecodable output replaces the
code by 1 (`Code`), also that of a crash. The comment at `test.py:1796`, "If the return
code is 0, 1, or 2, we have a valid xml file", is therefore not so: copying a missing
file ends the main thread with an exception, and copying an empty one leaves the
suite without an entry, which `ReportIsComplete` describes. What holds is that none
of this passes for a success (`SuccessIsReported`). The comment at `test.py:1799-1804`
also announces a second entry, VALGR, for a suite with code 2; the code writes one
entry. `Popen` may raise, which ends the worker and takes its job along. A child that
is killed, or runs out of disk, while it prints its report is left out.

## Runs

| run | module, cfg | result | shows |
|---|---|---|---|
| default_simulator | `MCDefaultSimulator`, `DefaultSimulator.cfg` | pass | `ExpiredIsExact`, `CancelledNeverInvoked`, `UnscheduledCountsQueue`, `NoEventLostOrDoubled`, `RunsInKeyOrder`, and `InjectedEventIsMoved` under fairness |
| schedulers | `MCEventQueue`, `EventQueue.cfg` | pass | `RepresentationHolds` (order of list and heap, count and position of the calendar), `ImplementsEventList` |
| heap_remove | `MCHeapScheduler`, `HeapSchedulerRemove.cfg` | violation | `Remove` from the middle of a heap of six or more can break the heap order |
| window | `MCGrantedTimeWindow`, `GrantedTimeWindow.cfg` | pass | `NoStraggler`, `NoEventInPast`, `FinishedIsGlobal`, `WindowsMoveForward`, `EveryRunReturns` |
| null_messages | `MCNullMessage`, `NullMessage.cfg` | pass | `NoStraggler`, `GuaranteesHold`, `NullMessagesGoOn`, `EveryRunReturns` |
| null_two_links | `NullMessageDouble.cfg` | violation | an event that sends on two links of a bundle breaks the first packet's guarantee |
| realtime | `MCRealtimeSimulator`, `RealtimeSimulator.cfg` | pass | `NotEarly`, `NothingInPast`, `NoLostWakeup`, `StopEndsUnlessRefused` |
| realtime_refused | `RealtimeSimulatorRefused.cfg` | violation | `StopEnds`: a timed wait whose end has exactly 10^9 nanoseconds is refused for ever, and Run does not return after Stop |
| traffic_control | `TrafficControl`, `TrafficControl.cfg` | pass | `StoppedWillWake`, `NothingForgotten`, `RoomForPacket`, `BytesAccounted`, `BacklogBounded`, `DiscDrains` |
| traffic_discard | `TrafficControl`, `TrafficControlDiscard.cfg` | violation | `NoDiscard`: a full-size packet plus its header does not fit into a queue that was not stopped |
| visualizer | `Visualizer`, `Visualizer.cfg` | pass | `NoMessageLost`, `SimStaysNearView`, `PlayKeepsTimer`, `PlayAdvances`, `QuitCompletes` |
| test_runner | `MCTestRunner`, `TestRunner.cfg` | pass | `JobsAccounted`, `SuccessIsHonest`, `ReportIsComplete`, `SuccessIsReported`, `RunReturns`, `WorkersEnd` |

The violations are the disagreements between code and documentation listed under
"findings" in `PROJECT.json`, each with the line it contradicts.

### Bounds

* default_simulator: three events, one context, delays 0 and 1. Three events are
  enough for a running event, one it cancels or removes and one injected while
  it runs; delay 0 gives ties. `UidModulus` 16 does not wrap with three events.
* schedulers: nine events, ties at two times, uids that follow neither times nor
  insertion, times many calendar years apart; a heap of four levels, one to eight
  buckets. `MaxRemove` is 5 for the heap because up to five elements the last one
  is always in the subtree of the one removed or not earlier than its parent:
  larger heaps are the finding of heap_remove.
* window: three ranks with unequal link delays, so that lookaheads differ, a
  lookahead that the program may bound, and two events or packets, enough for one
  rank to send to another whose window is longer; `Horizon` leaves room for the largest
  lookahead and no more, so that the last all-gather overflows. One Run: with
  `MaxRuns` = 2, two ranks, one link of delay 2 and `Delays` {0, 3} TLC refutes
  `NoEventInPast`, which is the assertion of `distributed-simulator-impl.cc:315`. The
  second Run sets the granted time to the lookahead counted from time 0 (:228) while
  the clocks of the ranks differ, so a packet from a rank that is behind is queued
  before the clock of its receiver.
* null_messages: a chain of three ranks, so that a guarantee must pass through
  the middle rank; three calls, made by events that begin on the middle rank
  (`Sources`) and by the receptions they cause on the others; local delays 0 and
  1, and transmission times below, at and above a link's delay. One link per bundle, because of null_two_links.
  `SchedulerTune` is 1; every rank stops at the same time, as in `mpi/examples`.
* realtime: one inserting thread (`m_mutex` admits one at a time, so a second adds
  no new order between a thread and the main thread), three events, delays with
  ties and with waits below and above the spin limit; the clock stops at
  `MaxClock` except to finish a sleep.
* traffic_control: packets are not bounded, because the counters wrap at 16.
  Sizes below and above the MTU, a quota smaller than the disc, and limits
  smaller than the device queue, so that both reasons to stop occur alone and
  together.
* visualizer: `MaxUser` bounds what the user does (closing the window is always
  possible), four actions being enough to pause, change the speed and play again
  inside a nested view update; two messages; three timers at a time.
* test_runner: two workers, two suites and an example: a job waits while both
  workers are busy, and a worker may die while the other goes on.

### Fairness

Weak fairness of what the code does by itself: the main thread's loop
(`MainStep`), each rank's own steps, completion of a collective call every rank
has entered, and delivery of messages, which MPI guarantees. User calls are
never fair, an injecting thread neither: nothing relies on a program doing more.
That the function of an event returns is assumed (`EventReturn` is one of the
fair steps): an event that never returns stops any simulation. In NullMessage
`ReceiveMessage`, which polls for messages that may not have arrived, is not
fair, so a rank may see every message late; the blocking receive is.
In RealtimeSimulator the clock ticks, the main thread runs (functions of events
return) and a thread in its critical section leaves it; no thread has to insert
anything. In TrafficControl the simulator runs every event it holds however many
arrive, which is strong fairness of the wake callbacks and of the end of a
transmission, since both are disabled while a queue disc runs. In Visualizer both
threads run and the user is never fair; in TestRunner the main thread and the
workers run, and children end.

`CHECK_DEADLOCK FALSE` is used where a system may stop: the schedulers, whose
callers may, the ranks of NullMessage, which end in "done", a real-time
simulation that has returned or sits in a refused wait, a closed visualizer, and
a test run that is over or has lost a worker.

## Proofs

Checked by tlapm for every value of the constants that satisfies the modules'
assumptions. Every safety property the passing runs check is a theorem, the
refinement of `EventList` included. Hardly any invariant is inductive as it stands:
each module defines the one that is, named below, and proves the others from it.

* **DefaultSimulatorProofs.** `TypeCorrect` and `NothingLost`
  (`NoEventLostOrDoubled`) without further assumption. `ExpiredExact`, `KeyOrder`
  (`Spec => RunsInKeyOrder`), `CancelIsSafe` (`CancelledNeverInvoked`) and
  `CounterIsExact` (`UnscheduledCountsQueue`) assume `NoWrap`, fewer events than
  uids; without it (`UidModulus` 6 in the run) TLC finds a queued event that is
  called expired. `IInv` adds that the uids given out plus the events still in the
  side queue and the swapped list follow the number of calls (`UidsFollowCalls`),
  that everything queued comes after the current event and below `m_uid`
  (`QueueAfterCurrent`), and that a handle not in the queue is cancelled or not
  after the current event (`IdsAccounted`). An event moves between the two lists
  and the scheduler by one swap and one pop at a time, so that what each place
  holds stays distinct.
* **GrantedTimeWindowProofs.** `TypeCorrect` for any number of Runs; with
  `SingleRun`, `Causality` (`NoStraggler`), `EventsInOrder` (`NoEventInPast`),
  `GrantsAreKept` (`WindowsMoveForward`) and `FinishTogether`
  (`FinishedIsGlobal`), for any finite set of ranks and any links. The argument:
  no window opens while a message is in flight (`CountInv`, equal counts mean
  equal sets), so a message in flight was sent in the window that is still open
  and is due at least one link delay after its start (`MessageInv`), while the
  receiver's granted time is at most its lookahead after that start
  (`WindowInv`), and a lookahead is at most the delay of each of the rank's
  links. `PhaseInv` keeps the ranks in step, `LbtsInv` says that what a rank
  brought to the all-gather still holds of it. That a granted time does not wrap
  while the Run goes on follows from `Horizon`: some rank has an event before it.
  `SingleRun` is needed, as "Bounds" explains for the run window.
* **NullMessageProofs.** With `SingleLinks` (no two links join the same two ranks),
  `NoneTooLate` (`NoStraggler`), `PromisesKept` (`GuaranteesHold`) and
  `NullMessagesContinue` (`NullMessagesGoOn`), for any finite set of ranks, any
  topology, delays, transmission times and tuning; null_two_links shows that
  `SingleLinks` is needed. The heart of `NInv` is `Keeps`: the last guarantee a
  rank has given a neighbour, on its way or received, is kept in one of two ways.
  `Free`: everything the rank has queued, but for the next null message of that
  bundle, is no earlier than the guarantee less the delay, and so is the clock
  while an event runs. `Held`: the device is busy, and the event that ends that
  and the next null message are no earlier. A packet turns `Free` into `Held`: the
  completion is queued before the guarantee is computed and the device is busy
  until then. The end of a transmission, or a null message, turns it back. The
  guarantee a packet carries does not outrun the null message put off after it
  because a live null message event is due within a period (`NullsOK`), so the
  head of the queue is no later. `Chain` orders the messages on their way, and
  each rank's safe time is at most what it has received (`RankOK`).
* **RealtimeSimulatorProofs.** `NeverEarly` (`NotEarly`), `TimeOnlyForward`
  (`NothingInPast`) and `WakeupsArrive` (`NoLostWakeup`) from `RInv`, for any number
  of threads and events and any clock: only the main thread takes events out, so
  an event of the time it waits for is queued during the wait (`AwaitedIsQueued`);
  it takes one only when that time has come (`TakeIsDue`), although the head may be
  another by then, which is then not later; and it sleeps only for more than it
  would spin (`SleepsForward`), so that a sleep ends after it began.
* **TrafficControlProofs.** `WakesFollow` (`StoppedWillWake`), `DiscNotForgotten`
  (`NothingForgotten`), `RoomWhenAsked` (`RoomForPacket`), `CountersAgree`
  (`BytesAccounted`) and `LimitsBound` (`BacklogBounded`) from `TInv`, for all sizes,
  limits and quotas and any width of the counters that the largest limit and packet fit into.
  `Linked` relates the wrapped counters to the bytes queued; the lemmas on
  congruence modulo `Word` carry it through every sum, and `Within` bounds the
  queue so that a signed difference is the true one. `Bytes` is a recursive
  function: what it computes is proved by induction over sets of numbers
  (`SetInduction`, from the well-foundedness of `<`).
* **VisualizerProofs.** `MessagesArrive` (`NoMessageLost`), `OnePeriodAhead`
  (`SimStaysNearView`) and `TimerKept` (`PlayKeepsTimer`) from `VInv`, for any depth
  of nested handlers and any number of messages: `GrantInv` counts what the
  simulation has still to run into the lag, `TimerInv` states the timer inside
  nested handlers too, `MsgInv` adds that a view update has messages in hand only
  between taking and showing them.
* **TestRunnerProofs.** `NoJobLost` (`JobsAccounted`), `HonestSuccess`
  (`SuccessIsHonest`), `CompleteReport` (`ReportIsComplete`) and
  `ReportedSuccess` (`SuccessIsReported`) from `JInv`, for any number of
  jobs and workers: a worker has a job in hand from taking it to putting it back
  (`Holding`), a job that has left the workers carries the code of its own process
  (`Settled`), rounds and counts are the sizes of the sets of jobs collected and fine
  (`RoundsCount`, `FineCount`), so that equal numbers mean all jobs, and the entries
  are what became of the jobs collected (`EntriesWritten`, `EntriesTrue`).
* **EventQueueProofs.** `RepresentationIsInvariant` (`RepresentationHolds`) and
  `QueueImplementsEventList` (`ImplementsEventList`), for any set of events with
  different uids, any number of them queued, and `SetScheduler` at any time.
  `MaxRemoveAssumption` (`Remove` is called on a heap of at most five events) is what
  heap_remove shows to be needed; the lemmas about the heap use the weaker and
  exact `Fits`: the last element is not earlier than the parent of the place it
  goes to, which `SmallHeapFits` derives from the bound. The inductive invariant
  `IInv` is `Good` (the order of the data structure in use, with distinct elements),
  `Before` (the calendar's position is not beyond the time of the last event
  removed) and every event held comes after `last`.
    * Loops: `LoopExists` says that a recursive function over `0 .. N` exists and has
      its equations, and `Along` that what every round keeps holds at the end. Both
      are about sets and functions, so that no operator has to be instantiated:
      `NatSet` is induction over a set of numbers, from the well-foundedness of `<`.
    * Heap: while an element rises, the heap is in order but for that element and
      its parent, and its children are not earlier than its parent; while it sinks,
      but for the element and its children, which are not earlier than its parent
      (`RiseStep`, `SinkStep`). Every round that does not stop moves the index, so
      that `Len` rounds are enough (`BottomUpOrders`, `TopDownOrders`), and exchanges
      keep the set of elements.
    * Calendar: `Shape` (every bucket sorted in the order of `m_reverse`, every event
      in the bucket of its time stamp), `Position` (`m_lastBucket` and `m_bucketTop` are
      those of `m_lastPrio`, and no event is earlier) and `Counted`. `CalFound` is the
      heart: the first head below its top, or else the earliest head, is the
      earliest event of all. It rests on the arithmetic of slots: an event is below
      the k-th top exactly if its slot is not after the k-th slot of the year
      (`SlotOrder`), every bucket is visited (`BucketVisited`), and in the order of time.
      `CalPutBack` shows that taking samples and putting them back keeps the events
      and the position,
      `CalDoResize` that any number of buckets and any positive width hold the same
      events at the same position, and `WidthIsPositive` that `CalculateNewWidth`
      never yields a width of 0.
    * `MovedAll`: between two rounds of `SetScheduler` both schedulers are in order,
      what they hold is disjoint and together what the queue held, the old one has
      one event less with every round, and a new calendar still stands at time 0.

Only model-checked: liveness (`InjectedEventIsMoved`, `EveryRunReturns`, `StopEndsUnlessRefused`,
`RunReturns`, `WorkersEnd`, `PlayAdvances`, `QuitCompletes`, `DiscDrains`), which is out of the
prover's reach. `RootIsEarliest`, `NoStraggler` over two links of a bundle,
`StopEnds` and `NoDiscard` are the properties the code violates. `TypeOK` of `RealtimeSimulator` and of
`NullMessage` states the types for the reader; their proofs use the variant of it
that suits them (`Types`).

## Not modelled

CSMA, timers and ARP are planned below. TCP, the routing protocols and the
wireless models are protocols with far more data than a small instance holds;
the object model and packets are sequential library code.
`PriorityQueueScheduler` is a `std::priority_queue` with a linear `remove`, which
adds nothing to `EventList`. Nearly all the Python of the repository (some 780
thousand lines) is generated: `bindings/modulegen__gcc_*.py` of every module are
tables of calls that register C++ classes and methods, without state, order or
control, and there is nothing in them to model; of the Python that is written by
hand, `test.py` and the visualizer have the concurrency and are modelled.
Assertions are not modelled as steps; several are the properties. Time is a
natural number: the 64-bit overflow of time stamps is left out, except in the
granted times, where the code expects it.

Smaller things left out, each a limit of what the runs show:

* An event injected into the default engine after the last look at the side
  queue stays there when Run returns (`default-simulator-impl.cc:197`), and the next
  Run takes it; `InjectedEventIsMoved` is about events injected while one runs.
* Real-time engine: `Remove` from another thread, which signals nobody and tests
  `IsExpired` outside the mutex (`realtime-simulator-impl.cc:716`); a second Run,
  whose clock starts again at 0 because `DoSetOrigin` ignores its argument
  (`wall-clock-synchronizer.cc:122`); a system clock that is set back.
* Null messages: different stop times, a `SchedulerTune` that rounds to zero.
* Calendar: the wrap of `bucketTop` near 2^64.
* Traffic control: `DynamicQueueLimits::Reset`, which forgets `m_adjLimit` and is not
  called on queues in use; `Posdiff` from 2 GiB on; a `Quota` of 0, which wraps to no
  quota; a device queue smaller than the MTU, which would never wake;
  multi-queue devices; packet sockets, which do not pass through the layer; a device
  whose link is down, which drops what it is sent
  (`point-to-point-net-device.cc:520-524`); the wrap of the sums that make a new byte
  limit, which `DQL_MAX_LIMIT` keeps out of reach.
* Visualizer: drawing, the samples of `pyviz.cc` (a second run for the same target
  clears them before they are drawn), `autoscale_view`, which reads positions
  without the lock; handlers that a nested event loop still runs after `_quit` has
  returned. Two timers may live at once when a nested handler starts one
  and the view update it is nested in then forgets it (`core.py:1454`); the model
  has these states, and no property forbids them.
* Windows: a rank without links, which takes its lookahead from the
  `MPI_Allreduce`, is covered by the theorems and not by the run.

## Plan

Done: the default engine, the schedulers and their composition, the parallel
engines, the real-time engine, traffic control over a point-to-point device, the
visualizer, the test runner, the proofs above. Next, in this order:

1. CSMA's transmit machine and backoff on a shared channel.
2. `ArpCache` and timers: pending packets under replies, timeouts and flushes.

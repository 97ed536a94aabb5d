---------------------------- MODULE TrafficControl ----------------------------
(***************************************************************************)
(* The sending side of a point-to-point device: the traffic control layer  *)
(* with a FIFO queue disc at the root or none, the flow control of the     *)
(* device queue, byte queue limits, and the device itself.                 *)
(*                                                                         *)
(*   src/src/traffic-control/model/traffic-control-layer.cc                *)
(*   src/src/traffic-control/model/queue-disc.cc, fifo-queue-disc.cc       *)
(*   src/src/network/utils/net-device-queue-interface.{h,cc}               *)
(*   src/src/network/utils/dynamic-queue-limits.cc, queue.{h,cc}           *)
(*   src/src/point-to-point/model/point-to-point-net-device.cc             *)
(*                                                                         *)
(* A packet is its size on the link, chosen when it leaves the queue disc, *)
(* which does not look at it. Run is called inside an event, so no other   *)
(* event comes between its steps; a step is one round of its loop. The     *)
(* byte counters are unsigned and wrap at Word, as in the code (2^32), so  *)
(* that nothing bounds the number of packets.                              *)
(***************************************************************************)
EXTENDS Integers, Sequences

CONSTANTS
  Sizes,        \* sizes of packets, with the header of the link
  Mtu,          \* what the device assumes the next packet may need
  DiscPackets,  \* MaxSize of the queue disc
  DevPackets,   \* MaxSize of the device queue, when in packets
  DevBytes,     \* MaxSize of the device queue, when in bytes
  m_quota,      \* packets sent by one Run
  MinLimit, MaxLimit,
  Word          \* counters are modulo Word

ASSUME TrafficControlAssumption ==
  /\ Sizes \subseteq Nat \ {0}
  /\ DiscPackets \in Nat \ {0} /\ DevPackets \in Nat \ {0} /\ m_quota \in Nat \ {0}
  /\ DevBytes \in Nat /\ Mtu \in 0..DevBytes /\ Sizes \subseteq 0..DevBytes
  /\ MinLimit \in Nat /\ MaxLimit \in Nat
  /\ Word \in Nat \ {0} /\ \A n \in Sizes : MaxLimit + n < Word \div 2   \* DQL_MAX_LIMIT

VARIABLES
  unit,         \* of the device queue's MaxSize: "packets" or "bytes"
  root,         \* there is a root queue disc
  limited,      \* the device queue has a DynamicQueueLimits object
  disc,         \* number of packets in the queue disc
  m_running, quota,
  spent,        \* the last Run ended because its quota was used
  dev           \* the device, its queue and their flow control

vars   == <<unit, root, limited, disc, m_running, quota, spent, dev>>
config == <<unit, root, limited>>

Init ==
  /\ unit \in {"packets", "bytes"} /\ root \in BOOLEAN /\ limited \in BOOLEAN
  /\ disc = 0 /\ m_running = FALSE /\ quota = 0 /\ spent = FALSE
  /\ dev = [queue |-> <<>>, busy |-> FALSE,
            byDevice |-> FALSE, byLimits |-> FALSE,
            wakes |-> 0,          \* wake callbacks scheduled
            discarded |-> {},     \* sizes of packets there was no room for
            ql |-> [limit |-> 0, numQueued |-> 0, numCompleted |-> 0, adjLimit |-> 0,
                    lastObjCnt |-> 0, prevNumQueued |-> 0, prevLastObjCnt |-> 0,
                    prevOvlimit |-> 0, lowestSlack |-> Word - 1]]

-----------------------------------------------------------------------------
(* DynamicQueueLimits. Operators that depend on the time give the set of    *)
(* their possible results: whether the hold time has expired is left open.  *)
(* The sums below stay under 2^32 for limits within DQL_MAX_LIMIT, so that  *)
(* a limit that is wanted is not wrapped.                                   *)
Unsigned(x) == x % Word
Signed(x)   == IF Unsigned(x) < Word \div 2 THEN Unsigned(x) ELSE Unsigned(x) - Word
Larger(a, b)  == IF a > b THEN a ELSE b
Smaller(a, b) == IF a < b THEN a ELSE b
Posdiff(a, b) == Larger(Signed(a - b), 0)

(* Defect: the sign of the difference is lost. *)
AvailableMutant(ql) == Unsigned(ql.adjLimit - ql.numQueued)

Available(ql) == Signed(ql.adjLimit - ql.numQueued)

Queued(ql, count) ==
  [ql EXCEPT !.lastObjCnt = count, !.numQueued = Unsigned(@ + count)]

(* Defect: the bytes completed now are not counted. *)
CompletedMutant(ql, count) == {[ql EXCEPT !.adjLimit = Unsigned(ql.limit + ql.numCompleted)]}

Recalculated(ql, count, expired) ==
  LET completed        == Unsigned(ql.numCompleted + count)
      ovlimit          == Posdiff(Unsigned(ql.numQueued - ql.numCompleted), ql.limit)
      inprogress       == Unsigned(ql.numQueued - completed)
      prevInprogress   == Unsigned(ql.prevNumQueued - ql.numCompleted)
      allPrevCompleted == Signed(completed - ql.prevNumQueued) >= 0
      starved  == (ovlimit > 0 /\ inprogress = 0) \/ (ql.prevOvlimit > 0 /\ allPrevCompleted)
      busy     == ~starved /\ inprogress > 0 /\ prevInprogress > 0 /\ ~allPrevCompleted
      slack    == Larger(Posdiff(ql.limit + ql.prevOvlimit, 2 * count),
                         IF ql.prevOvlimit > 0 THEN Posdiff(ql.prevLastObjCnt, ql.prevOvlimit) ELSE 0)
      lowest   == Smaller(slack, ql.lowestSlack)
      wanted   == CASE starved -> ql.limit + Posdiff(completed, ql.prevNumQueued) + ql.prevOvlimit
                    [] busy /\ expired -> Posdiff(ql.limit, lowest)
                    [] OTHER -> ql.limit
      limit    == Smaller(Larger(wanted, MinLimit), MaxLimit)
  IN  [ql EXCEPT !.limit = limit,
                 !.lowestSlack = CASE starved \/ (busy /\ expired) -> Word - 1
                                   [] busy /\ ~expired -> lowest
                                   [] OTHER -> @,
                 !.adjLimit = Unsigned(limit + completed),
                 !.prevOvlimit = IF limit = ql.limit THEN ovlimit ELSE 0,
                 !.prevLastObjCnt = ql.lastObjCnt,
                 !.numCompleted = completed,
                 !.prevNumQueued = ql.numQueued]

Completed(ql, count) == {Recalculated(ql, count, expired) : expired \in BOOLEAN}

-----------------------------------------------------------------------------
(* NetDeviceQueue.                                                          *)
IsStopped(d) == d.byDevice \/ d.byLimits

(* the wake callback is set only if there is a queue disc *)
ScheduleWake(d, wasStopped) == [d EXCEPT !.wakes = @ + IF wasStopped /\ root THEN 1 ELSE 0]

Wake(d) == ScheduleWake([d EXCEPT !.byDevice = FALSE], d.byDevice)

NotifyQueuedBytes(d, bytes) ==
  IF ~limited THEN d
  ELSE LET ql == Queued(d.ql, bytes)
       IN  [d EXCEPT !.ql = ql, !.byLimits = @ \/ Available(ql) < 0]

(* Defect: the wake callback is not called. *)
NotifyTransmittedBytesMutant(d, bytes) ==
  IF ~limited THEN {d}
  ELSE {[d EXCEPT !.ql = ql, !.byLimits = @ /\ Available(ql) < 0] : ql \in Completed(d.ql, bytes)}

(* Defect: nothing available counts as over the limit. *)
NotifyTransmittedBytesStrict(d, bytes) ==
  IF ~limited THEN {d}
  ELSE {IF Available(ql) <= 0 THEN [d EXCEPT !.ql = ql]
        ELSE ScheduleWake([d EXCEPT !.ql = ql, !.byLimits = FALSE], d.byLimits) :
          ql \in Completed(d.ql, bytes)}

NotifyTransmittedBytes(d, bytes) ==
  IF ~limited THEN {d}
  ELSE {IF Available(ql) < 0 THEN [d EXCEPT !.ql = ql]
        ELSE ScheduleWake([d EXCEPT !.ql = ql, !.byLimits = FALSE], d.byLimits) :
          ql \in Completed(d.ql, bytes)}

-----------------------------------------------------------------------------
(* The device queue, with the traces that NetDeviceQueue is connected to.   *)
Bytes(q) ==
  LET sum[i \in 0..Len(q)] == IF i = 0 THEN 0 ELSE sum[i - 1] + q[i]
  IN  sum[Len(q)]

Fits(q, nBytes) ==
  IF unit = "packets" THEN Len(q) + 1 <= DevPackets ELSE Bytes(q) + nBytes <= DevBytes

WouldOverflow(q) == ~Fits(q, Mtu)

(* Defect: the room is looked at before the packet is counted. *)
PacketEnqueuedMutant(d, n) ==
  LET e == NotifyQueuedBytes(d, n)
  IN  [e EXCEPT !.byDevice = @ \/ WouldOverflow(Tail(e.queue))]

PacketEnqueued(d, n) ==
  LET e == NotifyQueuedBytes(d, n)
  IN  [e EXCEPT !.byDevice = @ \/ WouldOverflow(e.queue)]

PacketDequeued(d, n) ==
  {IF WouldOverflow(e.queue) THEN e ELSE Wake(e) : e \in NotifyTransmittedBytes(d, n)}

PacketDiscarded(d, n) == [d EXCEPT !.byDevice = TRUE, !.discarded = @ \cup {n}]

(* Dequeue and TransmitStart *)
TransmitNext(d) ==
  PacketDequeued([d EXCEPT !.queue = Tail(@), !.busy = TRUE], Head(d.queue))

(* a device that is attached, its link up *)
DeviceSend(d, n) ==
  IF ~Fits(d.queue, n) THEN {PacketDiscarded(d, n)}
  ELSE UNION {IF e.busy THEN {e} ELSE TransmitNext(e) :
                e \in {PacketEnqueued([d EXCEPT !.queue = Append(@, n)], n)}}

-----------------------------------------------------------------------------
(* Events of the simulator.                                                 *)

(* RunBegin; m_running is false between events *)
BeginRun == m_running' = TRUE /\ quota' = m_quota

(* TrafficControlLayer::Send; a full queue disc drops the packet *)
Send ==
  /\ ~m_running /\ root
  /\ disc' = IF disc < DiscPackets THEN disc + 1 ELSE disc
  /\ BeginRun
  /\ UNCHANGED <<config, spent, dev>>

SendWithoutDisc(n) ==
  /\ ~m_running /\ ~root
  /\ ~IsStopped(dev)
  /\ dev' \in DeviceSend(dev, n)
  /\ UNCHANGED <<config, disc, m_running, quota, spent>>

WakeCallback ==
  /\ ~m_running /\ dev.wakes > 0
  /\ dev' = [dev EXCEPT !.wakes = @ - 1]
  /\ BeginRun
  /\ UNCHANGED <<config, disc, spent>>

(* scheduled after the wake callbacks and not earlier, so it comes after them *)
TransmitComplete ==
  /\ ~m_running /\ dev.busy /\ dev.wakes = 0
  /\ dev' \in IF dev.queue = <<>> THEN {[dev EXCEPT !.busy = FALSE]} ELSE TransmitNext(dev)
  /\ UNCHANGED <<config, disc, m_running, quota, spent>>

-----------------------------------------------------------------------------
(* The loop of Run. With one device queue Transmit never requeues: nothing  *)
(* happens between its test of the queue and the one in DequeuePacket.      *)

(* DequeuePacket returns nothing *)
RunEnd ==
  /\ m_running
  /\ disc = 0 \/ IsStopped(dev)
  /\ m_running' = FALSE /\ quota' = 0 /\ spent' = FALSE
  /\ UNCHANGED <<config, disc, dev>>

Restart(n) ==
  /\ m_running
  /\ disc > 0 /\ ~IsStopped(dev)
  /\ disc' = disc - 1
  /\ dev' \in DeviceSend(dev, n)
  /\ IF disc' = 0 \/ IsStopped(dev')
       THEN quota' = 0 /\ m_running' = FALSE /\ spent' = FALSE
       ELSE /\ quota' = quota - 1
            /\ m_running' = (quota' > 0)
            /\ spent' = (quota' = 0)
  /\ UNCHANGED config

-----------------------------------------------------------------------------
Arrival == Send \/ \E n \in Sizes : SendWithoutDisc(n)
Loop    == RunEnd \/ \E n \in Sizes : Restart(n)

Next == Arrival \/ Loop \/ WakeCallback \/ TransmitComplete

Spec == Init /\ [][Next]_vars

(* The simulator runs every event it holds, however many arrive.            *)
FairSpec == Spec /\ WF_vars(Loop) /\ SF_vars(WakeCallback) /\ SF_vars(TransmitComplete)

-----------------------------------------------------------------------------
(* A stopped queue will be woken: whichever of the device and the limits    *)
(* stopped it, a packet is waiting in it behind one that is being sent.     *)
StoppedWillWake == IsStopped(dev) => dev.queue # <<>> /\ dev.busy

(* Packets in the queue disc are not forgotten: between events the device   *)
(* is stopped, or a wake callback is scheduled, unless the last Run ended   *)
(* with its quota, after which nothing runs the queue disc but an arrival.  *)
NothingForgotten ==
  ~m_running /\ disc > 0 /\ ~IsStopped(dev) => dev.wakes > 0 \/ spent

(* "This should not happen if the device correctly stops the queue": the    *)
(* device never discards a packet it was asked to send for lack of room     *)
(* (PacketDiscarded logs a bug). It does: PacketEnqueued leaves room for an *)
(* MTU of payload, and the header of the link comes on top of it.           *)
NoDiscard == dev.discarded = {}

(* What is left of it, with both reasons to stop, all changes of the limits *)
(* and packets of any size: only the header makes the device run out of     *)
(* room. A queue measured in packets discards nothing, one measured in      *)
(* bytes no packet that fits the MTU together with its header.              *)
RoomForPacket == \A n \in dev.discarded : unit = "bytes" /\ n > Mtu

(* The counters of the limits agree with the device queue, also after they  *)
(* have wrapped: the assertion in Completed.                                *)
BytesAccounted == limited => Unsigned(dev.ql.numQueued - dev.ql.numCompleted) = Bytes(dev.queue)

(* The limits bound the bytes in the device queue by the largest limit and  *)
(* one packet.                                                              *)
BacklogBounded ==
  limited /\ dev.queue # <<>> => Bytes(dev.queue) - dev.queue[Len(dev.queue)] <= MaxLimit

(* A queue disc that holds packets goes on sending them.                    *)
DiscDrains == <>[](disc > 0 /\ ~spent) => []<><<disc' < disc>>_vars
=============================================================================

-------------------------- MODULE EventBusPreempt --------------------------
(***************************************************************************)
(* The event bus on the ESP32-C6.  os_event_publish takes no lock and      *)
(* masks no interrupt, and its callers run in different contexts: the      *)
(* Zigbee task (drivers/zigbee/zb_real.c) has a higher priority than the   *)
(* tasks that carry the fibres, and preempts them between any two memory   *)
(* accesses.  Here the low-priority context runs publish and the end of    *)
(* the dispatch loop one volatile access at a time; the high-priority      *)
(* context publishes in a single step whenever it wants, as an interrupt   *)
(* handler or the Zigbee task does on this single-core chip.               *)
(* Subscribers are left out: only the ring is of interest.                 *)
(***************************************************************************)
EXTENDS Naturals

CONSTANTS
  QueueSize,    \* OS_EVENT_QUEUE_SIZE
  Event,        \* the events published
  None,         \* what a slot holds before it is first written
  MaxAccepted   \* bound on the number of publishes that return OS_OK

Indices == 0 .. QueueSize - 1

VARIABLES
  queue, head, tail, count,
  accepted,    \* history: publishes that returned OS_OK
  taken,       \* history: events the dispatcher has finished with
  pc,          \* where the low-priority context is
  event,       \* the event it is publishing
  reg          \* the value it has loaded and is about to store

vars == <<queue, head, tail, count, accepted, taken, pc, event, reg>>

Init ==
  /\ queue = [i \in Indices |-> None]
  /\ head = 0 /\ tail = 0 /\ count = 0
  /\ accepted = 0 /\ taken = 0
  /\ pc = "idle" /\ event = None /\ reg = 0

Goto(from, to) == pc = from /\ pc' = to

(* os_event_publish in the low-priority context. *)
LowCheck(e) ==
  /\ Goto("idle", "copy")
  /\ accepted < MaxAccepted
  /\ count < QueueSize
  /\ event' = e
  /\ UNCHANGED <<queue, head, tail, count, accepted, taken, reg>>

LowCopy ==
  /\ Goto("copy", "loadTail")
  /\ queue' = [queue EXCEPT ![tail] = event]
  /\ UNCHANGED <<head, tail, count, accepted, taken, event, reg>>

LowLoadTail ==
  /\ Goto("loadTail", "storeTail")
  /\ reg' = tail
  /\ UNCHANGED <<queue, head, tail, count, accepted, taken, event>>

LowStoreTail ==
  /\ Goto("storeTail", "loadCount")
  /\ tail' = (reg + 1) % QueueSize
  /\ UNCHANGED <<queue, head, count, accepted, taken, event, reg>>

LowLoadCount ==
  /\ Goto("loadCount", "storeCount")
  /\ reg' = count
  /\ UNCHANGED <<queue, head, tail, count, accepted, taken, event>>

LowStoreCount ==
  /\ Goto("storeCount", "idle")
  /\ count' = reg + 1
  /\ accepted' = accepted + 1
  /\ event' = None /\ reg' = 0
  /\ UNCHANGED <<queue, head, tail, taken>>

(* os_event_dispatch, after the handlers of the head event. *)
DispatchHead ==
  /\ Goto("idle", "loadLess")
  /\ count > 0
  /\ head' = (head + 1) % QueueSize
  /\ UNCHANGED <<queue, tail, count, accepted, taken, event, reg>>

DispatchLoadCount ==
  /\ Goto("loadLess", "storeLess")
  /\ reg' = count
  /\ UNCHANGED <<queue, head, tail, count, accepted, taken, event>>

DispatchStoreCount ==
  /\ Goto("storeLess", "idle")
  /\ count' = reg - 1
  /\ taken' = taken + 1
  /\ reg' = 0
  /\ UNCHANGED <<queue, head, tail, accepted, event>>

(* os_event_publish in the context that preempts. *)
HighPublish(e) ==
  /\ accepted < MaxAccepted
  /\ count < QueueSize
  /\ queue' = [queue EXCEPT ![tail] = e]
  /\ tail' = (tail + 1) % QueueSize
  /\ count' = count + 1
  /\ accepted' = accepted + 1
  /\ UNCHANGED <<head, taken, pc, event, reg>>

Next ==
  \/ \E e \in Event : LowCheck(e) \/ HighPublish(e)
  \/ LowCopy \/ LowLoadTail \/ LowStoreTail \/ LowLoadCount \/ LowStoreCount
  \/ DispatchHead \/ DispatchLoadCount \/ DispatchStoreCount

Spec == Init /\ [][Next]_vars

(* What "Safe to call from ISR context" promises (os/include/os_event.h):  *)
(* whenever the low-priority context is between calls, each publish that   *)
(* returned OS_OK has been dispatched or is still counted in the queue.    *)
NoneLost == pc = "idle" => accepted = taken + count

=============================================================================

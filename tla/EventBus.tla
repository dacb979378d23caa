------------------------------ MODULE EventBus ------------------------------
(***************************************************************************)
(* The event bus of the operating system layer (os/src/os_event.c) as the  *)
(* cooperative build runs it: fibres switch only at os_fibre_yield and     *)
(* os_sleep, which neither the bus nor its handlers call, so publish,      *)
(* subscribe and unsubscribe are atomic.  What does interleave is the      *)
(* dispatch loop and the handlers it calls: a handler may publish,         *)
(* subscribe and unsubscribe while the loop that called it is in the       *)
(* middle of the subscriber table and still points into the ring.          *)
(*                                                                         *)
(* An event is reduced to its type, which is all the bus looks at.         *)
(***************************************************************************)
EXTENDS Naturals, FiniteSets

CONSTANTS
  QueueSize,   \* OS_EVENT_QUEUE_SIZE
  MaxSubs,     \* OS_MAX_SUBSCRIBERS
  MaxType,     \* OS_EVENT_TYPE_MAX
  Handlers,    \* the handler functions that modules register
  Filters,     \* the filters they register with: [lo, hi] records
  StatMod      \* the statistics are unsigned and wrap at this value (2^32)

EventTypes == 0 .. MaxType
Indices    == 0 .. QueueSize - 1
SubSlots   == 0 .. MaxSubs - 1

ASSUME QueueSizeAssumption == QueueSize \in Nat \ {0}
ASSUME MaxSubsAssumption   == MaxSubs \in Nat \ {0}
ASSUME MaxTypeAssumption   == MaxType \in Nat
ASSUME StatModAssumption   == StatMod \in Nat /\ StatMod > QueueSize
ASSUME FiltersAssumption   == Filters \subseteq [lo : EventTypes, hi : EventTypes]

(* A subscriber entry is free or holds a filter and a handler. *)
Free         == [active |-> FALSE]
Subscription == [active : {TRUE}, filter : Filters, handler : Handlers]

VARIABLES
  queue,       \* the ring: [Indices -> EventTypes]; what lies outside the
               \* count entries from head on is left over from earlier events
  head, tail, count,
  subs,        \* the subscriber table
  published, dispatched, dropped,   \* os_event_stats_t
  busy,        \* os_event_dispatch is on the stack
  left,        \* to_dispatch - dispatched of that call
  cursor,      \* its loop index into the subscriber table
  calling,     \* the handler of entry `cursor` is running
  steady,      \* history: entries subscribed since the head event's turn began
  called       \* history: entries called in the head event's turn

ringVars     == <<queue, head, tail, count>>
statVars     == <<published, dispatched, dropped>>
dispatchVars == <<busy, left, cursor, calling>>
vars         == <<ringVars, subs, statVars, dispatchVars, steady, called>>

Active == {s \in SubSlots : subs[s].active}

Matches(f, t) == f.lo <= t /\ t <= f.hi

Smaller(a, b) == IF a < b THEN a ELSE b

Init ==
  /\ queue = [i \in Indices |-> 0]
  /\ head = 0 /\ tail = 0 /\ count = 0
  /\ subs = [s \in SubSlots |-> Free]
  /\ published = 0 /\ dispatched = 0 /\ dropped = 0
  /\ busy = FALSE /\ left = 0 /\ cursor = 0 /\ calling = FALSE
  /\ steady = {} /\ called = {}

-----------------------------------------------------------------------------
(* os_event_publish, from a fibre when no dispatch is on the stack, or     *)
(* from the handler that the dispatcher is calling.                        *)

InUserCode == busy => calling

(* Variants with a fault, for the mutation runs: the index is not wrapped;  *)
(* the full test is missing; a refused event is counted as published; a    *)
(* full ring makes room by moving head alone, or by dropping the oldest.   *)
PublishNoWrap(t) ==
  /\ InUserCode
  /\ count < QueueSize
  /\ queue' = [queue EXCEPT ![tail] = t]
  /\ tail' = tail + 1
  /\ count' = count + 1
  /\ published' = (published + 1) % StatMod
  /\ UNCHANGED <<head, subs, dispatched, dropped, dispatchVars, steady, called>>

PublishUnchecked(t) ==
  /\ InUserCode
  /\ queue' = [queue EXCEPT ![tail] = t]
  /\ tail' = (tail + 1) % QueueSize
  /\ count' = Smaller(count + 1, QueueSize)
  /\ published' = (published + 1) % StatMod
  /\ UNCHANGED <<head, subs, dispatched, dropped, dispatchVars, steady, called>>

CountRefused(t) ==
  /\ InUserCode
  /\ count >= QueueSize
  /\ dropped' = (dropped + 1) % StatMod
  /\ published' = (published + 1) % StatMod
  /\ UNCHANGED <<ringVars, subs, dispatched, dispatchVars, steady, called>>

DropOldest(t) ==
  /\ InUserCode
  /\ count >= QueueSize
  /\ queue' = [queue EXCEPT ![tail] = t]
  /\ head' = (head + 1) % QueueSize
  /\ tail' = (tail + 1) % QueueSize
  /\ dropped' = (dropped + 1) % StatMod
  /\ UNCHANGED <<count, subs, published, dispatched, dispatchVars, steady, called>>

Publish(t) ==
  /\ InUserCode
  /\ count < QueueSize
  /\ queue' = [queue EXCEPT ![tail] = t]
  /\ tail' = (tail + 1) % QueueSize
  /\ count' = count + 1
  /\ published' = (published + 1) % StatMod
  /\ UNCHANGED <<head, subs, dispatched, dropped, dispatchVars, steady, called>>

PublishFull(t) ==
  /\ InUserCode
  /\ count >= QueueSize
  /\ dropped' = (dropped + 1) % StatMod
  /\ UNCHANGED <<ringVars, subs, published, dispatched, dispatchVars, steady, called>>

(* os_event_subscribe takes the first free entry; a full table changes     *)
(* nothing.                                                                *)
Subscribe(f, h) ==
  /\ InUserCode
  /\ \E s \in SubSlots \ Active :
       /\ \A r \in SubSlots \ Active : s <= r
       /\ subs' = [subs EXCEPT ![s] = [active |-> TRUE, filter |-> f, handler |-> h]]
  /\ UNCHANGED <<ringVars, statVars, dispatchVars, steady, called>>

(* os_event_unsubscribe frees the first entry of that handler, whatever    *)
(* its filter.                                                             *)
Holding(h) == {s \in Active : subs[s].handler = h}

Unsubscribe(h) ==
  /\ InUserCode
  /\ \E s \in Holding(h) :
       /\ \A r \in Holding(h) : s <= r
       /\ subs' = [subs EXCEPT ![s] = Free]
       /\ steady' = steady \ {s}
  /\ UNCHANGED <<ringVars, statVars, dispatchVars, called>>

-----------------------------------------------------------------------------
(* os_event_dispatch(max), one step per thing the loop does.               *)

DispatchBegin(max) ==
  /\ ~busy
  /\ count > 0
  /\ busy' = TRUE
  /\ left' = IF max = 0 THEN count ELSE Smaller(max, count)
  /\ cursor' = 0
  /\ calling' = FALSE
  /\ steady' = Active
  /\ called' = {}
  /\ UNCHANGED <<ringVars, subs, statVars>>

(* Both conditions are read from the live table when the loop gets there.  *)
Wanted(s) == subs[s].active /\ Matches(subs[s].filter, queue[head])

CallHandler ==
  /\ busy /\ ~calling /\ cursor < MaxSubs
  /\ Wanted(cursor)
  /\ calling' = TRUE
  /\ called' = called \union {cursor}
  /\ UNCHANGED <<ringVars, subs, statVars, busy, left, cursor, steady>>

HandlerReturn ==
  /\ calling
  /\ calling' = FALSE
  /\ cursor' = cursor + 1
  /\ UNCHANGED <<ringVars, subs, statVars, busy, left, steady, called>>

(* Faulty variant: the first entry that is not wanted ends the scan.       *)
StopAtEntry ==
  /\ busy /\ ~calling /\ cursor < MaxSubs
  /\ ~Wanted(cursor)
  /\ cursor' = MaxSubs
  /\ UNCHANGED <<ringVars, subs, statVars, busy, left, calling, steady, called>>

SkipEntry ==
  /\ busy /\ ~calling /\ cursor < MaxSubs
  /\ ~Wanted(cursor)
  /\ cursor' = cursor + 1
  /\ UNCHANGED <<ringVars, subs, statVars, busy, left, calling, steady, called>>

(* Faulty variant: the loop runs until the queue is empty.                 *)
AdvanceUntilEmpty ==
  /\ busy /\ ~calling /\ cursor = MaxSubs
  /\ head' = (head + 1) % QueueSize
  /\ count' = count - 1
  /\ dispatched' = (dispatched + 1) % StatMod
  /\ busy' = (count' > 0)
  /\ cursor' = 0
  /\ steady' = Active
  /\ called' = {}
  /\ UNCHANGED <<queue, tail, subs, published, dropped, left, calling>>

Advance ==
  /\ busy /\ ~calling /\ cursor = MaxSubs
  /\ head' = (head + 1) % QueueSize
  /\ count' = count - 1
  /\ dispatched' = (dispatched + 1) % StatMod
  /\ left' = left - 1
  /\ busy' = (left' > 0 /\ count' > 0)
  /\ cursor' = 0
  /\ steady' = Active
  /\ called' = {}
  /\ UNCHANGED <<queue, tail, subs, published, dropped, calling>>

-----------------------------------------------------------------------------
DispatchStep == CallHandler \/ HandlerReturn \/ SkipEntry \/ Advance

Next ==
  \/ \E t \in EventTypes : Publish(t) \/ PublishFull(t)
  \/ \E f \in Filters, h \in Handlers : Subscribe(f, h)
  \/ \E h \in Handlers : Unsubscribe(h)
  \/ \E max \in 0 .. QueueSize : DispatchBegin(max)
  \/ DispatchStep

(* The dispatch fibre calls os_event_dispatch over and over, and a handler *)
(* returns.                                                                *)
Fairness ==
  /\ WF_vars(\E max \in 0 .. QueueSize : DispatchBegin(max))
  /\ WF_vars(DispatchStep)

Safety == Init /\ [][Next]_vars
Spec   == Safety /\ Fairness

-----------------------------------------------------------------------------
(* Types of the state. *)
TypeOK ==
  /\ queue \in [Indices -> EventTypes]
  /\ head \in Indices /\ tail \in Indices /\ count \in 0 .. QueueSize
  /\ subs \in [SubSlots -> {Free} \union Subscription]
  /\ published \in 0 .. StatMod - 1
  /\ dispatched \in 0 .. StatMod - 1
  /\ dropped \in 0 .. StatMod - 1
  /\ busy \in BOOLEAN /\ left \in 0 .. QueueSize
  /\ cursor \in 0 .. MaxSubs /\ calling \in BOOLEAN
  /\ steady \subseteq SubSlots /\ called \subseteq SubSlots

(* The ring's three fields, which publish and dispatch update separately   *)
(* and without looking at each other's, always describe the same segment.  *)
RingConsistent == tail = (head + count) % QueueSize

(* Nothing accepted is lost or dispatched twice, across wrap-around of the *)
(* counters: what was published is what was dispatched plus what waits.    *)
Accounting == published = (dispatched + count) % StatMod

(* The loop is inside an event only while one is queued: the snapshot of   *)
(* the count that bounds the loop never exceeds what is really there, even *)
(* though handlers change the count, so its second exit test is never what *)
(* ends it, and count-- never wraps below zero.                            *)
DispatchBounded ==
  /\ busy => 0 < left /\ left <= count
  /\ calling => busy /\ cursor < MaxSubs

(* In each event's turn, the entries that were subscribed throughout and   *)
(* match it are called, in spite of what handlers do to the table, and no  *)
(* steady entry that does not match is.                                    *)
Passed == {s \in SubSlots : s < cursor \/ (calling /\ s = cursor)}

DeliveryExact ==
  busy => called \intersect steady = {s \in Passed \intersect steady : Wanted(s)}

(* The event that handlers were given a pointer to is not overwritten      *)
(* while the dispatcher is on the stack.                                   *)
InFlightStable ==
  [][busy /\ head' = head => queue'[head] = queue[head]]_vars

(* A call of os_event_dispatch ends, even if every handler publishes.      *)
DispatchReturns == busy ~> ~busy

(* The bus implements the first-in first-out queue: the live segment of    *)
(* the ring, read from head, is the abstract queue.                        *)
Segment == [i \in 1 .. count |-> queue[(head + i - 1) % QueueSize]]

Fifo == INSTANCE EventQueue WITH Event <- EventTypes, Capacity <- QueueSize,
                                 q <- Segment
ImplementsQueue == Fifo!Spec

=============================================================================

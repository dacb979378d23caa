--------------------------- MODULE EventBusProofs ---------------------------
(***************************************************************************)
(* Proofs about EventBus for every queue size, table size, event type      *)
(* range, set of handlers and set of filters.                              *)
(***************************************************************************)
EXTENDS EventBus, SequenceTheorems, TLAPS

-----------------------------------------------------------------------------
(* Arithmetic of an index that wraps at n. *)

(* Moving the start of a segment of length n or less past its first element *)
(* and shortening it by one leaves its end where it was.                    *)
LEMMA WrapStart ==
  ASSUME NEW n \in Nat \ {0}, NEW a \in 0 .. n - 1, NEW c \in 1 .. n
  PROVE  (((a + 1) % n) + (c - 1)) % n = (a + c) % n
<1>1. CASE a + 1 < n
  <2>1. (a + 1) % n = a + 1
    BY <1>1, SMT
  <2> QED BY <2>1, SMT
<1>2. CASE a + 1 = n
  <2>1. (a + 1) % n = 0
    BY <1>2, SMT
  <2>2. a + c = n + (c - 1) /\ c - 1 \in 0 .. n - 1
    BY <1>2, SMT
  <2>3. (n + (c - 1)) % n = c - 1 /\ (c - 1) % n = c - 1
    BY <2>2, SMT
  <2> QED BY <2>1, <2>2, <2>3, SMT
<1> QED BY <1>1, <1>2, SMT

(* Lengthening it by one moves its end to the next index. *)
LEMMA WrapEnd ==
  ASSUME NEW n \in Nat \ {0}, NEW a \in 0 .. n - 1, NEW c \in 0 .. n - 1
  PROVE  (((a + c) % n) + 1) % n = (a + (c + 1)) % n
<1>1. CASE a + c < n
  <2>1. (a + c) % n = a + c
    BY <1>1, SMT
  <2> QED BY <2>1, SMT
<1>2. CASE n <= a + c
  <2>1. (a + c) % n = a + c - n /\ a + c - n \in 0 .. n - 2
    BY <1>2, SMT
  <2>2. (a + (c + 1)) % n = a + c + 1 - n
    BY <1>2, SMT
  <2>3. (a + c - n + 1) % n = a + c - n + 1
    BY <2>1, SMT
  <2> QED BY <2>1, <2>2, <2>3, SMT
<1> QED BY <1>1, <1>2, SMT

(* A segment that is neither empty nor full does not end where it starts. *)
LEMMA WrapApart ==
  ASSUME NEW n \in Nat \ {0}, NEW a \in 0 .. n - 1, NEW c \in 1 .. n - 1
  PROVE  (a + c) % n # a
<1>1. CASE a + c < n
  BY <1>1, SMT
<1>2. CASE n <= a + c
  <2>1. (a + c) % n = a + c - n
    BY <1>2, SMT
  <2> QED BY <2>1, SMT
<1> QED BY <1>1, <1>2, SMT

(* Two places of a segment no longer than n are different indices. *)
LEMMA IndicesApart ==
  ASSUME NEW n \in Nat \ {0}, NEW a \in 0 .. n - 1, NEW c \in 1 .. n - 1,
         NEW i \in 1 .. c
  PROVE  (a + i - 1) % n # (a + c) % n
<1>1. CASE a + c < n
  BY <1>1, SMT
<1>2. CASE n <= a + c
  <2>1. (a + c) % n = a + c - n
    BY <1>2, SMT
  <2>2. CASE a + i - 1 < n
    BY <2>1, <2>2, SMT
  <2>3. CASE n <= a + i - 1
    <3>1. (a + i - 1) % n = a + i - 1 - n
      BY <1>2, <2>3, SMT
    <3> QED
      BY <2>1, <3>1, SMT
  <2> QED
    BY <2>2, <2>3, SMT
<1> QED
  BY <1>1, <1>2, SMT

-----------------------------------------------------------------------------
(* The inductive invariant.  DeliveryExact speaks of the entries that are   *)
(* steady and of the event at head: it is kept by a handler that subscribes *)
(* only because a steady entry is never free, and by one that publishes     *)
(* only because a non-full ring does not end at head.                       *)

IInv == TypeOK /\ RingConsistent /\ Accounting /\ DispatchBounded
        /\ steady \subseteq Active /\ DeliveryExact

(* The state the bus starts in has all the parts of the invariant. *)
LEMMA InitIInv == Init => IInv
<1> SUFFICES ASSUME Init PROVE IInv
  OBVIOUS
<1> USE DEF Init
<1>1. TypeOK
  <2>1. 0 \in Indices /\ 0 \in 0 .. QueueSize /\ 0 \in 0 .. StatMod - 1
    BY QueueSizeAssumption, StatModAssumption, SMT DEF Indices
  <2>2. 0 \in EventTypes /\ 0 \in 0 .. MaxSubs
    BY MaxTypeAssumption, MaxSubsAssumption, SMT DEF EventTypes
  <2> QED
    BY <2>1, <2>2 DEF TypeOK
<1>2. RingConsistent
  BY QueueSizeAssumption, SMT DEF RingConsistent
<1>3. Accounting
  BY QueueSizeAssumption, StatModAssumption, SMT DEF Accounting
<1>4. DispatchBounded /\ steady \subseteq Active /\ DeliveryExact
  BY DEF DispatchBounded, DeliveryExact
<1> QED
  BY <1>1, <1>2, <1>3, <1>4 DEF IInv

(* A publish that is accepted during a dispatch writes another entry than  *)
(* the one the handlers are looking at.                                    *)
LEMMA PublishElsewhere ==
  ASSUME TypeOK, RingConsistent, count \in 1 .. QueueSize - 1
  PROVE  tail # head
  BY QueueSizeAssumption, WrapApart DEF TypeOK, RingConsistent, Indices

LEMMA TypeStep ==
  ASSUME TypeOK, DispatchBounded, [Next]_vars
  PROVE  TypeOK'
<1> USE QueueSizeAssumption, MaxSubsAssumption, StatModAssumption
    DEF TypeOK, Indices, SubSlots
<1>1. ASSUME NEW t \in EventTypes, Publish(t)
      PROVE  TypeOK'
  <2>1. tail' \in Indices
    BY <1>1, SMT DEF Publish
  <2>2. published' \in 0 .. StatMod - 1
    BY <1>1, SMT DEF Publish
  <2> QED
    BY <1>1, <2>1, <2>2 DEF Publish, dispatchVars
<1>2. ASSUME NEW t \in EventTypes, PublishFull(t)
      PROVE  TypeOK'
  <2>1. dropped' \in 0 .. StatMod - 1
    BY <1>2, SMT DEF PublishFull
  <2> QED
    BY <1>2, <2>1 DEF PublishFull, ringVars, dispatchVars
<1>3. ASSUME NEW f \in Filters, NEW h \in Handlers, Subscribe(f, h)
      PROVE  TypeOK'
  <2>1. PICK s \in SubSlots :
          subs' = [subs EXCEPT ![s] = [active |-> TRUE, filter |-> f, handler |-> h]]
    BY <1>3 DEF Subscribe
  <2>2. [active |-> TRUE, filter |-> f, handler |-> h] \in Subscription
    BY <1>3 DEF Subscription
  <2>3. subs' \in [SubSlots -> {Free} \union Subscription]
    BY <2>1, <2>2
  <2> QED
    BY <1>3, <2>3 DEF Subscribe, ringVars, statVars, dispatchVars
<1>4. ASSUME NEW h \in Handlers, Unsubscribe(h)
      PROVE  TypeOK'
  <2>1. PICK s \in SubSlots : subs' = [subs EXCEPT ![s] = Free] /\ steady' = steady \ {s}
    BY <1>4 DEF Unsubscribe, Holding, Active
  <2>2. subs' \in [SubSlots -> {Free} \union Subscription] /\ steady' \subseteq SubSlots
    BY <2>1
  <2> QED
    BY <1>4, <2>2 DEF Unsubscribe, ringVars, statVars, dispatchVars
<1>5. ASSUME NEW max \in 0 .. QueueSize, DispatchBegin(max)
      PROVE  TypeOK'
  <2>1. left' \in 0 .. QueueSize /\ cursor' \in 0 .. MaxSubs
    BY <1>5, SMT DEF DispatchBegin, Smaller
  <2> QED
    BY <1>5, <2>1 DEF DispatchBegin, Active, ringVars, statVars
<1>6. ASSUME CallHandler
      PROVE  TypeOK'
  BY <1>6 DEF CallHandler, ringVars, statVars
<1>7. ASSUME HandlerReturn
      PROVE  TypeOK'
  <2>1. cursor < MaxSubs
    BY <1>7 DEF HandlerReturn, DispatchBounded
  <2>2. cursor' \in 0 .. MaxSubs
    BY <1>7, <2>1 DEF HandlerReturn
  <2> QED
    BY <1>7, <2>2 DEF HandlerReturn, ringVars, statVars
<1>8. ASSUME SkipEntry
      PROVE  TypeOK'
  BY <1>8 DEF SkipEntry, ringVars, statVars
<1>9. ASSUME Advance
      PROVE  TypeOK'
  <2>1. head' \in Indices
    BY <1>9, SMT DEF Advance
  <2>2. dispatched' \in 0 .. StatMod - 1
    BY <1>9, SMT DEF Advance
  <2> QED
    BY <1>9, <2>1, <2>2 DEF Advance, DispatchBounded, Active
<1>10. CASE UNCHANGED vars
  BY <1>10 DEF vars, ringVars, statVars, dispatchVars
<1> QED
  BY <1>1, <1>2, <1>3, <1>4, <1>5, <1>6, <1>7, <1>8, <1>9, <1>10
  DEF Next, DispatchStep

(* The ring's fields and the statistics, over every action.                *)
LEMMA RingStep ==
  ASSUME TypeOK, RingConsistent, Accounting, DispatchBounded, [Next]_vars
  PROVE  RingConsistent' /\ Accounting' /\ DispatchBounded'
<1> USE QueueSizeAssumption, MaxSubsAssumption, StatModAssumption
    DEF TypeOK, Indices, RingConsistent, Accounting, DispatchBounded
<1>1. ASSUME NEW t \in EventTypes, Publish(t)
      PROVE  RingConsistent' /\ Accounting' /\ DispatchBounded'
  <2>1. count \in 0 .. QueueSize - 1 /\ count' = count + 1 /\ head' = head
        /\ dispatched' = dispatched
    BY <1>1 DEF Publish
  <2>2. RingConsistent'
    BY <1>1, <2>1, WrapEnd DEF Publish
  <2>3. Accounting'
    <3>1. StatMod \in Nat \ {0} /\ count \in 0 .. StatMod - 1
      BY <2>1, SMT
    <3>2. (((dispatched + count) % StatMod) + 1) % StatMod = (dispatched + (count + 1)) % StatMod
      BY <3>1, WrapEnd
    <3> QED
      BY <1>1, <2>1, <3>2 DEF Publish
  <2>4. DispatchBounded'
    BY <1>1, <2>1 DEF Publish, dispatchVars
  <2> QED
    BY <2>2, <2>3, <2>4
<1>2. ASSUME NEW max \in 0 .. QueueSize, DispatchBegin(max)
      PROVE  RingConsistent' /\ Accounting' /\ DispatchBounded'
  <2>1. 0 < left' /\ left' <= count
    BY <1>2, SMT DEF DispatchBegin, Smaller
  <2> QED
    BY <1>2, <2>1 DEF DispatchBegin, ringVars, statVars
<1>3. ASSUME Advance
      PROVE  RingConsistent' /\ Accounting' /\ DispatchBounded'
  <2>1. count \in 1 .. QueueSize /\ count' = count - 1 /\ 0 < left /\ left <= count
    BY <1>3 DEF Advance
  <2>2. RingConsistent'
    BY <1>3, <2>1, WrapStart DEF Advance
  <2>3. Accounting'
    <3>1. StatMod \in Nat \ {0} /\ count \in 1 .. StatMod
      BY <2>1, SMT
    <3>2. (((dispatched + 1) % StatMod) + (count - 1)) % StatMod = (dispatched + count) % StatMod
      BY <3>1, WrapStart
    <3> QED
      BY <1>3, <2>1, <3>2 DEF Advance
  <2>4. DispatchBounded'
    BY <1>3, <2>1 DEF Advance
  <2> QED
    BY <2>2, <2>3, <2>4
<1>4. ASSUME CallHandler \/ HandlerReturn \/ SkipEntry
      PROVE  RingConsistent' /\ Accounting' /\ DispatchBounded'
  <2>1. UNCHANGED <<ringVars, statVars, busy, left>> /\ busy
    BY <1>4 DEF CallHandler, HandlerReturn, SkipEntry
  <2>2. calling' => cursor' < MaxSubs
    BY <1>4 DEF CallHandler, HandlerReturn, SkipEntry
  <2> QED
    BY <2>1, <2>2 DEF ringVars, statVars
<1>5. ASSUME \/ \E t \in EventTypes : PublishFull(t)
             \/ \E f \in Filters, h \in Handlers : Subscribe(f, h)
             \/ \E h \in Handlers : Unsubscribe(h)
             \/ UNCHANGED vars
      PROVE  RingConsistent' /\ Accounting' /\ DispatchBounded'
  <2>1. UNCHANGED <<ringVars, published, dispatched, dispatchVars>>
    BY <1>5 DEF PublishFull, Subscribe, Unsubscribe, vars, statVars
  <2> QED
    BY <2>1 DEF ringVars, dispatchVars
<1> QED
  BY <1>1, <1>2, <1>3, <1>4, <1>5 DEF Next, DispatchStep

(* The history of the head event's turn, over every action.                *)
LEMMA DeliveryStep ==
  ASSUME IInv, [Next]_vars
  PROVE  (steady \subseteq Active)' /\ DeliveryExact'
<1> USE QueueSizeAssumption, MaxSubsAssumption
    DEF IInv, TypeOK, Indices, SubSlots, Active
<1>1. ASSUME NEW t \in EventTypes, Publish(t)
      PROVE  (steady \subseteq Active)' /\ DeliveryExact'
  <2>1. queue'[head'] = queue[head] \/ ~busy
    <3>1. busy => count \in 1 .. QueueSize - 1
      BY <1>1 DEF Publish, DispatchBounded
    <3> QED
      BY <1>1, <3>1, PublishElsewhere DEF Publish
  <2> QED
    BY <1>1, <2>1 DEF Publish, dispatchVars, DeliveryExact, Wanted, Passed
<1>2. ASSUME NEW f \in Filters, NEW h \in Handlers, Subscribe(f, h)
      PROVE  (steady \subseteq Active)' /\ DeliveryExact'
  <2>1. PICK s \in SubSlots \ Active :
          subs' = [subs EXCEPT ![s] = [active |-> TRUE, filter |-> f, handler |-> h]]
    BY <1>2 DEF Subscribe
  <2>2. \A r \in steady : subs'[r] = subs[r]
    BY <2>1
  <2> QED
    BY <1>2, <2>2 DEF Subscribe, ringVars, dispatchVars, DeliveryExact, Wanted, Passed
<1>3. ASSUME NEW h \in Handlers, Unsubscribe(h)
      PROVE  (steady \subseteq Active)' /\ DeliveryExact'
  <2>1. PICK s \in SubSlots : subs' = [subs EXCEPT ![s] = Free] /\ steady' = steady \ {s}
    BY <1>3 DEF Unsubscribe, Holding
  <2>2. \A r \in steady' : subs'[r] = subs[r] /\ r \in steady
    BY <2>1
  <2>3. (steady \subseteq Active)'
    BY <2>2
  <2>4. \A r \in SubSlots : (r \in Passed)' <=> r \in Passed
    BY <1>3 DEF Unsubscribe, dispatchVars, Passed
  <2> QED
    BY <1>3, <2>1, <2>2, <2>3, <2>4
    DEF Unsubscribe, ringVars, dispatchVars, DeliveryExact, Wanted, Passed
<1>4. ASSUME NEW max \in 0 .. QueueSize, DispatchBegin(max)
      PROVE  (steady \subseteq Active)' /\ DeliveryExact'
  BY <1>4 DEF DispatchBegin, DeliveryExact, Passed
<1>5. ASSUME CallHandler
      PROVE  (steady \subseteq Active)' /\ DeliveryExact'
  <2>1. Passed' = Passed \union {cursor} /\ Wanted(cursor)
    BY <1>5 DEF CallHandler, Passed
  <2> QED
    BY <1>5, <2>1 DEF CallHandler, ringVars, DeliveryExact, Wanted
<1>6. ASSUME HandlerReturn
      PROVE  (steady \subseteq Active)' /\ DeliveryExact'
  <2>1. Passed' = Passed
    BY <1>6 DEF HandlerReturn, Passed
  <2> QED
    BY <1>6, <2>1 DEF HandlerReturn, ringVars, DeliveryExact, Wanted
<1>7. ASSUME SkipEntry
      PROVE  (steady \subseteq Active)' /\ DeliveryExact'
  <2>1. Passed' = Passed \union {cursor} /\ ~Wanted(cursor)
    BY <1>7 DEF SkipEntry, Passed
  <2>2. cursor \notin Passed
    BY <1>7 DEF SkipEntry, Passed
  <2> QED
    BY <1>7, <2>1, <2>2 DEF SkipEntry, ringVars, DeliveryExact, Wanted
<1>8. ASSUME Advance
      PROVE  (steady \subseteq Active)' /\ DeliveryExact'
  BY <1>8 DEF Advance, DeliveryExact, Passed
<1>9. ASSUME (\E t \in EventTypes : PublishFull(t)) \/ UNCHANGED vars
      PROVE  (steady \subseteq Active)' /\ DeliveryExact'
  <2>1. UNCHANGED <<ringVars, subs, dispatchVars, steady, called>>
    BY <1>9 DEF PublishFull, vars
  <2> QED
    BY <2>1 DEF ringVars, dispatchVars, DeliveryExact, Wanted, Passed
<1> QED
  BY <1>1, <1>2, <1>3, <1>4, <1>5, <1>6, <1>7, <1>8, <1>9 DEF Next, DispatchStep

LEMMA StepIInv == IInv /\ [Next]_vars => IInv'
<1> SUFFICES ASSUME IInv, [Next]_vars PROVE IInv'
  OBVIOUS
<1>1. TypeOK'
  BY TypeStep DEF IInv
<1>2. RingConsistent' /\ Accounting' /\ DispatchBounded'
  BY RingStep DEF IInv
<1>3. (steady \subseteq Active)' /\ DeliveryExact'
  BY DeliveryStep
<1> QED
  BY <1>1, <1>2, <1>3 DEF IInv

-----------------------------------------------------------------------------
(* The inductive invariant holds in every state the bus reaches.           *)
THEOREM Invariance == Safety => []IInv
  BY InitIInv, StepIInv, PTL DEF Safety

(* Every variable of the bus keeps its type: no index leaves the ring, no  *)
(* count passes its limit, in any interleaving of the dispatch loop with   *)
(* what its handlers do.                                                   *)
THEOREM TypeCorrect == Safety => []TypeOK
<1>1. IInv => TypeOK
  BY DEF IInv
<1> QED
  BY <1>1, Invariance, PTL

(* head, tail and count always describe the same segment of the ring.      *)
THEOREM RingCorrect == Safety => []RingConsistent
<1>1. IInv => RingConsistent
  BY DEF IInv
<1> QED
  BY <1>1, Invariance, PTL

(* Published is dispatched plus queued, also after the counters wrap.      *)
THEOREM AccountingCorrect == Safety => []Accounting
<1>1. IInv => Accounting
  BY DEF IInv
<1> QED
  BY <1>1, Invariance, PTL

(* The snapshot that bounds the dispatch loop never exceeds the queue.     *)
THEOREM DispatchStaysBounded == Safety => []DispatchBounded
<1>1. IInv => DispatchBounded
  BY DEF IInv
<1> QED
  BY <1>1, Invariance, PTL

(* Every steady matching subscriber is called in each event's turn, and no *)
(* steady subscriber that does not match.                                  *)
THEOREM DeliveryCorrect == Safety => []DeliveryExact
<1>1. IInv => DeliveryExact
  BY DEF IInv
<1> QED
  BY <1>1, Invariance, PTL

(* The event handlers point at is not overwritten during their turn.       *)
THEOREM InFlightSafe == Safety => InFlightStable
<1>1. IInv /\ [Next]_vars => [busy /\ head' = head => queue'[head] = queue[head]]_vars
  <2> SUFFICES ASSUME IInv, Next, busy, head' = head
               PROVE  queue'[head] = queue[head]
    OBVIOUS
  <2> USE DEF IInv
  <2>1. ASSUME NEW t \in EventTypes, Publish(t)
        PROVE  queue'[head] = queue[head]
    <3>1. count \in 1 .. QueueSize - 1
      BY <2>1, QueueSizeAssumption DEF Publish, DispatchBounded, TypeOK
    <3>2. tail # head
      BY <3>1, PublishElsewhere
    <3> QED
      BY <2>1, <3>2 DEF Publish, TypeOK
  <2>2. ASSUME ~ \E t \in EventTypes : Publish(t)
        PROVE  queue' = queue
    BY <2>2 DEF Next, DispatchStep, PublishFull, Subscribe, Unsubscribe, DispatchBegin,
                CallHandler, HandlerReturn, SkipEntry, Advance, ringVars
  <2> QED
    BY <2>1, <2>2
<1> QED
  BY <1>1, Invariance, PTL DEF Safety, InFlightStable

-----------------------------------------------------------------------------
(* The ring implements the first-in first-out queue. *)

(* A segment of the ring, wherever it starts, is a sequence of events.     *)
LEMMA SegmentSeq ==
  ASSUME NEW r \in [Indices -> EventTypes], NEW h \in Indices, NEW c \in Nat
  PROVE  LET s == [i \in 1 .. c |-> r[(h + i - 1) % QueueSize]]
         IN  s \in Seq(EventTypes) /\ Len(s) = c
<1>1. ASSUME NEW i \in 1 .. c
      PROVE  (h + i - 1) % QueueSize \in Indices
  BY QueueSizeAssumption, SMT DEF Indices
<1>2. [i \in 1 .. c |-> r[(h + i - 1) % QueueSize]] \in [1 .. c -> EventTypes]
  BY <1>1
<1> QED
  BY <1>2

(* The live segment is as long as the count. *)
LEMMA SegmentType ==
  ASSUME TypeOK
  PROVE  Segment \in Seq(EventTypes) /\ Len(Segment) = count
  BY SegmentSeq DEF TypeOK, Segment

(* An accepted event is appended to the segment.                           *)
LEMMA PublishAppends ==
  ASSUME IInv, NEW t \in EventTypes, Publish(t)
  PROVE  Segment' = Append(Segment, t)
<1> USE QueueSizeAssumption
<1>0. /\ queue \in [Indices -> EventTypes] /\ tail \in Indices
      /\ head \in 0 .. QueueSize - 1 /\ tail = (head + count) % QueueSize
  BY DEF IInv, TypeOK, Indices, RingConsistent
<1>1. count \in 0 .. QueueSize - 1 /\ count' = count + 1 /\ head' = head
      /\ queue' = [queue EXCEPT ![tail] = t]
  BY DEF Publish, IInv, TypeOK
<1>2. Segment' = [i \in 1 .. count + 1 |-> queue'[(head + i - 1) % QueueSize]]
  BY <1>1 DEF Segment
<1>3. ASSUME NEW i \in 1 .. count
      PROVE  queue'[(head + i - 1) % QueueSize] = Segment[i]
  <2>1. (head + i - 1) % QueueSize \in Indices
    BY <1>0, <1>1, SMT DEF Indices
  <2>2. (head + i - 1) % QueueSize # (head + count) % QueueSize
    <3>1. count \in 1 .. QueueSize - 1
      BY <1>1
    <3> QED
      BY <1>0, <3>1, IndicesApart
  <2> QED
    BY <1>0, <1>1, <2>1, <2>2 DEF Segment
<1>4. queue'[(head + (count + 1) - 1) % QueueSize] = t
  <2>1. (head + (count + 1) - 1) % QueueSize = tail
    <3>1. head + (count + 1) - 1 = head + count
      BY <1>0, <1>1
    <3> QED
      BY <1>0, <3>1
  <2> QED
    BY <1>0, <1>1, <2>1
<1>5. Segment \in Seq(EventTypes) /\ Len(Segment) = count /\ count \in Nat
  BY <1>1, SegmentType DEF IInv
<1>6. /\ Append(Segment, t) \in Seq(EventTypes) /\ Len(Append(Segment, t)) = count + 1
      /\ \A i \in 1 .. count : Append(Segment, t)[i] = Segment[i]
      /\ Append(Segment, t)[count + 1] = t
  BY <1>5, AppendProperties
<1>7. Segment' \in Seq(EventTypes) /\ Len(Segment') = count + 1
  <2>1. queue' \in [Indices -> EventTypes] /\ head \in Indices /\ count + 1 \in Nat
    BY <1>0, <1>1 DEF Indices
  <2> QED
    BY <1>2, <2>1, SegmentSeq
<1>8. ASSUME NEW i \in 1 .. count + 1
      PROVE  Segment'[i] = Append(Segment, t)[i]
  <2>0. Segment'[i] = queue'[(head + i - 1) % QueueSize]
    BY <1>2
  <2>1. CASE i = count + 1
    BY <2>0, <2>1, <1>4, <1>6
  <2>2. CASE i # count + 1
    <3>1. i \in 1 .. count
      BY <2>2, <1>5
    <3> QED
      BY <2>0, <3>1, <1>3, <1>6
  <2> QED
    BY <2>1, <2>2
<1> QED
  BY <1>6, <1>7, <1>8, SeqEqual

(* Dispatching an event removes the first of the segment.                  *)
LEMMA AdvanceDrops ==
  ASSUME IInv, Advance
  PROVE  Segment # << >> /\ Segment' = Tail(Segment)
<1> USE QueueSizeAssumption DEF IInv, TypeOK, Indices
<1>1. count \in 1 .. QueueSize /\ count' = count - 1 /\ queue' = queue
      /\ head' = (head + 1) % QueueSize
  BY DEF Advance, DispatchBounded
<1>2. Segment' = [i \in 1 .. count - 1 |-> queue[(head' + i - 1) % QueueSize]]
  BY <1>1 DEF Segment
<1>3. ASSUME NEW i \in 1 .. count - 1
      PROVE  queue[(head' + i - 1) % QueueSize] = Segment[i + 1]
  <2>1. (((head + 1) % QueueSize) + (i - 1)) % QueueSize = (head + i) % QueueSize
    BY <1>1, WrapStart
  <2>2. head' + i - 1 = ((head + 1) % QueueSize) + (i - 1) /\ head + (i + 1) - 1 = head + i
    BY <1>1, SMT
  <2>3. i + 1 \in 1 .. count
    BY <1>1
  <2> QED
    BY <2>1, <2>2, <2>3 DEF Segment
<1>4. Segment \in Seq(EventTypes) /\ Len(Segment) = count
  BY SegmentType
<1>5. Segment # << >>
  BY <1>1, <1>4
<1>6. /\ Tail(Segment) \in Seq(EventTypes) /\ Len(Tail(Segment)) = count - 1
      /\ \A i \in 1 .. count - 1 : Tail(Segment)[i] = Segment[i + 1]
  BY <1>1, <1>4, <1>5, HeadTailProperties
<1>7. TypeOK'
  BY TypeStep DEF Next, DispatchStep
<1>8. Segment' \in Seq(EventTypes) /\ Len(Segment') = count - 1
  <2>1. queue \in [Indices -> EventTypes] /\ head' \in Indices /\ count - 1 \in Nat
    BY <1>1, <1>7
  <2> HIDE DEF IInv, TypeOK, Indices
  <2> QED
    BY <1>2, <2>1, SegmentSeq
<1>9. \A i \in 1 .. count - 1 : Segment'[i] = Segment[i + 1]
  BY <1>2, <1>3
<1> QED
  BY <1>5, <1>6, <1>8, <1>9, SeqEqual

(* Init and every step of the bus are Init and a step, or a stutter, of    *)
(* the abstract queue.                                                     *)
THEOREM RefinesQueue == Safety => Fifo!Safety
<1>1. Init => Fifo!Init
  BY DEF Init, Fifo!Init, Segment
<1>2. IInv /\ [Next]_vars => [Fifo!Next]_Segment
  <2> SUFFICES ASSUME IInv, [Next]_vars
               PROVE  [Fifo!Next]_Segment
    OBVIOUS
  <2>1. ASSUME NEW t \in EventTypes, Publish(t)
        PROVE  Fifo!Enqueue(t)
    <3>1. Len(Segment) < QueueSize
      BY <2>1, SegmentType DEF Publish, IInv
    <3> QED
      BY <2>1, <3>1, PublishAppends DEF Fifo!Enqueue
  <2>2. ASSUME Advance
        PROVE  Fifo!Dequeue
    BY <2>2, AdvanceDrops DEF Fifo!Dequeue
  <2>3. ASSUME ~Advance, ~ \E t \in EventTypes : Publish(t)
        PROVE  Segment' = Segment
    <3>1. UNCHANGED ringVars
      BY <2>3 DEF Next, DispatchStep, PublishFull, Subscribe, Unsubscribe, DispatchBegin,
                  CallHandler, HandlerReturn, SkipEntry, vars
    <3> QED
      BY <3>1 DEF ringVars, Segment
  <2> QED
    BY <2>1, <2>2, <2>3 DEF Fifo!Next
<1> QED
  BY <1>1, <1>2, Invariance, PTL DEF Safety, Fifo!Safety

-----------------------------------------------------------------------------
(* What DispatchReturns rests on besides fairness: once os_event_dispatch  *)
(* is called, every step either is a call that the running handler makes,  *)
(* which does not touch the loop, or brings the loop nearer to its end in  *)
(* the lexicographic order of the events left, the table's entries and the *)
(* handler's call.  So a handler that publishes at every call, subscribes  *)
(* or unsubscribes does not keep the loop going.                           *)
Nearer ==
  \/ ~busy'
  \/ left' < left
  \/ left' = left /\ cursor' > cursor
  \/ left' = left /\ cursor' = cursor /\ ~calling /\ calling'

LoopProgress ==
  [][busy => (calling /\ UNCHANGED dispatchVars) \/ (DispatchStep /\ Nearer)]_vars

(* With DispatchBounded, which bounds the two counters, a call of the loop *)
(* makes finitely many steps of its own.                                   *)
THEOREM LoopEnds == Safety => LoopProgress
<1>1. ASSUME IInv, [Next]_vars
      PROVE  [busy => (calling /\ UNCHANGED dispatchVars) \/ (DispatchStep /\ Nearer)]_vars
  <2> SUFFICES ASSUME Next, busy
               PROVE  (calling /\ UNCHANGED dispatchVars) \/ (DispatchStep /\ Nearer)
    BY <1>1
  <2>0. left \in Int /\ cursor \in Int
    BY <1>1, QueueSizeAssumption, MaxSubsAssumption, SMT DEF IInv, TypeOK
  <2>1. CASE \E t \in EventTypes : Publish(t) \/ PublishFull(t)
    BY <2>1 DEF Publish, PublishFull, InUserCode
  <2>2. CASE \E f \in Filters, h \in Handlers : Subscribe(f, h)
    BY <2>2 DEF Subscribe, InUserCode
  <2>3. CASE \E h \in Handlers : Unsubscribe(h)
    BY <2>3 DEF Unsubscribe, InUserCode
  <2>4. CASE CallHandler
    BY <2>4 DEF CallHandler, DispatchStep, Nearer
  <2>5. CASE HandlerReturn
    BY <2>0, <2>5, SMT DEF HandlerReturn, DispatchStep, Nearer
  <2>6. CASE SkipEntry
    BY <2>0, <2>6, SMT DEF SkipEntry, DispatchStep, Nearer
  <2>7. CASE Advance
    BY <2>0, <2>7, SMT DEF Advance, DispatchStep, Nearer
  <2> QED
    BY <2>1, <2>2, <2>3, <2>4, <2>5, <2>6, <2>7 DEF Next, DispatchBegin, DispatchStep
<1> QED
  BY <1>1, Invariance, PTL DEF LoopProgress, Safety

=============================================================================

-------------------------- MODULE DiscoveryProofs --------------------------
(***************************************************************************)
(* Proofs of the safety properties of Discovery, for any set of devices    *)
(* and entities, any length of the list and any number of events that      *)
(* wait.                                                                   *)
(***************************************************************************)
EXTENDS Discovery, FiniteSetTheorems, TLAPS

Safety == Init /\ [][Next]_vars

(* Each node has one slot: what makes the list and its set of nodes equally *)
(* large.                                                                   *)
OneSlotEach == \A s, t \in PendingSlots : pending[s] = pending[t] => s = t

CountExact == pendingCount = Cardinality(PendingSlots)

(* The inductive invariant of the list.  The type of pendingCount, which    *)
(* is only ever increased and decreased, follows from CountExact.           *)
ListInv == TypeOK /\ OneSlotEach /\ CountExact

-----------------------------------------------------------------------------
(* The slots that are pending are finitely many, at most MaxPending. *)
LEMMA SlotsFinite ==
  ASSUME NEW S \in SUBSET Slots
  PROVE  IsFiniteSet(S) /\ Cardinality(S) \in 0 .. MaxPending
<1>1. IsFiniteSet(Slots) /\ Cardinality(Slots) = MaxPending
  <2>1. MaxPending \in Int /\ 1 \in Int /\ ~(1 > MaxPending)
    BY MaxPendingAssumption, SMT
  <2> QED
    BY <2>1, FS_Interval, SMT DEF Slots
<1>2. IsFiniteSet(S) /\ Cardinality(S) <= Cardinality(Slots)
  BY <1>1, FS_Subset
<1>3. Cardinality(S) \in Nat
  BY <1>2, FS_CardinalityType
<1> QED
  BY <1>1, <1>2, <1>3, MaxPendingAssumption, SMT

(* With one slot for each, there are as many nodes as slots. *)
LEMMA NodesAreSlots ==
  ASSUME OneSlotEach
  PROVE  Cardinality(PendingNodes) = Cardinality(PendingSlots)
<1> DEFINE f == [s \in PendingSlots |-> pending[s]]
<1>1. IsFiniteSet(PendingSlots)
  BY SlotsFinite DEF PendingSlots
<1>2. f \in Surjection(PendingSlots, PendingNodes)
  BY DEF Surjection, PendingNodes
<1>3. f \in Injection(PendingSlots, PendingNodes)
  BY DEF Injection, IsInjective, PendingNodes, OneSlotEach
<1> QED
  BY <1>1, <1>2, <1>3, FS_Surjection

-----------------------------------------------------------------------------
LEMMA InitListInv == Init => ListInv
<1> SUFFICES ASSUME Init PROVE ListInv
  OBVIOUS
<1> USE DEF Init
<1>1. PendingSlots = {}
  BY DEF PendingSlots
<1>2. CountExact /\ OneSlotEach
  BY <1>1, FS_EmptySet DEF CountExact, OneSlotEach
<1>3. 0 \in 0 .. MaxPending /\ Len(<< >>) <= MaxLeft /\ << >> \in Seq(Addr)
  BY MaxPendingAssumption, MaxLeftAssumption, SMT
<1>4. TypeOK
  BY <1>3 DEF TypeOK
<1> QED
  BY <1>2, <1>4 DEF ListInv

(* A node that is put off takes a slot that was free. *)
LEMMA PutOffKeepsList ==
  ASSUME ListInv, NEW a \in Addr, PutOff(a)
  PROVE  ListInv'
<1> USE DEF PutOff, ListInv
<1>1. PICK s \in Free : pending' = [pending EXCEPT ![s] = a]
  OBVIOUS
<1>2. s \in Slots /\ s \notin PendingSlots /\ a # NoAddr
  BY <1>1, NoAddrAssumption DEF Free
<1>3. pending' \in [Slots -> Addr \union {NoAddr}]
  BY <1>1 DEF TypeOK
<1>4. PendingSlots' = PendingSlots \union {s}
  BY <1>1, <1>2 DEF PendingSlots, TypeOK
<1>5. CountExact'
  <2>1. IsFiniteSet(PendingSlots) /\ Cardinality(PendingSlots) \in Nat
    BY SlotsFinite, SMT DEF PendingSlots
  <2>2. Cardinality(PendingSlots \union {s}) = Cardinality(PendingSlots) + 1
    BY <1>2, <2>1, FS_AddElement
  <2> QED
    BY <1>4, <2>2 DEF CountExact
<1>6. pendingCount' \in 0 .. MaxPending
  BY <1>5, SlotsFinite DEF CountExact, PendingSlots
<1>7. OneSlotEach'
  <2> SUFFICES ASSUME NEW t \in PendingSlots', NEW u \in PendingSlots',
                      pending'[t] = pending'[u]
               PROVE  t = u
    BY DEF OneSlotEach
  <2>1. \A v \in PendingSlots : pending'[v] = pending[v] /\ pending[v] # a
    BY <1>1, <1>2 DEF PendingNodes, PendingSlots, TypeOK
  <2>2. pending'[s] = a
    BY <1>1, <1>2 DEF TypeOK
  <2> QED
    BY <1>4, <2>1, <2>2 DEF OneSlotEach
<1>8. TypeOK'
  BY <1>3, <1>6 DEF TypeOK, busVars, brokerVars
<1> QED
  BY <1>5, <1>7, <1>8

LEMMA PutAllOffKeepsList ==
  ASSUME ListInv, PutAllOff
  PROVE  ListInv'
<1> USE DEF PutAllOff, ListInv
<1>1. CountExact'
  BY DEF CountExact, PendingSlots
<1>2. pendingCount' \in 0 .. MaxPending
  BY <1>1, SlotsFinite DEF CountExact, PendingSlots
<1>3. OneSlotEach'
  <2> SUFFICES ASSUME NEW t \in PendingSlots', NEW u \in PendingSlots',
                      pending'[t] = pending'[u]
               PROVE  t = u
    BY DEF OneSlotEach
  <2>1. t \in Slots /\ u \in Slots /\ pending'[t] # NoAddr /\ pending'[u] # NoAddr
    BY DEF PendingSlots
  <2>2. CASE t \in PendingSlots /\ u \in PendingSlots
    BY <2>2 DEF OneSlotEach
  <2>3. CASE t \in PendingSlots /\ u \in Free
    <3>1. pending'[u] \notin PendingNodes /\ pending'[t] \in PendingNodes
      BY <2>1, <2>3 DEF PendingNodes
    <3> QED
      BY <3>1
  <2>4. CASE t \in Free /\ u \in PendingSlots
    <3>1. pending'[t] \notin PendingNodes /\ pending'[u] \in PendingNodes
      BY <2>1, <2>4 DEF PendingNodes
    <3> QED
      BY <3>1
  <2>5. CASE t \in Free /\ u \in Free
    BY <2>1, <2>5
  <2> QED
    BY <2>1, <2>2, <2>3, <2>4, <2>5 DEF Free
<1>4. TypeOK'
  BY <1>2 DEF TypeOK, busVars, brokerVars
<1> QED
  BY <1>1, <1>3, <1>4

(* A flush frees exactly the slots it counts. *)
LEMMA FlushKeepsList ==
  ASSUME ListInv, Flush
  PROVE  ListInv'
<1> USE DEF Flush, ListInv
<1>1. Done \in SUBSET PendingSlots /\ PendingSlots \in SUBSET Slots
  BY DEF Done, PendingSlots
<1>2. PendingSlots' = PendingSlots \ Done
  BY <1>1 DEF PendingSlots
<1>3. CountExact'
  <2>1. IsFiniteSet(PendingSlots) /\ IsFiniteSet(Done)
        /\ Cardinality(PendingSlots) \in Nat /\ Cardinality(Done) \in Nat
    BY <1>1, SlotsFinite, SMT
  <2>2. PendingSlots \intersect Done = Done
    BY <1>1
  <2>3. Cardinality(PendingSlots \ Done)
          = Cardinality(PendingSlots) - Cardinality(PendingSlots \intersect Done)
    BY <2>1, FS_Difference
  <2> QED
    BY <1>2, <2>2, <2>3 DEF CountExact
<1>4. pendingCount' \in 0 .. MaxPending
  BY <1>3, SlotsFinite DEF CountExact, PendingSlots
<1>5. pending' \in [Slots -> Addr \union {NoAddr}]
  BY DEF TypeOK
<1>6. OneSlotEach'
  <2>1. \A s \in PendingSlots \ Done : pending'[s] = pending[s]
    BY <1>1
  <2> QED
    BY <1>2, <2>1 DEF OneSlotEach
<1>7. retained' \in [Addr -> SUBSET Entities]
  BY DEF TypeOK, Configured
<1>8. TypeOK'
  BY <1>4, <1>5, <1>7 DEF TypeOK, busVars
<1> QED
  BY <1>3, <1>6, <1>8

(* What leaves the list alone has only its own variables' types to keep. *)
LEMMA ListUntouched ==
  ASSUME ListInv, UNCHANGED serviceVars, TypeOK'
  PROVE  ListInv'
BY DEF ListInv, serviceVars, OneSlotEach, CountExact, PendingSlots

LEMMA StepListInv == ListInv /\ [Next]_vars => ListInv'
<1> SUFFICES ASSUME ListInv, [Next]_vars PROVE ListInv'
  OBVIOUS
<1>0. TypeOK
  BY DEF ListInv
<1>1. ASSUME NEW a \in Addr, AddNode(a) PROVE ListInv'
  <2>1. TypeOK'
    BY <1>0, <1>1 DEF AddNode, TypeOK, serviceVars, brokerVars
  <2> QED
    BY <1>1, <2>1, ListUntouched DEF AddNode
<1>2. ASSUME NEW a \in Addr, NEW st \in {"JOINED", "READY"}, SetState(a, st) PROVE ListInv'
  <2>1. TypeOK'
    BY <1>0, <1>2 DEF SetState, TypeOK, serviceVars, brokerVars
  <2> QED
    BY <1>2, <2>1, ListUntouched DEF SetState
<1>3. ASSUME NEW a \in Addr, RemoveNode(a) PROVE ListInv'
  <2>1. left' \in Seq(Addr) /\ Len(left') <= MaxLeft
    BY <1>0, <1>3, MaxLeftAssumption, SMT DEF RemoveNode, TypeOK
  <2>2. TypeOK'
    BY <1>0, <1>3, <2>1 DEF RemoveNode, Missed, TypeOK, serviceVars, brokerVars
  <2> QED
    BY <1>3, <2>2, ListUntouched DEF RemoveNode
<1>4. ASSUME NEW a \in Addr, NEW E \in SUBSET Entities, ComputeCaps(a, E) PROVE ListInv'
  <2>1. TypeOK'
    BY <1>0, <1>4 DEF ComputeCaps, TypeOK, serviceVars, brokerVars
  <2> QED
    BY <1>4, <2>1, ListUntouched DEF ComputeCaps
<1>5. ASSUME NEW a \in Addr, PublishNow(a) PROVE ListInv'
  <2>1. TypeOK'
    BY <1>0, <1>5 DEF PublishNow, Configured, TypeOK, busVars, serviceVars
  <2> QED
    BY <1>5, <2>1, ListUntouched DEF PublishNow
<1>6. ASSUME NEW a \in Addr, PutOff(a) PROVE ListInv'
  BY <1>6, PutOffKeepsList
<1>7. CASE Connect \/ Disconnect
  <2>1. TypeOK'
    BY <1>0, <1>7 DEF Connect, Disconnect, TypeOK, busVars, serviceVars
  <2> QED
    BY <1>7, <2>1, ListUntouched DEF Connect, Disconnect
<1>8. CASE PublishAllNow
  <2>1. TypeOK'
    BY <1>0, <1>8 DEF PublishAllNow, Configured, TypeOK, busVars, serviceVars
  <2> QED
    BY <1>8, <2>1, ListUntouched DEF PublishAllNow
<1>9. CASE PutAllOff
  BY <1>9, PutAllOffKeepsList
<1>10. CASE NetUp \/ Task
  BY <1>10, FlushKeepsList DEF NetUp, Task
<1>11. CASE NodeLeft
  <2>1. left' \in Seq(Addr) /\ Len(left') <= MaxLeft /\ Head(left) \in Addr
    BY <1>0, <1>11, MaxLeftAssumption, SMT DEF NodeLeft, TypeOK
  <2>2. TypeOK'
    BY <1>0, <1>11, <2>1 DEF NodeLeft, Missed, TypeOK, serviceVars
  <2> QED
    BY <1>11, <2>2, ListUntouched DEF NodeLeft
<1>12. CASE UNCHANGED vars
  BY <1>0, <1>12, ListUntouched
     DEF vars, TypeOK, busVars, serviceVars, brokerVars
<1> QED
  BY <1>1, <1>2, <1>3, <1>4, <1>5, <1>6, <1>7, <1>8, <1>9, <1>10, <1>11, <1>12 DEF Next

THEOREM ListInvariance == Safety => []ListInv
BY InitListInv, StepListInv, PTL DEF Safety

(* Every variable keeps its type; in particular pending_count never goes    *)
(* below 0 or beyond the list (add_pending, ha_disc_flush_pending).         *)
THEOREM TypeCorrect == Safety => []TypeOK
<1>1. ListInv => TypeOK
  BY DEF ListInv
<1> QED
  BY <1>1, ListInvariance, PTL

(* pending_count, by which the task decides, is the number of nodes in the  *)
(* list, and no node is in it twice.                                        *)
THEOREM ListCorrect == Safety => []PendingConsistent
<1>1. ListInv => PendingConsistent
  BY NodesAreSlots DEF ListInv, CountExact, PendingConsistent
<1> QED
  BY <1>1, ListInvariance, PTL

-----------------------------------------------------------------------------
(* PendingPublished: Flush is the one action by which a node leaves the     *)
(* list, and a flush with MQTT up frees the slots of READY nodes only, all  *)
(* of which it configures.                                                  *)
LEMMA FlushPublishes ==
  ASSUME TypeOK, Flush, Connected, NEW a \in PendingNodes \ PendingNodes'
  PROVE  caps[a] \subseteq retained'[a]
<1>1. PICK s \in PendingSlots : pending[s] = a
  BY DEF PendingNodes
<1>2. s \in Slots /\ a \in Addr
  BY <1>1 DEF PendingSlots, TypeOK
<1>3. s \in Done
  <2>1. SUFFICES ASSUME s \notin Done PROVE FALSE
    OBVIOUS
  <2>2. pending'[s] = a /\ a # NoAddr
    BY <1>1, <1>2, <2>1 DEF Flush, PendingSlots
  <2> QED
    BY <1>2, <2>2 DEF PendingNodes, PendingSlots
<1>4. a \in {pending[t] : t \in PendingSlots} \intersect ReadyNodes
  BY <1>1, <1>3 DEF Done
<1> QED
  BY <1>2, <1>4 DEF Flush, Configured

(* With MQTT down a flush frees every slot. *)
LEMMA FlushDownEmpties ==
  ASSUME Flush, ~Connected
  PROVE  PendingNodes' = {}
<1>1. Done = PendingSlots
  BY DEF Done
<1>2. \A s \in Slots : pending'[s] = NoAddr
  BY <1>1 DEF Flush, PendingSlots
<1> QED
  BY <1>2 DEF PendingNodes, PendingSlots

(* Any other step keeps the nodes that are in the list. *)
LEMMA OthersKeepPending ==
  ASSUME TypeOK, [Next]_vars, ~Flush
  PROVE  PendingNodes \subseteq PendingNodes'
<1>1. CASE pending' = pending
  BY <1>1 DEF PendingNodes, PendingSlots
<1>2. ASSUME NEW a \in Addr, PutOff(a) PROVE PendingNodes \subseteq PendingNodes'
  <2>1. \A s \in PendingSlots : s \in Slots /\ pending'[s] = pending[s]
    BY <1>2 DEF PutOff, Free, PendingSlots, TypeOK
  <2> QED
    BY <2>1 DEF PendingNodes, PendingSlots
<1>3. CASE PutAllOff
  <2>1. \A s \in PendingSlots : s \in Slots /\ pending'[s] = pending[s]
    BY <1>3 DEF PutAllOff, PendingSlots
  <2> QED
    BY <2>1 DEF PendingNodes, PendingSlots
<1>4. \/ pending' = pending
      \/ \E a \in Addr : PutOff(a)
      \/ PutAllOff
  BY DEF Next, vars, serviceVars, AddNode, SetState, RemoveNode, ComputeCaps,
         PublishNow, Connect, Disconnect, PublishAllNow, NetUp, Task, NodeLeft
<1> QED
  BY <1>1, <1>2, <1>3, <1>4

(* ha_disc_flush_pending takes a node out of the list only together with    *)
(* publishing all its entities, or, while MQTT is down, takes all out.      *)
THEOREM PublishedBeforeDropped == Safety => PendingPublished
<1>1. ASSUME TypeOK, [Next]_vars, NEW a \in PendingNodes \ PendingNodes'
      PROVE  caps[a] \subseteq retained'[a] \/ (~Connected /\ PendingNodes' = {})
  <2>1. Flush
    BY <1>1, OthersKeepPending
  <2> QED
    BY <1>1, <2>1, FlushPublishes, FlushDownEmpties
<1>2. TypeOK /\ [Next]_vars =>
        [\A a \in PendingNodes \ PendingNodes' :
           \/ caps[a] \subseteq retained'[a]
           \/ ~Connected /\ PendingNodes' = {}]_vars
  BY <1>1
<1> QED
  BY <1>2, TypeCorrect, PTL DEF Safety, PendingPublished

-----------------------------------------------------------------------------
(* RetainedExplained is inductive, given the types. *)

Announced(a) == \E i \in DOMAIN left : left[i] = a

(* An event that is added or taken from the front leaves the others there. *)
LEMMA AppendAnnounces ==
  ASSUME TypeOK, NEW a \in Addr, left' = Append(left, a), NEW b \in Addr
  PROVE  Announced(a)' /\ (Announced(b) => Announced(b)')
<1>1. left \in Seq(Addr)
  BY DEF TypeOK
<1>2. /\ DOMAIN left' = 1 .. Len(left) + 1
      /\ left'[Len(left) + 1] = a
      /\ \A i \in 1 .. Len(left) : left'[i] = left[i]
      /\ DOMAIN left = 1 .. Len(left)
      /\ Len(left) \in Nat
  BY <1>1, SMT
<1>3. Len(left) + 1 \in DOMAIN left' /\ DOMAIN left \subseteq DOMAIN left'
  BY <1>2, SMT
<1> QED
  BY <1>2, <1>3 DEF Announced

LEMMA TailAnnounces ==
  ASSUME TypeOK, left # << >>, left' = Tail(left),
         NEW a \in Addr, a # Head(left), Announced(a)
  PROVE  Announced(a)'
<1>1. left \in Seq(Addr)
  BY DEF TypeOK
<1>2. PICK i \in DOMAIN left : left[i] = a
  BY DEF Announced
<1>3. i \in 1 .. Len(left) /\ i # 1
  BY <1>1, <1>2, SMT
<1>4. i - 1 \in DOMAIN left' /\ left'[i - 1] = left[i]
  BY <1>1, <1>3, SMT
<1> QED
  BY <1>2, <1>4 DEF Announced

(* Publishing, in whichever of the three ways, is for READY nodes only. *)
LEMMA ConfiguredReady ==
  ASSUME TypeOK, RetainedExplained, NEW S \in SUBSET ReadyNodes,
         retained' = Configured(S), UNCHANGED <<busVars, missed>>
  PROVE  RetainedExplained'
<1> SUFFICES ASSUME NEW a \in Addr, retained'[a] # {}
             PROVE  node'[a] # "GONE" \/ Announced(a)' \/ a \in missed'
  BY DEF RetainedExplained, Announced
<1>1. CASE a \in S
  BY <1>1 DEF ReadyNodes, busVars
<1>2. CASE a \notin S
  BY <1>2 DEF Configured, RetainedExplained, Announced, busVars
<1> QED
  BY <1>1, <1>2

LEMMA InitRetained == Init => RetainedExplained
BY DEF Init, RetainedExplained

LEMMA StepRetained == TypeOK /\ RetainedExplained /\ [Next]_vars => RetainedExplained'
<1> SUFFICES ASSUME TypeOK, RetainedExplained, [Next]_vars PROVE RetainedExplained'
  OBVIOUS
<1>1. ASSUME NEW a \in Addr, AddNode(a) PROVE RetainedExplained'
  BY <1>1 DEF AddNode, RetainedExplained, TypeOK, brokerVars
<1>2. ASSUME NEW a \in Addr, NEW st \in {"JOINED", "READY"}, SetState(a, st)
      PROVE  RetainedExplained'
  BY <1>2 DEF SetState, RetainedExplained, TypeOK, brokerVars
<1>3. ASSUME NEW a \in Addr, RemoveNode(a) PROVE RetainedExplained'
  <2> SUFFICES ASSUME NEW b \in Addr, retained[b] # {}
               PROVE  node'[b] # "GONE" \/ Announced(b)' \/ b \in missed'
    BY <1>3 DEF RemoveNode, RetainedExplained, Announced, brokerVars
  <2>1. node[b] # "GONE" \/ Announced(b) \/ b \in missed
    BY DEF RetainedExplained, Announced
  <2>2. b # a => node'[b] = node[b]
    BY <1>3 DEF RemoveNode, TypeOK
  <2>3. CASE left' = Append(left, a) /\ missed' = missed
    BY <2>1, <2>2, <2>3, AppendAnnounces
  <2>4. CASE left' = left /\ missed' = Missed(a)
    BY <2>1, <2>2, <2>4 DEF Missed, Announced
  <2> QED
    BY <1>3, <2>3, <2>4 DEF RemoveNode
<1>4. ASSUME NEW a \in Addr, NEW E \in SUBSET Entities, ComputeCaps(a, E)
      PROVE  RetainedExplained'
  BY <1>4 DEF ComputeCaps, RetainedExplained, brokerVars
<1>5. ASSUME NEW a \in Addr, PublishNow(a) PROVE RetainedExplained'
  BY <1>5, ConfiguredReady DEF PublishNow
<1>6. ASSUME NEW a \in Addr, PutOff(a) PROVE RetainedExplained'
  BY <1>6 DEF PutOff, RetainedExplained, busVars, brokerVars
<1>7. CASE Connect \/ Disconnect
  BY <1>7 DEF Connect, Disconnect, RetainedExplained, busVars
<1>8. CASE PublishAllNow
  BY <1>8, ConfiguredReady DEF PublishAllNow
<1>9. CASE PutAllOff
  BY <1>9 DEF PutAllOff, RetainedExplained, busVars, brokerVars
<1>10. CASE NetUp \/ Task
  <2>1. Flush
    BY <1>10 DEF NetUp, Task
  <2>2. CASE Connected
    BY <2>1, <2>2, ConfiguredReady DEF Flush
  <2>3. CASE ~Connected
    BY <2>1, <2>3 DEF Flush, RetainedExplained, busVars
  <2> QED
    BY <2>2, <2>3
<1>11. CASE NodeLeft
  <2>1. Head(left) \in Addr
    BY <1>11, SMT DEF NodeLeft, TypeOK
  <2> SUFFICES ASSUME NEW a \in Addr, retained'[a] # {}
               PROVE  node'[a] # "GONE" \/ Announced(a)' \/ a \in missed'
    BY DEF RetainedExplained, Announced
  <2>2. CASE a = Head(left)
    <3>1. ~Connected
      BY <1>11, <2>1, <2>2 DEF NodeLeft, TypeOK
    <3> QED
      BY <1>11, <2>2, <3>1 DEF NodeLeft, Missed
  <2>3. CASE a # Head(left)
    <3>1. retained[a] # {} /\ node' = node /\ (a \in missed => a \in missed')
      BY <1>11, <2>1, <2>3 DEF NodeLeft, Missed, TypeOK
    <3>2. Announced(a) => Announced(a)'
      BY <1>11, <2>3, TailAnnounces DEF NodeLeft
    <3> QED
      BY <3>1, <3>2 DEF RetainedExplained, Announced
  <2> QED
    BY <2>2, <2>3
<1>12. CASE UNCHANGED vars
  BY <1>12 DEF vars, RetainedExplained, busVars, brokerVars
<1> QED
  BY <1>1, <1>2, <1>3, <1>4, <1>5, <1>6, <1>7, <1>8, <1>9, <1>10, <1>11, <1>12 DEF Next

(* No late publish or flush brings back a device that is out of the         *)
(* registry: what the broker keeps of one has its removal under way or      *)
(* lost (ha_disc_publish_node's test of the state, handle_node_removed).    *)
THEOREM RetainedCorrect == Safety => []RetainedExplained
BY InitRetained, StepRetained, TypeCorrect, PTL DEF Safety

-----------------------------------------------------------------------------
(* The broker has the bridge online exactly while it is connected, because  *)
(* mqtt_connect and mqtt_disconnect publish on the connected side of their  *)
(* transitions.                                                             *)
THEOREM StatusCorrect == Safety => []StatusTrue
<1>1. Init => StatusTrue
  BY DEF Init, StatusTrue, Connected
<1>2. StatusTrue /\ [Next]_vars => StatusTrue'
  <2> SUFFICES ASSUME StatusTrue, [Next]_vars PROVE StatusTrue'
    OBVIOUS
  <2>1. CASE Connect
    BY <2>1 DEF Connect, StatusTrue, Connected
  <2>2. CASE Disconnect
    BY <2>2 DEF Disconnect, StatusTrue, Connected
  <2>3. CASE UNCHANGED <<mqtt, status>>
    BY <2>3 DEF StatusTrue, Connected
  <2>4. Connect \/ Disconnect \/ UNCHANGED <<mqtt, status>>
    BY DEF Next, vars, brokerVars, AddNode, SetState, RemoveNode, ComputeCaps,
           PublishNow, PutOff, PublishAllNow, PutAllOff, NetUp, Task, Flush, NodeLeft
  <2> QED
    BY <2>1, <2>2, <2>3, <2>4
<1> QED
  BY <1>1, <1>2, PTL DEF Safety

-----------------------------------------------------------------------------
(* What WaitingPublished rests on besides the task's fairness.             *)

(* The task, which goes by pending_count, runs exactly if a node waits.    *)
TaskSeesAll == pendingCount > 0 <=> PendingNodes # {}

(* While MQTT is up, one run of the task takes exactly the READY nodes out *)
(* of the list, and publishes them.                                        *)
TaskPublishes ==
  [][Connected /\ Task =>
       /\ PendingNodes' = PendingNodes \ ReadyNodes
       /\ \A a \in PendingNodes \intersect ReadyNodes : caps[a] \subseteq retained'[a]]_vars

LEMMA FlushLeaves ==
  ASSUME TypeOK, Connected, Flush
  PROVE  PendingNodes' = PendingNodes \ ReadyNodes
<1>1. PendingSlots' = PendingSlots \ Done
  BY DEF Flush, PendingSlots, Done
<1>2. \A s \in PendingSlots' : pending'[s] = pending[s]
  BY <1>1 DEF Flush, PendingSlots
<1>3. Done = {s \in PendingSlots : pending[s] \in ReadyNodes}
  BY DEF Done
<1> QED
  BY <1>1, <1>2, <1>3 DEF PendingNodes

(* ha_disc_task and ha_disc_flush_pending: once MQTT is up, a READY node   *)
(* that waits is published by the next run of the task.                    *)
THEOREM OneTurnPublishes == Safety => []TaskSeesAll /\ TaskPublishes
<1>1. ListInv => TaskSeesAll
  <2> SUFFICES ASSUME ListInv PROVE TaskSeesAll
    OBVIOUS
  <2>1. IsFiniteSet(PendingSlots) /\ pendingCount = Cardinality(PendingSlots)
    BY SlotsFinite DEF ListInv, CountExact, PendingSlots
  <2>2. pendingCount = 0 <=> PendingSlots = {}
    BY <2>1, FS_EmptySet
  <2>3. PendingSlots = {} <=> PendingNodes = {}
    BY DEF PendingNodes
  <2>4. pendingCount \in Nat
    BY <2>1, FS_CardinalityType
  <2>5. pendingCount > 0 <=> pendingCount # 0
    BY <2>4, SMT
  <2> QED
    BY <2>2, <2>3, <2>5 DEF TaskSeesAll
<1>2. ASSUME TypeOK, Connected, Task
      PROVE  /\ PendingNodes' = PendingNodes \ ReadyNodes
             /\ \A a \in PendingNodes \intersect ReadyNodes : caps[a] \subseteq retained'[a]
  <2>1. Flush
    BY <1>2 DEF Task
  <2>2. PendingNodes' = PendingNodes \ ReadyNodes
    BY <1>2, <2>1, FlushLeaves
  <2>3. ASSUME NEW a \in PendingNodes \intersect ReadyNodes
        PROVE  caps[a] \subseteq retained'[a]
    <3>1. a \in PendingNodes \ PendingNodes'
      BY <2>2
    <3> QED
      BY <1>2, <2>1, <3>1, FlushPublishes
  <2> QED
    BY <2>2, <2>3
<1>3. TypeOK /\ [Next]_vars =>
        [Connected /\ Task =>
           /\ PendingNodes' = PendingNodes \ ReadyNodes
           /\ \A a \in PendingNodes \intersect ReadyNodes :
                caps[a] \subseteq retained'[a]]_vars
  BY <1>2
<1> QED
  BY <1>1, <1>3, ListInvariance, TypeCorrect, PTL DEF Safety, TaskPublishes

=============================================================================

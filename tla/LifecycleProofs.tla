-------------------------- MODULE LifecycleProofs --------------------------
(***************************************************************************)
(* Proofs of the safety properties of Lifecycle, for any devices, any size *)
(* of the two tables, any number of retries and any time-out.              *)
(***************************************************************************)
EXTENDS Lifecycle, FiniteSetTheorems, WellFoundedInduction, TLAPS

Safety == Init /\ [][Next]_vars

(* UniqueEntries without counting. *)
NodesUnique == \A i, j \in ValidNodes : nodes[i].addr = nodes[j].addr => i = j
CtxsUnique  == \A i, j \in ActiveCtxs : ctxs[i].addr = ctxs[j].addr => i = j

(* FAILED is a stage that a poll passes through: a context that reaches it *)
(* is freed by the same poll.                                              *)
NeverKeptFailed == \A i \in ActiveCtxs : ctxs[i].stage \in INIT .. COMPLETE

IInv == TypeOK /\ NodesUnique /\ CtxsUnique /\ NeverKeptFailed /\ CountsMatch

-----------------------------------------------------------------------------
LEMMA LowestIsOne ==
  ASSUME NEW S \in SUBSET Nat, S # {}
  PROVE  Lowest(S) \in S
<1> DEFINE R == OpToRel(<, Nat)
<1>1. PICK x \in S : \A y \in S : ~ (<<y, x>> \in R)
  <2> HIDE DEF R
  <2>1. IsWellFoundedOn(R, Nat)
    BY NatLessThanWellFounded DEF R
  <2> QED
    BY <2>1, WFMin
<1>2. \A y \in S : ~ (y < x)
  BY <1>1 DEF OpToRel
<1>3. \A y \in S : x <= y
  BY <1>2, SMT
<1> QED
  BY <1>3 DEF Lowest

LEMMA TablesFinite ==
  /\ \A S \in SUBSET NodeSlots : /\ S \subseteq Nat /\ IsFiniteSet(S)
                                 /\ Cardinality(S) \in 0 .. MaxNodes
  /\ \A S \in SUBSET CtxSlots : /\ S \subseteq Nat /\ IsFiniteSet(S)
                                /\ Cardinality(S) \in 0 .. MaxInterviews
<1>1. ASSUME NEW n \in Nat \ {0}, NEW S \in SUBSET (1 .. n)
      PROVE  S \subseteq Nat /\ IsFiniteSet(S) /\ Cardinality(S) \in 0 .. n
  <2>1. IsFiniteSet(1 .. n) /\ Cardinality(1 .. n) = n
    <3>1. 1 \in Int /\ n \in Int /\ ~ (1 > n) /\ n - 1 + 1 = n
      BY SMT
    <3> QED
      BY <3>1, FS_Interval
  <2>2. IsFiniteSet(S) /\ Cardinality(S) <= n
    BY <2>1, FS_Subset
  <2>3. Cardinality(S) \in Nat
    BY <2>2, FS_CardinalityType
  <2>4. S \subseteq Nat
    BY SMT
  <2> QED
    BY <2>2, <2>3, <2>4, SMT
<1> QED
  BY <1>1, MaxNodesAssumption, MaxInterviewsAssumption DEF NodeSlots, CtxSlots

LEMMA Occupied ==
  /\ ValidNodes \in SUBSET NodeSlots /\ ActiveCtxs \in SUBSET CtxSlots
  /\ \A a : NodesOf(a) \subseteq ValidNodes /\ CtxsOf(a) \subseteq ActiveCtxs
BY DEF ValidNodes, ActiveCtxs, NodesOf, CtxsOf

(* What the entries of the tables are. *)
LEMMA NodeTypes ==
  ASSUME TypeOK, NEW i \in NodeSlots
  PROVE  /\ i \in ValidNodes => nodes[i] \in Node
         /\ i \notin ValidNodes => nodes[i] = NoNode
<1>1. nodes[i] = NoNode \/ nodes[i] \in Node
  BY DEF TypeOK
<1>2. CASE nodes[i] = NoNode
  BY <1>2 DEF NoNode, ValidNodes
<1>3. CASE nodes[i] \in Node
  BY <1>3 DEF Node, ValidNodes
<1> QED
  BY <1>1, <1>2, <1>3

LEMMA CtxTypes ==
  ASSUME TypeOK, NEW i \in CtxSlots
  PROVE  /\ i \in ActiveCtxs => ctxs[i] \in Ctx
         /\ i \notin ActiveCtxs => ctxs[i] = NoCtx
<1>1. ctxs[i] = NoCtx \/ ctxs[i] \in Ctx
  BY DEF TypeOK
<1>2. CASE ctxs[i] = NoCtx
  BY <1>2 DEF NoCtx, ActiveCtxs
<1>3. CASE ctxs[i] \in Ctx
  BY <1>3 DEF Ctx, ActiveCtxs
<1> QED
  BY <1>1, <1>2, <1>3

-----------------------------------------------------------------------------
(* A step that only changes what contexts hold besides their address keeps *)
(* the interviews' table; likewise for the registry's.                     *)

CtxPart  == CtxsUnique /\ activeCount = Cardinality(ActiveCtxs)
NodePart == NodesUnique /\ nodeCount = Cardinality(ValidNodes)

LEMMA CtxsKept ==
  ASSUME CtxPart, UNCHANGED activeCount,
         \A i \in CtxSlots : ctxs'[i].active = ctxs[i].active,
         \A i \in ActiveCtxs : ctxs'[i].addr = ctxs[i].addr
  PROVE  CtxPart' /\ ActiveCtxs' = ActiveCtxs
<1>1. ActiveCtxs' = ActiveCtxs
  BY DEF ActiveCtxs
<1>2. CtxsUnique'
  BY <1>1 DEF CtxPart, CtxsUnique
<1> QED
  BY <1>1, <1>2 DEF CtxPart

LEMMA NodesKept ==
  ASSUME NodePart, UNCHANGED nodeCount,
         \A i \in NodeSlots : nodes'[i].valid = nodes[i].valid,
         \A i \in ValidNodes : nodes'[i].addr = nodes[i].addr
  PROVE  NodePart' /\ ValidNodes' = ValidNodes
<1>1. ValidNodes' = ValidNodes
  BY DEF ValidNodes
<1>2. NodesUnique'
  BY <1>1 DEF NodePart, NodesUnique
<1> QED
  BY <1>1, <1>2 DEF NodePart

(* Taking an entry for an address that has none, and freeing entries.      *)

LEMMA CtxTaken ==
  ASSUME TypeOK, CtxPart, NEW a \in Addr, CtxsOf(a) = {}, NEW s \in CtxSlots \ ActiveCtxs,
         ctxs' = [ctxs EXCEPT ![s] = NewCtx(a)], activeCount' = activeCount + 1
  PROVE  CtxPart' /\ activeCount' \in 0 .. MaxInterviews /\ ActiveCtxs' = ActiveCtxs \union {s}
<1>1. /\ ctxs'[s] = NewCtx(a) /\ NewCtx(a).active /\ NewCtx(a).addr = a
      /\ \A i \in CtxSlots : i # s => ctxs'[i] = ctxs[i]
  BY DEF TypeOK, NewCtx
<1>2. ActiveCtxs' = ActiveCtxs \union {s}
  BY <1>1 DEF ActiveCtxs
<1>3. \A i \in ActiveCtxs : i \in CtxSlots /\ i # s /\ ctxs[i].addr # a
  BY DEF CtxsOf, ActiveCtxs
<1>4. CtxsUnique'
  BY <1>1, <1>2, <1>3 DEF CtxPart, CtxsUnique
<1>5. activeCount' = Cardinality(ActiveCtxs')
  BY <1>2, Occupied, TablesFinite, FS_AddElement DEF CtxPart
<1>6. ActiveCtxs' \in SUBSET CtxSlots
  BY <1>2, Occupied
<1>7. activeCount' \in 0 .. MaxInterviews
  BY <1>5, <1>6, TablesFinite
<1> QED
  BY <1>2, <1>4, <1>5, <1>7 DEF CtxPart

LEMMA NodeTaken ==
  ASSUME TypeOK, NodePart, NEW a \in Addr, NodesOf(a) = {}, NEW s \in NodeSlots \ ValidNodes,
         NEW n \in Node, n.addr = a,
         nodes' = [nodes EXCEPT ![s] = n], nodeCount' = nodeCount + 1
  PROVE  NodePart' /\ nodeCount' \in 0 .. MaxNodes /\ ValidNodes' = ValidNodes \union {s}
<1>1. /\ nodes'[s] = n /\ n.valid
      /\ \A i \in NodeSlots : i # s => nodes'[i] = nodes[i]
  BY DEF TypeOK, Node
<1>2. ValidNodes' = ValidNodes \union {s}
  BY <1>1 DEF ValidNodes
<1>3. \A i \in ValidNodes : i \in NodeSlots /\ i # s /\ nodes[i].addr # a
  BY DEF NodesOf, ValidNodes
<1>4. NodesUnique'
  BY <1>1, <1>2, <1>3 DEF NodePart, NodesUnique
<1>5. nodeCount' = Cardinality(ValidNodes')
  BY <1>2, Occupied, TablesFinite, FS_AddElement DEF NodePart
<1>6. ValidNodes' \in SUBSET NodeSlots
  BY <1>2, Occupied
<1>7. nodeCount' \in 0 .. MaxNodes
  BY <1>5, <1>6, TablesFinite
<1> QED
  BY <1>2, <1>4, <1>5, <1>7 DEF NodePart

LEMMA CtxsFreed ==
  ASSUME TypeOK, CtxPart, NEW F \in SUBSET ActiveCtxs,
         ActiveCtxs' = ActiveCtxs \ F,
         \A i \in ActiveCtxs \ F : ctxs'[i].addr = ctxs[i].addr,
         activeCount' = activeCount - Cardinality(F)
  PROVE  CtxPart' /\ activeCount' \in 0 .. MaxInterviews
<1>1. CtxsUnique'
  BY DEF CtxPart, CtxsUnique
<1>2. activeCount' = Cardinality(ActiveCtxs')
  <2>1. IsFiniteSet(ActiveCtxs) /\ IsFiniteSet(F)
    BY Occupied, TablesFinite
  <2>2. Cardinality(ActiveCtxs \ F) = Cardinality(ActiveCtxs) - Cardinality(ActiveCtxs \intersect F)
    BY <2>1, FS_Difference, Zenon
  <2>3. ActiveCtxs \intersect F = F
    OBVIOUS
  <2>4. activeCount = Cardinality(ActiveCtxs)
    BY DEF CtxPart
  <2> QED
    BY <2>2, <2>3, <2>4
<1>3. ActiveCtxs' \in SUBSET CtxSlots
  BY Occupied
<1> QED
  BY <1>1, <1>2, <1>3, TablesFinite DEF CtxPart

LEMMA NodeFreed ==
  ASSUME TypeOK, NodePart, NEW s \in ValidNodes,
         nodes' = [nodes EXCEPT ![s] = NoNode], nodeCount' = nodeCount - 1
  PROVE  NodePart' /\ nodeCount' \in 0 .. MaxNodes /\ ValidNodes' = ValidNodes \ {s}
<1>1. /\ ~nodes'[s].valid
      /\ \A i \in NodeSlots : i # s => nodes'[i] = nodes[i]
  BY Occupied DEF TypeOK, NoNode
<1>2. ValidNodes' = ValidNodes \ {s}
  BY <1>1 DEF ValidNodes
<1>3. NodesUnique'
  BY <1>1, <1>2, Occupied DEF NodePart, NodesUnique
<1>4. nodeCount' = Cardinality(ValidNodes')
  BY <1>2, Occupied, TablesFinite, FS_RemoveElement DEF NodePart
<1>5. ValidNodes' \in SUBSET NodeSlots
  BY <1>2, Occupied
<1> QED
  BY <1>2, <1>3, <1>4, <1>5, TablesFinite DEF NodePart

-----------------------------------------------------------------------------
(* The poll of one context: what Timed and Advanced make of it. *)

LEMMA TimedType ==
  ASSUME NEW c \in Ctx, c.stage \in INIT .. COMPLETE
  PROVE  Timed(c) \in Ctx /\ Timed(c).addr = c.addr
<1> DEFINE w == c.whole /\ c.stage \in {INIT, BINDINGS}
<1>1. /\ c.active = TRUE /\ c.addr \in Addr /\ c.stage \in INIT .. FAILED
      /\ c.retry \in 0 .. MaxRetries /\ c.age \in 0 .. Timeout + 1
      /\ c.late \in BOOLEAN /\ c.whole \in BOOLEAN
  BY DEF Ctx
<1>2. CASE ~c.late
  BY <1>2 DEF Timed
<1>3. CASE c.late /\ c.retry < MaxRetries
  <2>1. Timed(c) = [c EXCEPT !.retry = @ + 1, !.late = FALSE]
    BY <1>3 DEF Timed
  <2>2. c.retry + 1 \in 0 .. MaxRetries
    BY <1>1, <1>3, MaxRetriesAssumption, SMT
  <2> QED
    BY <2>1, <2>2 DEF Ctx
<1>4. CASE c.late /\ ~ (c.retry < MaxRetries)
  <2>1. Timed(c) = [c EXCEPT !.retry = 0, !.late = FALSE, !.stage = @ + 1, !.whole = w]
    BY <1>4 DEF Timed
  <2>2. w \in BOOLEAN
    OBVIOUS
  <2>3. c.stage + 1 \in INIT .. FAILED /\ 0 \in 0 .. MaxRetries
    BY MaxRetriesAssumption, SMT DEF INIT, COMPLETE, FAILED
  <2> HIDE DEF w
  <2> QED
    BY <2>1, <2>2, <2>3 DEF Ctx
<1> QED
  BY <1>2, <1>3, <1>4

LEMMA AdvancedType ==
  ASSUME NEW c \in Ctx
  PROVE  \/ Advanced(c) = NoCtx
         \/ /\ Advanced(c) \in Ctx /\ Advanced(c).addr = c.addr
            /\ Advanced(c).stage \in INIT .. COMPLETE
<1> DEFINE l == c.late /\ c.stage = BINDINGS
<1>1. CASE c.stage \in {COMPLETE, FAILED}
  BY <1>1 DEF Advanced
<1>2. CASE c.stage \notin {COMPLETE, FAILED}
  <2>1. Advanced(c) = [c EXCEPT !.stage = @ + 1, !.late = l]
    BY <1>2 DEF Advanced
  <2>2. l \in BOOLEAN
    OBVIOUS
  <2>3. c.stage \in INIT .. FAILED
    BY DEF Ctx
  <2>4. c.stage + 1 \in INIT .. COMPLETE /\ c.stage + 1 \in INIT .. FAILED
    BY <1>2, <2>3, SMT DEF INIT, COMPLETE, FAILED
  <2> HIDE DEF l
  <2> QED
    BY <2>1, <2>2, <2>4 DEF Ctx
<1> QED
  BY <1>1, <1>2

LEMMA PolledType ==
  ASSUME TypeOK, NeverKeptFailed, NEW i \in CtxSlots
  PROVE  \/ Polled(i) = NoCtx
         \/ /\ i \in ActiveCtxs
            /\ Polled(i) \in Ctx /\ Polled(i).addr = ctxs[i].addr
            /\ Polled(i).stage \in INIT .. COMPLETE
<1>1. CASE i \notin Ongoing
  BY <1>1 DEF Polled
<1>2. CASE i \in Ongoing
  <2>1. i \in ActiveCtxs /\ Polled(i) = Advanced(Timed(ctxs[i]))
    BY <1>2 DEF Polled, Ongoing
  <2>2. ctxs[i] \in Ctx /\ ctxs[i].stage \in INIT .. COMPLETE
    BY <2>1, CtxTypes DEF NeverKeptFailed
  <2>3. Timed(ctxs[i]) \in Ctx /\ Timed(ctxs[i]).addr = ctxs[i].addr
    BY <2>2, TimedType
  <2> QED
    BY <2>1, <2>3, AdvancedType
<1> QED
  BY <1>1, <1>2

(* A stage that a node goes through leaves it a node of the same address;  *)
(* only COMPLETE makes it READY.                                           *)
LEMMA LearntType ==
  ASSUME NEW n \in Node, NEW stage
  PROVE  /\ Learnt(n, stage) \in Node
         /\ Learnt(n, stage).addr = n.addr
         /\ stage # COMPLETE /\ n.state # "READY" => Learnt(n, stage).state # "READY"
<1> DEFINE L == Learnt(n, stage)
<1>0. n.state \in NodeStates /\ n.known \in SUBSET Facts
  BY DEF Node
<1>1. CASE stage = ACTIVE_EP
  <2>1. L = [n EXCEPT !.known = @ \union {"endpoints"}]
    BY <1>1 DEF Learnt, ACTIVE_EP, SIMPLE_DESC, BASIC_ATTR, COMPLETE, FAILED
  <2> QED
    BY <2>1 DEF Node, Facts
<1>2. CASE stage = SIMPLE_DESC
  <2>1. L = n \/ L = [n EXCEPT !.known = @ \union {"clusters"}]
    BY <1>2 DEF Learnt, ACTIVE_EP, SIMPLE_DESC, BASIC_ATTR, COMPLETE, FAILED
  <2> QED
    BY <2>1 DEF Node, Facts
<1>3. CASE stage = BASIC_ATTR
  <2>1. L = [n EXCEPT !.known = @ \union {"metadata"}]
    BY <1>3 DEF Learnt, ACTIVE_EP, SIMPLE_DESC, BASIC_ATTR, COMPLETE, FAILED
  <2> QED
    BY <2>1 DEF Node, Facts
<1>4. CASE stage = COMPLETE
  <2>1. L = [n EXCEPT !.state = "READY"]
    BY <1>4 DEF Learnt, ACTIVE_EP, SIMPLE_DESC, BASIC_ATTR, COMPLETE, FAILED
  <2> QED
    BY <1>4, <2>1 DEF Node, NodeStates
<1>5. CASE stage = FAILED
  <2>1. L = [n EXCEPT !.state = "STALE"]
    BY <1>5 DEF Learnt, ACTIVE_EP, SIMPLE_DESC, BASIC_ATTR, COMPLETE, FAILED
  <2> QED
    BY <2>1 DEF Node, NodeStates
<1>6. CASE stage \notin {ACTIVE_EP, SIMPLE_DESC, BASIC_ATTR, COMPLETE, FAILED}
  <2>1. L = n
    BY <1>6 DEF Learnt
  <2> QED
    BY <2>1
<1> QED
  BY <1>1, <1>2, <1>3, <1>4, <1>5, <1>6

(* What a poll makes of an entry of the registry. *)
LEMMA PolledNode ==
  ASSUME TypeOK, InterviewProcess, NEW j \in NodeSlots
  PROVE  \/ nodes'[j] = nodes[j]
         \/ /\ j \in ValidNodes
            /\ \E i \in Ongoing : /\ j \in NodesOf(ctxs[i].addr)
                                  /\ nodes'[j] = Learnt(nodes[j], Timed(ctxs[i]).stage)
<1> DEFINE S == {i \in Ongoing : j \in NodesOf(ctxs[i].addr)}
<1>1. nodes'[j] = IF S = {} THEN nodes[j] ELSE Learnt(nodes[j], Timed(ctxs[Lowest(S)]).stage)
  BY DEF InterviewProcess
<1>2. CASE S = {}
  BY <1>1, <1>2
<1>3. CASE S # {}
  <2>1. S \in SUBSET Nat
    BY Occupied, TablesFinite DEF Ongoing
  <2> HIDE DEF S
  <2>2. Lowest(S) \in S
    BY <1>3, <2>1, LowestIsOne
  <2> QED
    BY <1>1, <1>3, <2>2, Occupied DEF S
<1> QED
  BY <1>2, <1>3

-----------------------------------------------------------------------------
LEMMA InitIInv == Init => IInv
<1> SUFFICES ASSUME Init PROVE IInv
  OBVIOUS
<1> USE DEF Init
<1>1. ValidNodes = {} /\ ActiveCtxs = {}
  BY DEF ValidNodes, ActiveCtxs, NoNode, NoCtx
<1>2. 0 \in 0 .. MaxNodes /\ 0 \in 0 .. MaxInterviews
  BY MaxNodesAssumption, MaxInterviewsAssumption, SMT
<1>3. TypeOK
  BY <1>2 DEF TypeOK
<1>4. NodesUnique /\ CtxsUnique /\ NeverKeptFailed
  BY <1>1 DEF NodesUnique, CtxsUnique, NeverKeptFailed
<1>5. CountsMatch
  BY <1>1, FS_EmptySet DEF CountsMatch
<1> QED
  BY <1>3, <1>4, <1>5 DEF IInv

LEMMA Parts == IInv <=> TypeOK /\ NodePart /\ CtxPart /\ NeverKeptFailed
BY DEF IInv, NodePart, CtxPart, CountsMatch

LEMMA AddNodeInv ==
  ASSUME IInv, NEW a \in Addr, AddNode(a)
  PROVE  IInv'
<1> USE DEF AddNode
<1> DEFINE s == Lowest(NodeSlots \ ValidNodes)
           n == [valid |-> TRUE, addr |-> a, state |-> "NEW", known |-> {}]
<1>0. TypeOK /\ NodePart /\ CtxPart /\ NeverKeptFailed
  BY Parts
<1>1. s \in NodeSlots \ ValidNodes
  <2>1. NodeSlots \ ValidNodes \in SUBSET Nat /\ NodeSlots \ ValidNodes # {}
    BY Occupied, TablesFinite
  <2> QED
    BY <2>1, LowestIsOne
<1>2. n \in Node /\ n.addr = a
  BY DEF Node, NodeStates
<1> HIDE DEF s, n
<1>3. nodes' = [nodes EXCEPT ![s] = n]
  BY DEF s, n
<1>4. NodePart' /\ nodeCount' \in 0 .. MaxNodes
  <2>1. NodesOf(a) = {} /\ nodeCount' = nodeCount + 1
    OBVIOUS
  <2> HIDE DEF AddNode
  <2> QED
    BY <1>0, <1>1, <1>2, <1>3, <2>1, NodeTaken
<1>5. \A i \in CtxSlots :
        /\ ctxs'[i] \in {NoCtx} \union Ctx
        /\ ctxs'[i].active = ctxs[i].active
        /\ i \in ActiveCtxs => /\ ctxs'[i].addr = ctxs[i].addr
                               /\ ctxs'[i].stage = ctxs[i].stage
  <2> SUFFICES ASSUME NEW i \in CtxSlots
               PROVE  /\ ctxs'[i] \in {NoCtx} \union Ctx
                      /\ ctxs'[i].active = ctxs[i].active
                      /\ i \in ActiveCtxs => /\ ctxs'[i].addr = ctxs[i].addr
                                             /\ ctxs'[i].stage = ctxs[i].stage
    OBVIOUS
  <2>1. CASE ctxs'[i] = ctxs[i]
    BY <1>0, <2>1 DEF TypeOK
  <2>2. CASE i \in ActiveCtxs /\ ctxs'[i] = [ctxs[i] EXCEPT !.whole = FALSE]
    <3>1. ctxs[i] \in Ctx
      BY <1>0, <2>2, CtxTypes
    <3> QED
      BY <2>2, <3>1 DEF Ctx
  <2> QED
    BY <2>1, <2>2, Occupied
<1>6. ctxs' \in [CtxSlots -> {NoCtx} \union Ctx]
  BY <1>5
<1>7. CtxPart' /\ ActiveCtxs' = ActiveCtxs
  <2>1. \A i \in CtxSlots : ctxs'[i].active = ctxs[i].active
    BY <1>5
  <2>2. \A i \in ActiveCtxs : ctxs'[i].addr = ctxs[i].addr
    BY <1>5, Occupied
  <2>3. UNCHANGED activeCount
    OBVIOUS
  <2> QED
    BY <1>0, <2>1, <2>2, <2>3, CtxsKept
<1>8. NeverKeptFailed'
  BY <1>0, <1>5, <1>7, Occupied DEF NeverKeptFailed
<1>9. TypeOK'
  BY <1>0, <1>2, <1>3, <1>4, <1>6 DEF TypeOK
<1> QED
  BY <1>4, <1>7, <1>8, <1>9 DEF IInv, NodePart, CtxPart, CountsMatch

LEMMA RemoveNodeInv ==
  ASSUME IInv, NEW a \in Addr, RemoveNode(a)
  PROVE  IInv'
<1> USE DEF RemoveNode
<1> DEFINE s == Lowest(NodesOf(a))
<1>0. TypeOK /\ NodePart /\ CtxPart /\ NeverKeptFailed
  BY Parts
<1>1. s \in ValidNodes
  <2>1. NodesOf(a) \in SUBSET Nat /\ NodesOf(a) \subseteq ValidNodes
    BY Occupied, TablesFinite
  <2> QED
    BY <2>1, LowestIsOne
<1> HIDE DEF s
<1>2. nodes' = [nodes EXCEPT ![s] = NoNode]
  BY DEF s
<1>3. NodePart' /\ nodeCount' \in 0 .. MaxNodes
  BY <1>0, <1>1, <1>2, NodeFreed
<1>4. CtxPart' /\ NeverKeptFailed'
  BY <1>0 DEF CtxPart, CtxsUnique, NeverKeptFailed, ActiveCtxs
<1>5. TypeOK'
  BY <1>0, <1>2, <1>3 DEF TypeOK
<1> QED
  BY <1>3, <1>4, <1>5 DEF IInv, NodePart, CtxPart, CountsMatch

(* interview_start writes the node's state; its table stays.               *)
LEMMA SetStateKeeps ==
  ASSUME IInv, NEW S \in SUBSET ValidNodes, NEW st \in NodeStates, SetState(S, st),
         UNCHANGED nodeCount
  PROVE  nodes' \in [NodeSlots -> {NoNode} \union Node] /\ NodePart'
<1>0. TypeOK /\ NodePart
  BY Parts
<1>1. ASSUME NEW i \in NodeSlots
      PROVE  /\ nodes'[i] \in {NoNode} \union Node
             /\ nodes'[i].valid = nodes[i].valid
             /\ i \in ValidNodes => nodes'[i].addr = nodes[i].addr
  <2>1. CASE i \in S
    <3>1. nodes[i] \in Node /\ nodes'[i] = [nodes[i] EXCEPT !.state = st]
      BY <1>0, <2>1, NodeTypes DEF SetState
    <3> QED
      BY <3>1 DEF Node
  <2>2. CASE i \notin S
    BY <1>0, <2>2 DEF SetState, TypeOK
  <2> QED
    BY <2>1, <2>2
<1>2. nodes' \in [NodeSlots -> {NoNode} \union Node]
  BY <1>1 DEF SetState
<1>3. NodePart'
  BY <1>0, <1>1, NodesKept, Occupied
<1> QED
  BY <1>2, <1>3

LEMMA InterviewStartInv ==
  ASSUME IInv, NEW a \in Addr, InterviewStart(a)
  PROVE  IInv'
<1> USE DEF InterviewStart
<1> DEFINE s == Lowest(CtxSlots \ ActiveCtxs)
<1>0. TypeOK /\ NodePart /\ CtxPart /\ NeverKeptFailed
  BY Parts
<1>1. s \in CtxSlots \ ActiveCtxs
  <2>1. CtxSlots \ ActiveCtxs \in SUBSET Nat /\ CtxSlots \ ActiveCtxs # {}
    BY Occupied, TablesFinite
  <2> QED
    BY <2>1, LowestIsOne
<1> HIDE DEF s
<1>2. ctxs' = [ctxs EXCEPT ![s] = NewCtx(a)]
  BY DEF s
<1>3. NewCtx(a) \in Ctx /\ NewCtx(a).stage \in INIT .. COMPLETE
  <2>1. /\ INIT \in INIT .. FAILED /\ INIT \in INIT .. COMPLETE
        /\ 0 \in 0 .. MaxRetries /\ 0 \in 0 .. Timeout + 1
    BY MaxRetriesAssumption, TimeoutAssumption, SMT DEF INIT, FAILED, COMPLETE
  <2> QED
    BY <2>1 DEF NewCtx, Ctx
<1>4. CtxPart' /\ activeCount' \in 0 .. MaxInterviews /\ ActiveCtxs' = ActiveCtxs \union {s}
  BY <1>0, <1>1, <1>2, CtxTaken
<1>5. NeverKeptFailed'
  <2> SUFFICES ASSUME NEW i \in ActiveCtxs' PROVE ctxs'[i].stage \in INIT .. COMPLETE
    BY DEF NeverKeptFailed
  <2>1. CASE i = s
    BY <1>0, <1>1, <1>2, <1>3, <2>1 DEF TypeOK
  <2>2. CASE i # s
    BY <1>0, <1>2, <1>4, <2>2, Occupied DEF TypeOK, NeverKeptFailed
  <2> QED
    BY <2>1, <2>2
<1>6. nodes' \in [NodeSlots -> {NoNode} \union Node] /\ NodePart'
  BY SetStateKeeps, Occupied DEF NodeStates
<1>7. TypeOK'
  BY <1>0, <1>2, <1>3, <1>4, <1>6 DEF TypeOK
<1> QED
  BY <1>4, <1>5, <1>6, <1>7 DEF IInv, NodePart, CtxPart, CountsMatch

LEMMA InterviewCancelInv ==
  ASSUME IInv, NEW a \in Addr, InterviewCancel(a)
  PROVE  IInv'
<1> USE DEF InterviewCancel
<1> DEFINE s == Lowest(CtxsOf(a))
<1>0. TypeOK /\ NodePart /\ CtxPart /\ NeverKeptFailed
  BY Parts
<1>1. s \in ActiveCtxs
  <2>1. CtxsOf(a) \in SUBSET Nat /\ CtxsOf(a) \subseteq ActiveCtxs
    BY Occupied, TablesFinite
  <2> QED
    BY <2>1, LowestIsOne
<1> HIDE DEF s
<1>2. ctxs' = [ctxs EXCEPT ![s] = NoCtx]
  BY DEF s
<1>3. /\ ~ctxs'[s].active
      /\ \A i \in CtxSlots : i # s => ctxs'[i] = ctxs[i]
  BY <1>0, <1>1, <1>2, Occupied DEF TypeOK, NoCtx
<1>4. ActiveCtxs' = ActiveCtxs \ {s}
  BY <1>3 DEF ActiveCtxs
<1>5. activeCount' = activeCount - Cardinality({s})
  BY FS_Singleton
<1>6. CtxPart' /\ activeCount' \in 0 .. MaxInterviews
  <2>1. \A i \in ActiveCtxs \ {s} : ctxs'[i].addr = ctxs[i].addr
    BY <1>3, Occupied
  <2>2. {s} \in SUBSET ActiveCtxs
    BY <1>1
  <2> QED
    BY <1>0, <1>4, <1>5, <2>1, <2>2, CtxsFreed
<1>7. NeverKeptFailed'
  BY <1>0, <1>3, <1>4, Occupied DEF NeverKeptFailed
<1>8. NodePart'
  BY <1>0 DEF NodePart, NodesUnique, ValidNodes
<1>9. TypeOK'
  BY <1>0, <1>2, <1>6 DEF TypeOK
<1> QED
  BY <1>6, <1>7, <1>8, <1>9 DEF IInv, NodePart, CtxPart, CountsMatch

(* A poll frees the contexts it counts, and touches no address.            *)
LEMMA InterviewProcessInv ==
  ASSUME IInv, InterviewProcess
  PROVE  IInv'
<1> DEFINE F == {i \in ActiveCtxs : ~Polled(i).active}
<1>0. TypeOK /\ NodePart /\ CtxPart /\ NeverKeptFailed
  BY Parts
<1>1. ctxs' = [i \in CtxSlots |-> Polled(i)] /\ activeCount' = activeCount - Cardinality(F)
  BY DEF InterviewProcess
<1>2. \A i \in CtxSlots :
        \/ ctxs'[i] = NoCtx /\ ~ctxs'[i].active
        \/ /\ i \in ActiveCtxs /\ ctxs'[i] \in Ctx /\ ctxs'[i].active
           /\ ctxs'[i].addr = ctxs[i].addr /\ ctxs'[i].stage \in INIT .. COMPLETE
  <2> SUFFICES ASSUME NEW i \in CtxSlots
               PROVE  \/ ctxs'[i] = NoCtx /\ ~ctxs'[i].active
                      \/ /\ i \in ActiveCtxs /\ ctxs'[i] \in Ctx /\ ctxs'[i].active
                         /\ ctxs'[i].addr = ctxs[i].addr /\ ctxs'[i].stage \in INIT .. COMPLETE
    OBVIOUS
  <2>1. ctxs'[i] = Polled(i)
    BY <1>1
  <2>2. ~NoCtx.active /\ \A c \in Ctx : c.active
    BY DEF NoCtx, Ctx
  <2> QED
    BY <1>0, <2>1, <2>2, PolledType
<1>3. ActiveCtxs' = ActiveCtxs \ F
  BY <1>1, <1>2, Occupied DEF ActiveCtxs
<1>4. \A i \in ActiveCtxs \ F : /\ ctxs'[i].addr = ctxs[i].addr
                                /\ ctxs'[i].stage \in INIT .. COMPLETE
  BY <1>1, <1>2, Occupied
<1>5. CtxPart' /\ activeCount' \in 0 .. MaxInterviews
  <2>1. F \in SUBSET ActiveCtxs
    OBVIOUS
  <2> HIDE DEF F
  <2> QED
    BY <1>0, <1>1, <1>3, <1>4, <2>1, CtxsFreed
<1>6. NeverKeptFailed'
  BY <1>3, <1>4 DEF NeverKeptFailed
<1>7. \A j \in NodeSlots : /\ nodes'[j] \in {NoNode} \union Node
                           /\ nodes'[j].valid = nodes[j].valid
                           /\ j \in ValidNodes => nodes'[j].addr = nodes[j].addr
  <2> SUFFICES ASSUME NEW j \in NodeSlots
               PROVE  /\ nodes'[j] \in {NoNode} \union Node
                      /\ nodes'[j].valid = nodes[j].valid
                      /\ j \in ValidNodes => nodes'[j].addr = nodes[j].addr
    OBVIOUS
  <2>1. CASE nodes'[j] = nodes[j]
    BY <1>0, <2>1 DEF TypeOK
  <2>2. CASE j \in ValidNodes /\ \E stage : nodes'[j] = Learnt(nodes[j], stage)
    <3>1. nodes[j] \in Node
      BY <1>0, <2>2, NodeTypes
    <3>2. nodes'[j] \in Node /\ nodes'[j].addr = nodes[j].addr
      BY <2>2, <3>1, LearntType
    <3> QED
      BY <3>1, <3>2 DEF Node
  <2> QED
    BY <1>0, <2>1, <2>2, PolledNode
<1>8. nodes' \in [NodeSlots -> {NoNode} \union Node]
  <2>1. nodes' = [j \in NodeSlots |-> nodes'[j]]
    BY DEF InterviewProcess
  <2> QED
    BY <1>7, <2>1
<1>9. NodePart' /\ nodeCount' = nodeCount
  <2>1. \A j \in NodeSlots : nodes'[j].valid = nodes[j].valid
    BY <1>7
  <2>2. \A j \in ValidNodes : nodes'[j].addr = nodes[j].addr
    BY <1>7, Occupied
  <2>3. UNCHANGED nodeCount
    BY DEF InterviewProcess
  <2> QED
    BY <1>0, <2>1, <2>2, <2>3, NodesKept
<1>10. ctxs' \in [CtxSlots -> {NoCtx} \union Ctx]
  BY <1>1, <1>2
<1>11. TypeOK'
  BY <1>0, <1>5, <1>8, <1>9, <1>10 DEF TypeOK
<1> QED
  BY <1>5, <1>6, <1>9, <1>11 DEF IInv, NodePart, CtxPart, CountsMatch

LEMMA AgeBounded ==
  ASSUME NEW x \in 0 .. Timeout + 1
  PROVE  (IF x <= Timeout THEN x + 1 ELSE x) \in 0 .. Timeout + 1
<1>1. CASE x <= Timeout
  BY <1>1, TimeoutAssumption, SMT
<1>2. CASE ~ (x <= Timeout)
  BY <1>2, TimeoutAssumption, SMT
<1> QED
  BY <1>1, <1>2

LEMMA TickInv ==
  ASSUME IInv, Tick
  PROVE  IInv'
<1> USE DEF Tick
<1>0. TypeOK /\ NodePart /\ CtxPart /\ NeverKeptFailed
  BY Parts
<1>1. \A i \in CtxSlots :
        /\ ctxs'[i] \in {NoCtx} \union Ctx
        /\ ctxs'[i].active = ctxs[i].active
        /\ i \in ActiveCtxs => /\ ctxs'[i].addr = ctxs[i].addr
                               /\ ctxs'[i].stage = ctxs[i].stage
  <2> SUFFICES ASSUME NEW i \in CtxSlots
               PROVE  /\ ctxs'[i] \in {NoCtx} \union Ctx
                      /\ ctxs'[i].active = ctxs[i].active
                      /\ i \in ActiveCtxs => /\ ctxs'[i].addr = ctxs[i].addr
                                             /\ ctxs'[i].stage = ctxs[i].stage
    OBVIOUS
  <2>1. CASE i \notin ActiveCtxs
    BY <1>0, <2>1 DEF TypeOK
  <2>2. CASE i \in ActiveCtxs
    <3> DEFINE age == IF ctxs[i].age <= Timeout THEN ctxs[i].age + 1 ELSE ctxs[i].age
    <3>1. ctxs[i] \in Ctx
      BY <1>0, <2>2, CtxTypes
    <3>2. ctxs'[i] = [ctxs[i] EXCEPT !.age = age, !.late = TRUE]
      BY <2>2
    <3>3. age \in 0 .. Timeout + 1
      <4>1. ctxs[i].age \in 0 .. Timeout + 1
        BY <3>1 DEF Ctx
      <4> QED
        BY <4>1, AgeBounded
    <3> HIDE DEF age
    <3> QED
      BY <3>1, <3>2, <3>3 DEF Ctx
  <2> QED
    BY <2>1, <2>2
<1>2. ctxs' \in [CtxSlots -> {NoCtx} \union Ctx]
  BY <1>1
<1>3. CtxPart' /\ ActiveCtxs' = ActiveCtxs
  <2>1. \A i \in CtxSlots : ctxs'[i].active = ctxs[i].active
    BY <1>1
  <2>2. \A i \in ActiveCtxs : ctxs'[i].addr = ctxs[i].addr
    BY <1>1, Occupied
  <2>3. UNCHANGED activeCount
    OBVIOUS
  <2> QED
    BY <1>0, <2>1, <2>2, <2>3, CtxsKept
<1>4. NeverKeptFailed'
  BY <1>0, <1>1, <1>3, Occupied DEF NeverKeptFailed
<1>5. NodePart'
  BY <1>0 DEF NodePart, NodesUnique, ValidNodes
<1>6. TypeOK'
  BY <1>0, <1>2 DEF TypeOK
<1> QED
  BY <1>3, <1>4, <1>5, <1>6 DEF IInv, NodePart, CtxPart, CountsMatch

LEMMA RebootInv ==
  ASSUME IInv, Reboot
  PROVE  IInv'
<1> USE DEF Reboot
<1>1. ValidNodes' = {} /\ ActiveCtxs' = {}
  BY DEF ValidNodes, ActiveCtxs, NoNode, NoCtx
<1>2. 0 \in 0 .. MaxNodes /\ 0 \in 0 .. MaxInterviews
  BY MaxNodesAssumption, MaxInterviewsAssumption, SMT
<1>3. TypeOK'
  BY <1>2 DEF TypeOK
<1>4. NodesUnique' /\ CtxsUnique' /\ NeverKeptFailed'
  BY <1>1 DEF NodesUnique, CtxsUnique, NeverKeptFailed
<1>5. CountsMatch'
  BY <1>1, FS_EmptySet DEF CountsMatch
<1> QED
  BY <1>3, <1>4, <1>5 DEF IInv

LEMMA StepIInv == IInv /\ [Next]_vars => IInv'
<1> SUFFICES ASSUME IInv, [Next]_vars PROVE IInv'
  OBVIOUS
<1>1. ASSUME NEW a \in Addr, AddNode(a) PROVE IInv'
  BY <1>1, AddNodeInv
<1>2. ASSUME NEW a \in Addr, RemoveNode(a) PROVE IInv'
  BY <1>2, RemoveNodeInv
<1>3. ASSUME NEW a \in Addr, InterviewStart(a) PROVE IInv'
  BY <1>3, InterviewStartInv
<1>4. ASSUME NEW a \in Addr, InterviewCancel(a) PROVE IInv'
  BY <1>4, InterviewCancelInv
<1>5. CASE InterviewProcess
  BY <1>5, InterviewProcessInv
<1>6. CASE Tick
  BY <1>6, TickInv
<1>7. CASE Reboot
  BY <1>7, RebootInv
<1>8. CASE UNCHANGED vars
  <2>1. ValidNodes' = ValidNodes /\ ActiveCtxs' = ActiveCtxs
    BY <1>8 DEF vars, ValidNodes, ActiveCtxs
  <2> QED
    BY <1>8, <2>1 DEF vars, IInv, TypeOK, NodesUnique, CtxsUnique, NeverKeptFailed, CountsMatch
<1> QED
  BY <1>1, <1>2, <1>3, <1>4, <1>5, <1>6, <1>7, <1>8 DEF Next

THEOREM Invariance == Safety => []IInv
BY InitIInv, StepIInv, PTL DEF Safety

(* The tables and counters keep their types: no poll or call takes a       *)
(* counter below 0 or beyond its table, or an interview past its stages.   *)
THEOREM TypeCorrect == Safety => []TypeOK
BY Invariance, PTL DEF IInv

(* reg_add_node and interview_start look for the address first, so it never *)
(* has a second entry in either table, whatever was freed in between.       *)
THEOREM UniqueCorrect == Safety => []UniqueEntries
<1>1. ASSUME NEW S, \A x, y \in S : x = y PROVE Cardinality(S) <= 1
  <2>1. CASE S = {}
    <3>1. Cardinality(S) = 0
      BY <2>1, FS_EmptySet
    <3> QED
      BY <3>1, SMT
  <2>2. ASSUME NEW x \in S PROVE Cardinality(S) <= 1
    <3>1. S = {x}
      BY <1>1, <2>2
    <3>2. Cardinality(S) = 1
      BY <3>1, FS_Singleton
    <3> QED
      BY <3>2, SMT
  <2> QED
    BY <2>1, <2>2
<1>2. IInv => UniqueEntries
  <2> SUFFICES ASSUME IInv, NEW a \in Addr
               PROVE  Cardinality(NodesOf(a)) <= 1 /\ Cardinality(CtxsOf(a)) <= 1
    BY DEF UniqueEntries
  <2>1. \A i, j \in NodesOf(a) : i = j
    BY DEF IInv, NodesUnique, NodesOf
  <2>2. \A i, j \in CtxsOf(a) : i = j
    BY DEF IInv, CtxsUnique, CtxsOf
  <2> QED
    BY <1>1, <2>1, <2>2
<1> QED
  BY <1>2, Invariance, PTL

(* node_count and active_count are the tables' occupancy, on each of the   *)
(* ways in which an interview ends.                                        *)
THEOREM CountsCorrect == Safety => []CountsMatch
BY Invariance, PTL DEF IInv

-----------------------------------------------------------------------------
(* EventsTellChanges: what each step does to the set of registered devices *)
(* and to those that are READY.                                            *)

Told ==
  \A a \in Addr :
    /\ <<"ZB_DEVICE_JOINED", a>> \in emitted' <=> a \in Registered' \ Registered
    /\ <<"ZB_DEVICE_LEFT", a>> \in emitted' <=> a \in Registered \ Registered'
    /\ a \in Ready' \ Ready => <<"CAP_STATE_CHANGED", a>> \in emitted'

(* Nothing joined or left, and who is newly READY is told of. *)
LEMMA NothingToTell ==
  ASSUME Registered' = Registered,
         \A e \in emitted' : \E b : e = <<"CAP_STATE_CHANGED", b>>,
         \A a \in Ready' \ Ready : <<"CAP_STATE_CHANGED", a>> \in emitted'
  PROVE  Told
<1>1. \A a : /\ <<"ZB_DEVICE_JOINED", a>> \notin emitted'
             /\ <<"ZB_DEVICE_LEFT", a>> \notin emitted'
  OBVIOUS
<1>2. Registered' \ Registered = {} /\ Registered \ Registered' = {}
  OBVIOUS
<1> QED
  BY <1>1, <1>2, Zenon DEF Told

LEMMA AddNodeTells ==
  ASSUME IInv, NEW a \in Addr, AddNode(a)
  PROVE  Told
<1> DEFINE s == Lowest(NodeSlots \ ValidNodes)
           n == [valid |-> TRUE, addr |-> a, state |-> "NEW", known |-> {}]
<1>0. TypeOK
  BY DEF IInv
<1>1. s \in NodeSlots \ ValidNodes
  <2>1. NodeSlots \ ValidNodes \in SUBSET Nat /\ NodeSlots \ ValidNodes # {}
    BY Occupied, TablesFinite DEF AddNode
  <2> QED
    BY <2>1, LowestIsOne
<1> HIDE DEF s
<1>2. nodes' = [nodes EXCEPT ![s] = n]
  BY DEF s, AddNode
<1>3. /\ nodes'[s].valid /\ nodes'[s].addr = a /\ nodes'[s].state = "NEW"
      /\ \A i \in NodeSlots : i # s => nodes'[i] = nodes[i]
  BY <1>0, <1>1, <1>2 DEF TypeOK
<1>4. ValidNodes' = ValidNodes \union {s}
  BY <1>1, <1>3 DEF ValidNodes
<1>5. \A i \in ValidNodes : nodes'[i] = nodes[i] /\ i # s
  BY <1>1, <1>3, Occupied
<1>6. Registered' = Registered \union {a} /\ a \notin Registered
  <2>1. a \notin Registered
    BY DEF Registered, AddNode, NodesOf
  <2>2. Registered' = {nodes'[i].addr : i \in ValidNodes \union {s}}
    BY <1>4 DEF Registered
  <2>3. \A i \in ValidNodes : nodes'[i].addr = nodes[i].addr
    BY <1>5
  <2>4. nodes'[s].addr = a
    BY <1>3
  <2>5. \A b : b \in Registered' <=> b = a \/ \E i \in ValidNodes : nodes[i].addr = b
    BY <2>2, <2>3, <2>4, SMT
  <2>6. \A b : b \in Registered <=> \E i \in ValidNodes : nodes[i].addr = b
    BY DEF Registered
  <2> HIDE DEF Registered
  <2>7. \A b : b \in Registered' <=> b \in Registered \union {a}
    BY <2>5, <2>6, Zenon
  <2> QED
    BY <2>1, <2>7, SMT
<1>7. Ready' \subseteq Ready
  BY <1>3, <1>4, <1>5 DEF Ready
<1>8. emitted' = {<<"ZB_DEVICE_JOINED", a>>}
  BY DEF AddNode
<1> QED
  BY <1>6, <1>7, <1>8 DEF Told

LEMMA RemoveNodeTells ==
  ASSUME IInv, NEW a \in Addr, RemoveNode(a)
  PROVE  Told
<1> DEFINE s == Lowest(NodesOf(a))
<1>0. TypeOK /\ NodesUnique
  BY DEF IInv
<1>1. s \in ValidNodes /\ nodes[s].addr = a
  <2>1. NodesOf(a) \in SUBSET Nat /\ NodesOf(a) # {}
    BY Occupied, TablesFinite DEF RemoveNode
  <2>2. s \in NodesOf(a)
    BY <2>1, LowestIsOne
  <2> QED
    BY <2>2 DEF NodesOf
<1> HIDE DEF s
<1>2. nodes' = [nodes EXCEPT ![s] = NoNode]
  BY DEF s, RemoveNode
<1>3. ~nodes'[s].valid /\ \A i \in NodeSlots : i # s => nodes'[i] = nodes[i]
  BY <1>0, <1>1, <1>2, Occupied DEF TypeOK, NoNode
<1>4. ValidNodes' = ValidNodes \ {s}
  BY <1>3 DEF ValidNodes
<1>5. \A i \in ValidNodes \ {s} : nodes'[i] = nodes[i] /\ nodes[i].addr # a
  BY <1>0, <1>1, <1>3, Occupied DEF NodesUnique
<1>6. Registered' = Registered \ {a} /\ a \in Registered
  BY <1>1, <1>4, <1>5 DEF Registered
<1>7. Ready' \subseteq Ready
  BY <1>4, <1>5 DEF Ready
<1>8. emitted' = {<<"ZB_DEVICE_LEFT", a>>}
  BY DEF RemoveNode
<1> QED
  BY <1>6, <1>7, <1>8 DEF Told

LEMMA InterviewStartTells ==
  ASSUME IInv, NEW a \in Addr, InterviewStart(a)
  PROVE  Told
<1>0. TypeOK
  BY DEF IInv
<1>1. \A i \in NodeSlots :
        \/ nodes'[i] = nodes[i]
        \/ /\ i \in ValidNodes
           /\ nodes'[i] = [nodes[i] EXCEPT !.state = "INTERVIEWING"]
  BY Occupied DEF InterviewStart, SetState
<1>2. \A i \in NodeSlots :
        /\ nodes'[i].valid = nodes[i].valid
        /\ i \in ValidNodes => nodes'[i].addr = nodes[i].addr
        /\ i \in ValidNodes /\ nodes'[i].state = "READY" => nodes[i].state = "READY"
  <2> SUFFICES ASSUME NEW i \in NodeSlots
               PROVE  /\ nodes'[i].valid = nodes[i].valid
                      /\ i \in ValidNodes => nodes'[i].addr = nodes[i].addr
                      /\ i \in ValidNodes /\ nodes'[i].state = "READY"
                           => nodes[i].state = "READY"
    OBVIOUS
  <2>1. CASE nodes'[i] = nodes[i]
    BY <2>1
  <2>2. CASE i \in ValidNodes /\ nodes'[i] = [nodes[i] EXCEPT !.state = "INTERVIEWING"]
    <3>1. nodes[i] \in Node
      BY <1>0, <2>2, NodeTypes
    <3> QED
      BY <2>2, <3>1 DEF Node
  <2> QED
    BY <1>1, <2>1, <2>2
<1>3. ValidNodes' = ValidNodes
  BY <1>2 DEF ValidNodes
<1>4. Registered' = Registered /\ Ready' \subseteq Ready
  BY <1>2, <1>3, Occupied DEF Registered, Ready
<1>5. emitted' = {}
  BY DEF InterviewStart
<1> QED
  BY <1>4, <1>5, NothingToTell

LEMMA InterviewProcessTells ==
  ASSUME IInv, InterviewProcess
  PROVE  Told
<1>0. TypeOK
  BY DEF IInv
<1>1. \A j \in NodeSlots :
        /\ nodes'[j].valid = nodes[j].valid
        /\ j \in ValidNodes => nodes'[j].addr = nodes[j].addr
        /\ j \in ValidNodes /\ nodes'[j].state = "READY" /\ nodes[j].state # "READY"
             => <<"CAP_STATE_CHANGED", nodes[j].addr>> \in emitted'
  <2> SUFFICES ASSUME NEW j \in NodeSlots
               PROVE  /\ nodes'[j].valid = nodes[j].valid
                      /\ j \in ValidNodes => nodes'[j].addr = nodes[j].addr
                      /\ j \in ValidNodes /\ nodes'[j].state = "READY" /\ nodes[j].state # "READY"
                           => <<"CAP_STATE_CHANGED", nodes[j].addr>> \in emitted'
    OBVIOUS
  <2>1. CASE nodes'[j] = nodes[j]
    BY <2>1
  <2>2. ASSUME j \in ValidNodes, NEW i \in Ongoing, j \in NodesOf(ctxs[i].addr),
               nodes'[j] = Learnt(nodes[j], Timed(ctxs[i]).stage)
        PROVE  /\ nodes'[j].valid = nodes[j].valid /\ nodes'[j].addr = nodes[j].addr
               /\ nodes'[j].state = "READY" /\ nodes[j].state # "READY"
                    => <<"CAP_STATE_CHANGED", nodes[j].addr>> \in emitted'
    <3>1. nodes[j] \in Node /\ nodes[j].addr = ctxs[i].addr
      BY <1>0, <2>2, NodeTypes DEF NodesOf
    <3>2. /\ nodes'[j] \in Node /\ nodes'[j].addr = nodes[j].addr
          /\ Timed(ctxs[i]).stage # COMPLETE /\ nodes[j].state # "READY"
               => nodes'[j].state # "READY"
      BY <2>2, <3>1, LearntType
    <3>3. nodes'[j].valid = nodes[j].valid
      BY <3>1, <3>2 DEF Node
    <3>4. Timed(ctxs[i]).stage = COMPLETE => <<"CAP_STATE_CHANGED", ctxs[i].addr>> \in emitted'
      BY DEF InterviewProcess
    <3> QED
      BY <3>1, <3>2, <3>3, <3>4
  <2> QED
    BY <1>0, <2>1, <2>2, PolledNode
<1>2. ValidNodes' = ValidNodes
  BY <1>1 DEF ValidNodes
<1>3. Registered' = Registered
  BY <1>1, <1>2, Occupied DEF Registered
<1>4. \A a \in Ready' \ Ready : <<"CAP_STATE_CHANGED", a>> \in emitted'
  BY <1>1, <1>2, Occupied DEF Ready
<1>5. \A e \in emitted' : \E b : e = <<"CAP_STATE_CHANGED", b>>
  BY DEF InterviewProcess
<1> QED
  BY <1>3, <1>4, <1>5, NothingToTell

(* ZB_DEVICE_JOINED, ZB_DEVICE_LEFT and CAP_STATE_CHANGED are published    *)
(* when, and only when, the registry changes in that way.                  *)
THEOREM EventsCorrect == Safety => EventsTellChanges
<1>1. ASSUME IInv, Next, <<"BOOT">> \notin emitted' PROVE Told
  <2>1. ASSUME NEW a \in Addr, AddNode(a) PROVE Told
    BY <1>1, <2>1, AddNodeTells
  <2>2. ASSUME NEW a \in Addr, RemoveNode(a) PROVE Told
    BY <1>1, <2>2, RemoveNodeTells
  <2>3. ASSUME NEW a \in Addr, InterviewStart(a) PROVE Told
    BY <1>1, <2>3, InterviewStartTells
  <2>4. CASE InterviewProcess
    BY <1>1, <2>4, InterviewProcessTells
  <2>5. ASSUME UNCHANGED nodes, emitted' = {} PROVE Told
    <3>1. Registered' = Registered /\ Ready' = Ready
      BY <2>5 DEF Registered, Ready, ValidNodes
    <3> QED
      BY <2>5, <3>1, NothingToTell
  <2>6. ASSUME NEW a \in Addr, InterviewCancel(a) PROVE Told
    BY <2>5, <2>6 DEF InterviewCancel
  <2>7. CASE Tick
    BY <2>5, <2>7 DEF Tick
  <2>8. CASE Reboot
    BY <1>1, <2>8 DEF Reboot
  <2> QED
    BY <1>1, <2>1, <2>2, <2>3, <2>4, <2>6, <2>7, <2>8 DEF Next
<1>2. IInv /\ [Next]_vars => [<<"BOOT">> \notin emitted' => Told]_vars
  BY <1>1
<1>3. Safety => [][<<"BOOT">> \notin emitted' => Told]_vars
  BY <1>2, Invariance, PTL DEF Safety
<1> QED
  BY <1>3 DEF EventsTellChanges, Told

-----------------------------------------------------------------------------
(* StagesRecorded: what the stages behind a context have put in its node.  *)

LEMMA DescribedIs ==
  /\ \A s \in INIT .. ACTIVE_EP : DescribedBefore(s) = {}
  /\ DescribedBefore(SIMPLE_DESC) = {"endpoints"}
  /\ DescribedBefore(BASIC_ATTR) = {"endpoints", "clusters"}
  /\ DescribedBefore(BINDINGS) = Facts /\ DescribedBefore(COMPLETE) = Facts
BY DEF DescribedBefore, Facts, INIT, ACTIVE_EP, SIMPLE_DESC, BASIC_ATTR, BINDINGS, COMPLETE

(* A stage that is given up is one that describes nothing, or the          *)
(* interview is no longer whole.                                           *)
LEMMA TimedDescribes ==
  ASSUME NEW c \in Ctx, c.stage \in INIT .. COMPLETE, Timed(c).whole
  PROVE  /\ c.whole /\ Timed(c).stage \in INIT .. FAILED
         /\ Timed(c).stage # FAILED => DescribedBefore(Timed(c).stage) = DescribedBefore(c.stage)
<1>1. c.stage \in INIT .. FAILED
  BY DEF Ctx
<1>2. CASE Timed(c).stage = c.stage /\ Timed(c).whole = c.whole
  BY <1>1, <1>2
<1>3. CASE c.late /\ ~ (c.retry < MaxRetries)
  <2> DEFINE w == c.whole /\ c.stage \in {INIT, BINDINGS}
  <2>1. Timed(c) = [c EXCEPT !.retry = 0, !.late = FALSE, !.stage = @ + 1, !.whole = w]
    BY <1>3 DEF Timed
  <2> HIDE DEF w
  <2>2. Timed(c).stage = c.stage + 1 /\ Timed(c).whole = w
    BY <2>1 DEF Ctx
  <2>3. w
    BY <2>2
  <2>4. c.stage = INIT \/ c.stage = BINDINGS
    BY <2>3 DEF w
  <2>5. c.stage = INIT => c.stage + 1 = ACTIVE_EP
    BY DEF INIT, ACTIVE_EP
  <2>6. c.stage = BINDINGS => c.stage + 1 = COMPLETE
    BY DEF BINDINGS, COMPLETE
  <2>7. {INIT, ACTIVE_EP} \subseteq INIT .. ACTIVE_EP /\ {ACTIVE_EP, COMPLETE} \subseteq INIT .. FAILED
    BY DEF INIT, ACTIVE_EP, COMPLETE, FAILED
  <2> QED
    BY <2>2, <2>3, <2>4, <2>5, <2>6, <2>7, DescribedIs DEF w
<1>4. CASE ~ (c.late /\ ~ (c.retry < MaxRetries))
  <2>1. Timed(c).stage = c.stage /\ Timed(c).whole = c.whole
    BY <1>4 DEF Timed, Ctx
  <2> QED
    BY <1>2, <2>1
<1> QED
  BY <1>3, <1>4

(* A stage puts in the node what the next one finds described.             *)
LEMMA LearntDescribes ==
  ASSUME NEW n \in Node, NEW stage \in INIT .. BINDINGS,
         DescribedBefore(stage) \subseteq n.known
  PROVE  DescribedBefore(stage + 1) \subseteq Learnt(n, stage).known
<1>0. n.known \in SUBSET Facts
  BY DEF Node
<1>1. CASE stage = INIT
  <2>1. stage + 1 \in INIT .. ACTIVE_EP
    BY <1>1 DEF INIT, ACTIVE_EP
  <2> QED
    BY <2>1, DescribedIs
<1>2. CASE stage = ACTIVE_EP
  <2>1. stage + 1 = SIMPLE_DESC /\ Learnt(n, stage) = [n EXCEPT !.known = @ \union {"endpoints"}]
    BY <1>2 DEF Learnt, ACTIVE_EP, SIMPLE_DESC, BASIC_ATTR, COMPLETE, FAILED
  <2> QED
    BY <2>1, DescribedIs DEF Node
<1>3. CASE stage = SIMPLE_DESC
  <2>1. stage + 1 = BASIC_ATTR /\ "endpoints" \in n.known
    BY <1>3, DescribedIs DEF SIMPLE_DESC, BASIC_ATTR
  <2>2. Learnt(n, stage) = [n EXCEPT !.known = @ \union {"clusters"}]
    BY <1>3, <2>1 DEF Learnt, ACTIVE_EP, SIMPLE_DESC, BASIC_ATTR, COMPLETE, FAILED
  <2> QED
    BY <2>1, <2>2, DescribedIs DEF Node
<1>4. CASE stage = BASIC_ATTR
  <2>1. stage + 1 = BINDINGS /\ {"endpoints", "clusters"} \subseteq n.known
    BY <1>4, DescribedIs DEF BASIC_ATTR, BINDINGS
  <2>2. Learnt(n, stage) = [n EXCEPT !.known = @ \union {"metadata"}]
    BY <1>4 DEF Learnt, ACTIVE_EP, SIMPLE_DESC, BASIC_ATTR, COMPLETE, FAILED
  <2> QED
    BY <2>1, <2>2, DescribedIs DEF Node, Facts
<1>5. CASE stage = BINDINGS
  <2>1. stage + 1 = COMPLETE /\ Learnt(n, stage) = n
    BY <1>5 DEF Learnt, ACTIVE_EP, SIMPLE_DESC, BASIC_ATTR, BINDINGS, COMPLETE, FAILED
  <2> QED
    BY <1>5, <2>1, DescribedIs
<1> QED
  BY <1>1, <1>2, <1>3, <1>4, <1>5 DEF INIT, ACTIVE_EP, SIMPLE_DESC, BASIC_ATTR, BINDINGS

LEMMA AddNodeRecords ==
  ASSUME IInv, StagesRecorded, NEW a \in Addr, AddNode(a)
  PROVE  StagesRecorded'
<1> DEFINE s == Lowest(NodeSlots \ ValidNodes)
<1>0. TypeOK /\ NeverKeptFailed
  BY DEF IInv
<1>1. s \in NodeSlots \ ValidNodes
  <2>1. NodeSlots \ ValidNodes \in SUBSET Nat /\ NodeSlots \ ValidNodes # {}
    BY Occupied, TablesFinite DEF AddNode
  <2> QED
    BY <2>1, LowestIsOne
<1> HIDE DEF s
<1>2. nodes'[s].addr = a /\ \A j \in NodeSlots : j # s => nodes'[j] = nodes[j]
  BY <1>0, <1>1 DEF AddNode, TypeOK, s
<1>3. \A j \in ValidNodes' : j = s \/ (j \in ValidNodes /\ nodes'[j] = nodes[j])
  BY <1>1, <1>2 DEF ValidNodes
<1>4. ASSUME NEW i \in ActiveCtxs'
      PROVE  /\ i \in ActiveCtxs /\ ctxs'[i].addr = ctxs[i].addr
             /\ ctxs'[i].stage = ctxs[i].stage
             /\ ctxs'[i].whole => /\ ctxs[i].whole
                                  /\ ctxs[i].addr = a => ctxs[i].stage \in INIT .. ACTIVE_EP
  <2>1. i \in CtxSlots /\ ctxs'[i].active
    BY DEF ActiveCtxs
  <2>2. CASE i \in CtxsOf(a) /\ ctxs[i].stage > ACTIVE_EP
    <3>1. i \in ActiveCtxs /\ ctxs[i] \in Ctx
      BY <1>0, <2>1, <2>2, CtxTypes, Occupied
    <3>2. ctxs'[i] = [ctxs[i] EXCEPT !.whole = FALSE]
      BY <2>1, <2>2 DEF AddNode
    <3> QED
      BY <3>1, <3>2 DEF Ctx
  <2>3. CASE ~ (i \in CtxsOf(a) /\ ctxs[i].stage > ACTIVE_EP)
    <3>1. ctxs'[i] = ctxs[i]
      BY <2>1, <2>3 DEF AddNode
    <3>2. i \in ActiveCtxs
      BY <2>1, <3>1 DEF ActiveCtxs
    <3>3. ctxs[i].stage \in INIT .. COMPLETE
      BY <1>0, <3>2 DEF NeverKeptFailed
    <3>4. ctxs[i].addr = a => ctxs[i].stage \in INIT .. ACTIVE_EP
      BY <2>3, <3>2, <3>3 DEF CtxsOf, INIT, ACTIVE_EP, COMPLETE
    <3> QED
      BY <3>1, <3>2, <3>4
  <2> QED
    BY <2>2, <2>3
<1>5. ASSUME NEW i \in ActiveCtxs', ctxs'[i].whole, NEW j \in ValidNodes',
             nodes'[j].addr = ctxs'[i].addr
      PROVE  DescribedBefore(ctxs'[i].stage) \subseteq nodes'[j].known
  <2>1. CASE ctxs[i].addr = a
    BY <1>4, <1>5, <2>1, DescribedIs
  <2>2. CASE ctxs[i].addr # a
    BY <1>2, <1>3, <1>4, <1>5, <2>2 DEF StagesRecorded, NodesOf
  <2> QED
    BY <2>1, <2>2
<1> QED
  BY <1>5 DEF StagesRecorded, NodesOf

LEMMA InterviewStartRecords ==
  ASSUME IInv, StagesRecorded, NEW a \in Addr, InterviewStart(a)
  PROVE  StagesRecorded'
<1> DEFINE s == Lowest(CtxSlots \ ActiveCtxs)
<1>0. TypeOK
  BY DEF IInv
<1>1. s \in CtxSlots \ ActiveCtxs
  <2>1. CtxSlots \ ActiveCtxs \in SUBSET Nat /\ CtxSlots \ ActiveCtxs # {}
    BY Occupied, TablesFinite DEF InterviewStart
  <2> QED
    BY <2>1, LowestIsOne
<1> HIDE DEF s
<1>2. ctxs'[s].stage = INIT /\ \A i \in CtxSlots : i # s => ctxs'[i] = ctxs[i]
  BY <1>0, <1>1 DEF InterviewStart, TypeOK, NewCtx, s
<1>3. \A i \in ActiveCtxs' : i = s \/ (i \in ActiveCtxs /\ ctxs'[i] = ctxs[i])
  BY <1>1, <1>2 DEF ActiveCtxs
<1>4. ASSUME NEW j \in ValidNodes'
      PROVE  j \in ValidNodes /\ nodes'[j].addr = nodes[j].addr /\ nodes'[j].known = nodes[j].known
  <2>1. j \in NodeSlots /\ nodes'[j].valid
    BY DEF ValidNodes
  <2>2. CASE nodes'[j] = nodes[j]
    BY <2>1, <2>2 DEF ValidNodes
  <2>3. CASE j \in ValidNodes /\ nodes'[j] = [nodes[j] EXCEPT !.state = "INTERVIEWING"]
    <3>1. nodes[j] \in Node
      BY <1>0, <2>1, <2>3, NodeTypes
    <3> QED
      BY <2>3, <3>1 DEF Node
  <2> QED
    BY <2>1, <2>2, <2>3, Occupied DEF InterviewStart, SetState
<1>5. DescribedBefore(INIT) = {}
  BY DescribedIs DEF INIT, ACTIVE_EP
<1>6. ASSUME NEW i \in ActiveCtxs', ctxs'[i].whole, NEW j \in ValidNodes',
             nodes'[j].addr = ctxs'[i].addr
      PROVE  DescribedBefore(ctxs'[i].stage) \subseteq nodes'[j].known
  <2>1. CASE i = s
    BY <1>2, <1>5, <2>1
  <2>2. CASE i # s
    BY <1>3, <1>4, <1>6, <2>2 DEF StagesRecorded, NodesOf
  <2> QED
    BY <2>1, <2>2
<1> QED
  BY <1>6 DEF StagesRecorded, NodesOf

LEMMA InterviewProcessRecords ==
  ASSUME IInv, StagesRecorded, InterviewProcess
  PROVE  StagesRecorded'
<1>0. TypeOK /\ CtxsUnique /\ NeverKeptFailed
  BY DEF IInv
<1>1. ASSUME NEW i \in ActiveCtxs', ctxs'[i].whole, NEW j \in ValidNodes',
             nodes'[j].addr = ctxs'[i].addr
      PROVE  DescribedBefore(ctxs'[i].stage) \subseteq nodes'[j].known
  <2> DEFINE c == ctxs[i]
             t == Timed(c)
  <2>1. i \in CtxSlots /\ ctxs'[i] = Polled(i) /\ ctxs'[i].active
    BY DEF ActiveCtxs, InterviewProcess
  <2>2. i \in Ongoing /\ ctxs'[i] = Advanced(t) /\ Advanced(t) # NoCtx
    BY <2>1 DEF Polled, NoCtx
  <2>3. i \in ActiveCtxs /\ c \in Ctx /\ c.stage \in INIT .. COMPLETE
    BY <1>0, <2>1, <2>2, CtxTypes DEF Ongoing, NeverKeptFailed
  <2>4. t \in Ctx /\ t.addr = c.addr
    BY <2>3, TimedType
  <2> HIDE DEF t
  <2>5. /\ t.stage \notin {COMPLETE, FAILED}
        /\ ctxs'[i].stage = t.stage + 1 /\ ctxs'[i].whole = t.whole /\ ctxs'[i].addr = c.addr
    <3>1. t.stage \notin {COMPLETE, FAILED}
      BY <2>2 DEF Advanced
    <3> DEFINE l == t.late /\ t.stage = BINDINGS
    <3>2. ctxs'[i] = [t EXCEPT !.stage = @ + 1, !.late = l]
      BY <2>2, <3>1 DEF Advanced
    <3> HIDE DEF l
    <3> QED
      BY <2>4, <3>1, <3>2 DEF Ctx
  <2>6. /\ c.whole /\ t.stage \in INIT .. FAILED
        /\ DescribedBefore(t.stage) = DescribedBefore(c.stage)
    BY <1>1, <2>3, <2>5, TimedDescribes DEF t
  <2>7. t.stage \in INIT .. BINDINGS
    BY <2>5, <2>6 DEF INIT, BINDINGS, COMPLETE, FAILED
  <2>8. /\ j \in NodeSlots /\ j \in ValidNodes /\ nodes[j] \in Node
        /\ nodes'[j].addr = nodes[j].addr
    <3>1. j \in NodeSlots /\ nodes'[j].valid
      BY DEF ValidNodes
    <3>2. j \in ValidNodes
      BY <1>0, <3>1, PolledNode DEF ValidNodes
    <3>3. nodes[j] \in Node
      BY <1>0, <3>1, <3>2, NodeTypes
    <3>4. nodes'[j].addr = nodes[j].addr
      BY <1>0, <3>1, <3>3, PolledNode, LearntType
    <3> QED
      BY <3>1, <3>2, <3>3, <3>4
  <2>9. j \in NodesOf(c.addr)
    BY <1>1, <2>5, <2>8 DEF NodesOf
  <2>10. DescribedBefore(t.stage) \subseteq nodes[j].known
    BY <2>3, <2>6, <2>9 DEF StagesRecorded
  <2>11. nodes'[j] = Learnt(nodes[j], t.stage)
    <3> DEFINE S == {k \in Ongoing : j \in NodesOf(ctxs[k].addr)}
    <3>1. nodes'[j] = IF S = {} THEN nodes[j] ELSE Learnt(nodes[j], Timed(ctxs[Lowest(S)]).stage)
      BY <2>8 DEF InterviewProcess
    <3>2. i \in S
      BY <2>2, <2>9
    <3>3. \A k \in S : k = i
      BY <1>0, <2>3, <2>9 DEF Ongoing, NodesOf, CtxsUnique
    <3>4. S = {i}
      BY <3>2, <3>3
    <3>5. S \in SUBSET Nat
      BY Occupied, TablesFinite DEF Ongoing
    <3> HIDE DEF S
    <3>6. Lowest(S) = i
      BY <3>2, <3>3, <3>5, LowestIsOne
    <3> QED
      BY <3>1, <3>2, <3>6 DEF t
  <2> QED
    BY <2>5, <2>7, <2>8, <2>10, <2>11, LearntDescribes
<1> QED
  BY <1>1 DEF StagesRecorded, NodesOf

LEMMA OthersRecord ==
  ASSUME IInv, StagesRecorded,
         \A i \in ActiveCtxs' : /\ i \in ActiveCtxs /\ ctxs'[i].addr = ctxs[i].addr
                                /\ ctxs'[i].stage = ctxs[i].stage
                                /\ ctxs'[i].whole = ctxs[i].whole,
         \A j \in ValidNodes' : j \in ValidNodes /\ nodes'[j] = nodes[j]
  PROVE  StagesRecorded'
BY DEF StagesRecorded, NodesOf

(* An interview that skipped no stage and whose node was not replaced on   *)
(* the way has put in the registry all that the stages behind it found.    *)
THEOREM StagesCorrect == Safety => []StagesRecorded
<1>1. Init => StagesRecorded
  BY DEF Init, StagesRecorded, ActiveCtxs, NoCtx
<1>2. ASSUME IInv, StagesRecorded, [Next]_vars PROVE StagesRecorded'
  <2>0. TypeOK
    BY <1>2 DEF IInv
  <2>1. ASSUME NEW a \in Addr, AddNode(a) PROVE StagesRecorded'
    BY <1>2, <2>1, AddNodeRecords
  <2>2. ASSUME NEW a \in Addr, RemoveNode(a) PROVE StagesRecorded'
    <3>1. UNCHANGED ctxs /\ \A j \in NodeSlots : nodes'[j] = NoNode \/ nodes'[j] = nodes[j]
      BY <2>0, <2>2 DEF RemoveNode, TypeOK
    <3>2. \A j \in ValidNodes' : j \in ValidNodes /\ nodes'[j] = nodes[j]
      BY <3>1 DEF ValidNodes, NoNode
    <3> QED
      BY <1>2, <3>1, <3>2, OthersRecord DEF ActiveCtxs
  <2>3. ASSUME NEW a \in Addr, InterviewStart(a) PROVE StagesRecorded'
    BY <1>2, <2>3, InterviewStartRecords
  <2>4. ASSUME NEW a \in Addr, InterviewCancel(a) PROVE StagesRecorded'
    <3>1. UNCHANGED nodes /\ \A i \in CtxSlots : ctxs'[i] = NoCtx \/ ctxs'[i] = ctxs[i]
      BY <2>0, <2>4 DEF InterviewCancel, TypeOK
    <3>2. \A i \in ActiveCtxs' : i \in ActiveCtxs /\ ctxs'[i] = ctxs[i]
      BY <3>1 DEF ActiveCtxs, NoCtx
    <3> QED
      BY <1>2, <3>1, <3>2, OthersRecord DEF ValidNodes
  <2>5. CASE InterviewProcess
    BY <1>2, <2>5, InterviewProcessRecords
  <2>6. CASE Tick
    <3>1. UNCHANGED nodes
      BY <2>6 DEF Tick
    <3>2. ASSUME NEW i \in ActiveCtxs'
          PROVE  /\ i \in ActiveCtxs /\ ctxs'[i].addr = ctxs[i].addr
                 /\ ctxs'[i].stage = ctxs[i].stage /\ ctxs'[i].whole = ctxs[i].whole
      <4>1. i \in CtxSlots /\ ctxs'[i].active
        BY DEF ActiveCtxs
      <4>2. i \in ActiveCtxs
        BY <2>6, <4>1 DEF Tick, ActiveCtxs
      <4>3. ctxs[i] \in Ctx
        BY <2>0, <4>1, <4>2, CtxTypes
      <4>4. \E age : ctxs'[i] = [ctxs[i] EXCEPT !.age = age, !.late = TRUE]
        BY <2>6, <4>1, <4>2 DEF Tick
      <4> QED
        BY <4>2, <4>3, <4>4 DEF Ctx
    <3> QED
      BY <1>2, <3>1, <3>2, OthersRecord DEF ValidNodes
  <2>7. CASE Reboot
    BY <2>7 DEF Reboot, StagesRecorded, ActiveCtxs, NoCtx
  <2>8. CASE UNCHANGED vars
    BY <1>2, <2>8, OthersRecord DEF vars, ValidNodes, ActiveCtxs
  <2> QED
    BY <1>2, <2>1, <2>2, <2>3, <2>4, <2>5, <2>6, <2>7, <2>8 DEF Next
<1> QED
  BY <1>1, <1>2, Invariance, PTL DEF Safety

-----------------------------------------------------------------------------
(* What InterviewEnds rests on besides the fibre's fairness: each poll     *)
(* brings every interview it leaves active at least one stage further, and *)
(* no other step brings one back or hands its slot to another device.  As  *)
(* none is left beyond COMPLETE (NeverKeptFailed), an interview outlives   *)
(* at most five polls, whatever the clock, the clients and the retries do. *)
PollsProgress ==
  [][\A i \in ActiveCtxs : ctxs'[i].active =>
       /\ ctxs'[i].addr = ctxs[i].addr
       /\ IF InterviewProcess THEN ctxs'[i].stage > ctxs[i].stage
          ELSE ctxs'[i].stage = ctxs[i].stage]_vars

LEMMA PolledFurther ==
  ASSUME IInv, NEW i \in ActiveCtxs, Polled(i).active
  PROVE  Polled(i).addr = ctxs[i].addr /\ Polled(i).stage > ctxs[i].stage
<1> DEFINE c == ctxs[i]
<1> DEFINE t == Timed(c)
<1>1. i \in CtxSlots /\ c \in Ctx /\ c.stage \in INIT .. COMPLETE
  BY CtxTypes DEF ActiveCtxs, IInv, NeverKeptFailed
<1>2. Polled(i) = Advanced(t) /\ Polled(i) # NoCtx
  BY DEF Polled, NoCtx
<1>3. Polled(i).addr = c.addr
  BY <1>1, <1>2, PolledType DEF IInv
<1>4. t \in Ctx
  BY <1>1, TimedType
<1>5. t.stage = c.stage \/ t.stage = c.stage + 1
  BY <1>1 DEF Timed, Ctx
<1>6. Polled(i).stage = t.stage + 1
  BY <1>2, <1>4 DEF Advanced, Ctx
<1>7. c.stage \in Int
  BY <1>1, SMT DEF INIT, COMPLETE
<1> HIDE DEF t
<1>8. Polled(i).stage > c.stage
  BY <1>5, <1>6, <1>7, SMT
<1> QED
  BY <1>3, <1>8

(* Every poll that an interview survives brings it nearer its end, and     *)
(* nothing else moves it.                                                  *)
THEOREM PollsEnd == Safety => PollsProgress
<1> DEFINE Progress ==
      \A i \in ActiveCtxs : ctxs'[i].active =>
        /\ ctxs'[i].addr = ctxs[i].addr
        /\ IF InterviewProcess THEN ctxs'[i].stage > ctxs[i].stage
           ELSE ctxs'[i].stage = ctxs[i].stage
<1>1. ASSUME IInv, [Next]_vars PROVE [Progress]_vars
  <2> SUFFICES ASSUME Next, NEW i \in ActiveCtxs, ctxs'[i].active
               PROVE  /\ ctxs'[i].addr = ctxs[i].addr
                      /\ IF InterviewProcess THEN ctxs'[i].stage > ctxs[i].stage
                         ELSE ctxs'[i].stage = ctxs[i].stage
    BY <1>1
  <2>0. TypeOK /\ i \in CtxSlots /\ ctxs[i] \in Ctx
    BY <1>1, CtxTypes DEF IInv, ActiveCtxs
  <2>1. CASE InterviewProcess
    <3>1. ctxs'[i] = Polled(i)
      BY <2>0, <2>1 DEF InterviewProcess
    <3> QED
      BY <1>1, <2>1, <3>1, PolledFurther
  <2>2. CASE ~InterviewProcess
    <3> SUFFICES ctxs'[i].addr = ctxs[i].addr /\ ctxs'[i].stage = ctxs[i].stage
      BY <2>2
    <3>1. ASSUME NEW a \in Addr, AddNode(a)
          PROVE  ctxs'[i].addr = ctxs[i].addr /\ ctxs'[i].stage = ctxs[i].stage
      <4>1. ctxs'[i] = ctxs[i] \/ ctxs'[i] = [ctxs[i] EXCEPT !.whole = FALSE]
        BY <2>0, <3>1 DEF AddNode
      <4> QED
        BY <2>0, <4>1 DEF Ctx
    <3>2. ASSUME NEW a \in Addr, RemoveNode(a) PROVE ctxs'[i] = ctxs[i]
      BY <3>2 DEF RemoveNode
    <3>3. ASSUME NEW a \in Addr, InterviewStart(a) PROVE ctxs'[i] = ctxs[i]
      <4>1. Lowest(CtxSlots \ ActiveCtxs) \in CtxSlots \ ActiveCtxs
        <5>1. CtxSlots \ ActiveCtxs \in SUBSET Nat /\ CtxSlots \ ActiveCtxs # {}
          BY <3>3, Occupied, TablesFinite DEF InterviewStart
        <5> QED
          BY <5>1, LowestIsOne
      <4> QED
        BY <2>0, <3>3, <4>1 DEF InterviewStart, TypeOK
    <3>4. ASSUME NEW a \in Addr, InterviewCancel(a) PROVE ctxs'[i] = ctxs[i]
      <4>1. ctxs'[i] = NoCtx \/ ctxs'[i] = ctxs[i]
        BY <2>0, <3>4 DEF InterviewCancel, TypeOK
      <4> QED
        BY <4>1 DEF NoCtx
    <3>5. CASE Tick
      <4>1. \E age : ctxs'[i] = [ctxs[i] EXCEPT !.age = age, !.late = TRUE]
        BY <2>0, <3>5 DEF Tick
      <4> QED
        BY <2>0, <4>1 DEF Ctx
    <3>6. CASE Reboot
      BY <2>0, <3>6 DEF Reboot, NoCtx
    <3> QED
      BY <2>2, <3>1, <3>2, <3>3, <3>4, <3>5, <3>6 DEF Next
  <2> QED
    BY <2>1, <2>2
<1>2. PollsProgress <=> [][Progress]_vars
  BY PTL DEF PollsProgress
<1> HIDE DEF Progress
<1> QED
  BY <1>1, <1>2, Invariance, PTL DEF Safety

=============================================================================

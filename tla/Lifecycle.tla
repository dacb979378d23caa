----------------------------- MODULE Lifecycle -----------------------------
(***************************************************************************)
(* The device registry (services/src/registry.c) and the interview service *)
(* (services/src/interview.c).  The two keep separate tables that refer to *)
(* each other only by address: an interview looks its node up again at     *)
(* every poll, so a node may be removed, or removed and added again, while *)
(* its interview goes on.  Every function here runs without yielding, so   *)
(* one call is one step; what interleaves is the interview fibre's polls,  *)
(* the clients' calls and the clock.                                       *)
(*                                                                         *)
(* Time is counted in units of a little more than STEP_TIMEOUT_MS, so that *)
(* a stage is late when one unit has passed since it began; the interview  *)
(* has timed out when more than Timeout units have (5, as 6 units of more  *)
(* than 5 s exceed INTERVIEW_TIMEOUT_MS).                                  *)
(***************************************************************************)
EXTENDS Integers, FiniteSets

CONSTANTS
  Addr,           \* IEEE addresses of devices
  MaxNodes,       \* REG_MAX_NODES
  MaxInterviews,  \* MAX_INTERVIEWS
  MaxRetries,     \* MAX_STEP_RETRIES
  Timeout         \* the last unit of time within INTERVIEW_TIMEOUT_MS

ASSUME MaxNodesAssumption      == MaxNodes \in Nat \ {0}
ASSUME MaxInterviewsAssumption == MaxInterviews \in Nat \ {0}
ASSUME MaxRetriesAssumption    == MaxRetries \in Nat
ASSUME TimeoutAssumption       == Timeout \in Nat

NodeSlots == 1 .. MaxNodes
CtxSlots  == 1 .. MaxInterviews

(* interview_stage_t; a stage is advanced by adding one to it. *)
INIT        == 0
ACTIVE_EP   == 1
SIMPLE_DESC == 2
BASIC_ATTR  == 3
BINDINGS    == 4
COMPLETE    == 5
FAILED      == 6

(* Of reg_state_t, the states that the code ever assigns.  A free entry of *)
(* either table is NoNode, NoCtx.                                          *)
NodeStates == {"NEW", "INTERVIEWING", "READY", "STALE"}

(* What an interview finds out about a device. *)
Facts == {"endpoints", "clusters", "metadata"}

NoNode == [valid |-> FALSE]
NoCtx  == [active |-> FALSE]

Node == [valid : {TRUE}, addr : Addr, state : NodeStates, known : SUBSET Facts]
Ctx  == [active : {TRUE}, addr : Addr, stage : INIT .. FAILED,
         retry : 0 .. MaxRetries, age : 0 .. Timeout + 1, late : BOOLEAN,
         whole : BOOLEAN]

VARIABLES
  nodes,        \* registry.nodes
  nodeCount,    \* registry.node_count
  ctxs,         \* service.interviews; `late` and `age` are the time since
                \* step_start_time and start_time.  `whole` is history: no
                \* stage was skipped and the node was not replaced half way
  activeCount,  \* service.active_count
  emitted       \* the events that the latest step put on the bus

vars == <<nodes, nodeCount, ctxs, activeCount, emitted>>

ValidNodes == {i \in NodeSlots : nodes[i].valid}
ActiveCtxs == {i \in CtxSlots : ctxs[i].active}

NodesOf(a) == {i \in ValidNodes : nodes[i].addr = a}
CtxsOf(a)  == {i \in ActiveCtxs : ctxs[i].addr = a}

Lowest(S) == CHOOSE i \in S : \A j \in S : i <= j

Init ==
  /\ nodes = [i \in NodeSlots |-> NoNode] /\ nodeCount = 0
  /\ ctxs = [i \in CtxSlots |-> NoCtx] /\ activeCount = 0
  /\ emitted = {}

-----------------------------------------------------------------------------
(* The registry. *)

(* reg_add_node for an address it does not hold.  One that it holds only   *)
(* gets its network address and last_seen updated, which are not modelled. *)
AddNode(a) ==
  /\ NodesOf(a) = {}
  /\ ValidNodes # NodeSlots
  /\ nodes' = [nodes EXCEPT ![Lowest(NodeSlots \ ValidNodes)] =
                 [valid |-> TRUE, addr |-> a, state |-> "NEW", known |-> {}]]
  /\ nodeCount' = nodeCount + 1
  /\ emitted' = {<<"ZB_DEVICE_JOINED", a>>}
  /\ ctxs' = [i \in CtxSlots |->
                IF i \in CtxsOf(a) /\ ctxs[i].stage > ACTIVE_EP
                THEN [ctxs[i] EXCEPT !.whole = FALSE] ELSE ctxs[i]]
  /\ UNCHANGED activeCount

(* A plausible slip: a device leaves and nobody is told. *)
RemoveQuietly(a) ==
  /\ NodesOf(a) # {}
  /\ emitted' = {}
  /\ nodes' = [nodes EXCEPT ![Lowest(NodesOf(a))] = NoNode]
  /\ nodeCount' = nodeCount - 1
  /\ UNCHANGED <<ctxs, activeCount>>

RemoveNode(a) ==
  /\ NodesOf(a) # {}
  /\ emitted' = {<<"ZB_DEVICE_LEFT", a>>}
  /\ nodes' = [nodes EXCEPT ![Lowest(NodesOf(a))] = NoNode]
  /\ nodeCount' = nodeCount - 1
  /\ UNCHANGED <<ctxs, activeCount>>

-----------------------------------------------------------------------------
(* The interview service. *)

NewCtx(a) == [active |-> TRUE, addr |-> a, stage |-> INIT, retry |-> 0,
              age |-> 0, late |-> FALSE, whole |-> TRUE]

SetState(S, state) ==
  nodes' = [i \in NodeSlots |->
              IF i \in S THEN [nodes[i] EXCEPT !.state = state] ELSE nodes[i]]

(* A plausible slip: find_interview is not asked first. *)
StartAgain(a) ==
  /\ ActiveCtxs # CtxSlots
  /\ ctxs' = [ctxs EXCEPT ![Lowest(CtxSlots \ ActiveCtxs)] = NewCtx(a)]
  /\ activeCount' = activeCount + 1
  /\ SetState(NodesOf(a), "INTERVIEWING")
  /\ emitted' = {}
  /\ UNCHANGED nodeCount

(* interview_start, also of a device that is not in the registry. *)
InterviewStart(a) ==
  /\ CtxsOf(a) = {}
  /\ ActiveCtxs # CtxSlots
  /\ ctxs' = [ctxs EXCEPT ![Lowest(CtxSlots \ ActiveCtxs)] = NewCtx(a)]
  /\ activeCount' = activeCount + 1
  /\ SetState(NodesOf(a), "INTERVIEWING")
  /\ emitted' = {}
  /\ UNCHANGED nodeCount

(* A plausible slip: the context is cleared past free_interview. *)
CancelUncounted(a) ==
  /\ CtxsOf(a) # {}
  /\ ctxs' = [ctxs EXCEPT ![Lowest(CtxsOf(a))] = NoCtx]
  /\ emitted' = {}
  /\ UNCHANGED <<nodes, nodeCount, activeCount>>

(* interview_cancel; the node's state stays as it is. *)
InterviewCancel(a) ==
  /\ CtxsOf(a) # {}
  /\ ctxs' = [ctxs EXCEPT ![Lowest(CtxsOf(a))] = NoCtx]
  /\ activeCount' = activeCount - 1
  /\ emitted' = {}
  /\ UNCHANGED <<nodes, nodeCount>>

(* A plausible slip: >= for > in the test of the retries. *)
TimedOnceMore(c) ==
  IF ~c.late THEN c
  ELSE IF c.retry <= MaxRetries
       THEN [c EXCEPT !.retry = @ + 1, !.late = FALSE]
       ELSE [c EXCEPT !.retry = 0, !.late = FALSE, !.stage = @ + 1,
                      !.whole = @ /\ c.stage \in {INIT, BINDINGS}]

(* The step timer: late stages are retried, and given up after MaxRetries, *)
(* which counts over all stages.                                           *)
Timed(c) ==
  IF ~c.late THEN c
  ELSE IF c.retry < MaxRetries
       THEN [c EXCEPT !.retry = @ + 1, !.late = FALSE]
       ELSE [c EXCEPT !.retry = 0, !.late = FALSE, !.stage = @ + 1,
                      !.whole = @ /\ c.stage \in {INIT, BINDINGS}]

(* A plausible slip: INIT leads past the stage that asks for endpoints. *)
AdvancedPast(c) ==
  IF c.stage \in {COMPLETE, FAILED} THEN NoCtx
  ELSE [c EXCEPT !.stage = IF @ = INIT THEN SIMPLE_DESC ELSE @ + 1,
                 !.late = @ /\ c.stage = BINDINGS]

(* advance_interview: each stage is done at once and leads to the next.    *)
(* Only BINDINGS does not restart the step timer.                          *)
Advanced(c) ==
  IF c.stage \in {COMPLETE, FAILED} THEN NoCtx
  ELSE [c EXCEPT !.stage = @ + 1, !.late = @ /\ c.stage = BINDINGS]

Learnt(n, stage) ==
  CASE stage = ACTIVE_EP   -> [n EXCEPT !.known = @ \union {"endpoints"}]
    [] stage = SIMPLE_DESC -> IF "endpoints" \in n.known
                              THEN [n EXCEPT !.known = @ \union {"clusters"}] ELSE n
    [] stage = BASIC_ATTR  -> [n EXCEPT !.known = @ \union {"metadata"}]
    [] stage = COMPLETE    -> [n EXCEPT !.state = "READY"]
    [] stage = FAILED      -> [n EXCEPT !.state = "STALE"]
    [] OTHER               -> n

(* One turn of interview_process over all contexts.  A context whose time  *)
(* is up, or whose node is gone, is freed without touching a node.         *)
Ongoing == {i \in ActiveCtxs : ctxs[i].age <= Timeout /\ NodesOf(ctxs[i].addr) # {}}

(* A plausible slip: a failed interview is marked so, but not freed. *)
PolledKept(i) ==
  IF i \in Ongoing THEN Advanced(Timed(ctxs[i])) ELSE [ctxs[i] EXCEPT !.stage = FAILED]

Polled(i) ==
  IF i \in Ongoing THEN Advanced(Timed(ctxs[i])) ELSE NoCtx

InterviewProcess ==
  /\ ActiveCtxs # {}
  /\ ctxs' = [i \in CtxSlots |-> Polled(i)]
  /\ activeCount' = activeCount - Cardinality({i \in ActiveCtxs : ~Polled(i).active})
  /\ nodes' = [j \in NodeSlots |->
                 LET S == {i \in Ongoing : j \in NodesOf(ctxs[i].addr)}
                 IN  IF S = {} THEN nodes[j]
                     ELSE Learnt(nodes[j], Timed(ctxs[Lowest(S)]).stage)]
  /\ emitted' = {<<"CAP_STATE_CHANGED", ctxs[i].addr>> :
                   i \in {k \in Ongoing : Timed(ctxs[k]).stage = COMPLETE}}
  /\ UNCHANGED nodeCount

-----------------------------------------------------------------------------
(* A unit of time passes; clocks that no longer matter stop (bounds: the   *)
(* age is counted up to Timeout + 1, the step's up to one unit).           *)
Tick ==
  /\ \E i \in ActiveCtxs : ctxs[i].age <= Timeout \/ ~ctxs[i].late
  /\ ctxs' = [i \in CtxSlots |->
                IF i \in ActiveCtxs
                THEN [ctxs[i] EXCEPT !.age = IF @ <= Timeout THEN @ + 1 ELSE @,
                                     !.late = TRUE]
                ELSE ctxs[i]]
  /\ emitted' = {}
  /\ UNCHANGED <<nodes, nodeCount, activeCount>>

(* The device restarts.  reg_restore reads the number of saved nodes and   *)
(* restores none.                                                          *)
Reboot ==
  /\ nodes' = [i \in NodeSlots |-> NoNode] /\ nodeCount' = 0
  /\ ctxs' = [i \in CtxSlots |-> NoCtx] /\ activeCount' = 0
  /\ emitted' = {<<"BOOT">>}

Next ==
  \/ \E a \in Addr : AddNode(a) \/ RemoveNode(a) \/ InterviewStart(a) \/ InterviewCancel(a)
  \/ InterviewProcess
  \/ Tick
  \/ Reboot

(* The interview fibre polls every INTERVIEW_POLL_MS. *)
Spec == Init /\ [][Next]_vars /\ WF_vars(InterviewProcess)

-----------------------------------------------------------------------------
(* Types of the state. *)
TypeOK ==
  /\ nodes \in [NodeSlots -> {NoNode} \union Node]
  /\ nodeCount \in 0 .. MaxNodes
  /\ ctxs \in [CtxSlots -> {NoCtx} \union Ctx]
  /\ activeCount \in 0 .. MaxInterviews

(* No address has two registry entries or two interviews: a lookup stops   *)
(* at the first, and the other would never be updated, or never end.       *)
UniqueEntries ==
  \A a \in Addr : Cardinality(NodesOf(a)) <= 1 /\ Cardinality(CtxsOf(a)) <= 1

(* The counters that clients size their loops by are the tables' real      *)
(* occupancy, however interviews end.                                      *)
CountsMatch ==
  nodeCount = Cardinality(ValidNodes) /\ activeCount = Cardinality(ActiveCtxs)

(* An interview that skipped no stage and whose node was not replaced half *)
(* way has recorded in the registry what the stages behind it found, so a  *)
(* node it turns READY is fully described.                                 *)
DescribedBefore(stage) ==
  {f \in Facts : \/ f = "endpoints" /\ stage > ACTIVE_EP
                 \/ f = "clusters"  /\ stage > SIMPLE_DESC
                 \/ f = "metadata"  /\ stage > BASIC_ATTR}

StagesRecorded ==
  \A i \in ActiveCtxs : ctxs[i].whole =>
    \A j \in NodesOf(ctxs[i].addr) : DescribedBefore(ctxs[i].stage) \subseteq nodes[j].known

(* The events tell the whole story: a subscriber that sees all of them     *)
(* knows which devices are registered and when one became READY.           *)
Registered == {nodes[i].addr : i \in ValidNodes}
Ready      == {nodes[i].addr : i \in {j \in ValidNodes : nodes[j].state = "READY"}}

EventsTellChanges ==
  [][<<"BOOT">> \notin emitted' =>
       \A a \in Addr :
         /\ <<"ZB_DEVICE_JOINED", a>> \in emitted' <=> a \in Registered' \ Registered
         /\ <<"ZB_DEVICE_LEFT", a>> \in emitted' <=> a \in Registered \ Registered'
         /\ a \in Ready' \ Ready => <<"CAP_STATE_CHANGED", a>> \in emitted']_vars

(* Every interview ends, even if every poll comes late: no device is being *)
(* interviewed from some moment on.                                        *)
Interviewed(a) == \E i \in CtxSlots : ctxs[i].active /\ ctxs[i].addr = a

InterviewEnds == \A a \in Addr : []<>~Interviewed(a)

=============================================================================

----------------------------- MODULE Discovery -----------------------------
(***************************************************************************)
(* Home Assistant discovery (services/ha_disc/ha_disc.c) with what it      *)
(* depends on: the connection of the MQTT adapter, the states of the       *)
(* registry's nodes, the capabilities the capability service has cached,   *)
(* and the DEVICE_LEFT events that wait on the bus.  Publishing is put off *)
(* while MQTT is down; a device's removal is heard of later than it        *)
(* happens, and the device may be back by then.                            *)
(*                                                                         *)
(* This is the host build, where one fibre runs at a time and every call   *)
(* here is atomic.  (On the ESP32-C6 mqtt_connect stops at CONNECTING.)    *)
(* A discovery message is reduced to the entity it is about.  The broker   *)
(* is external: it keeps the last message of each topic.                   *)
(***************************************************************************)
EXTENDS Integers, Sequences, FiniteSets

CONSTANTS
  Addr,        \* IEEE addresses of devices
  NoAddr,      \* what a slot of the list holds that is not pending
  Entities,    \* the entities a device can have: a light, a sensor, ...
  MaxPending,  \* HA_MAX_PENDING
  MaxLeft      \* bound on the DEVICE_LEFT events that wait

ASSUME NoAddrAssumption     == NoAddr \notin Addr
ASSUME MaxPendingAssumption == MaxPending \in Nat \ {0}
ASSUME MaxLeftAssumption    == MaxLeft \in Nat

Slots == 1 .. MaxPending

VARIABLES
  node,          \* of each device: "GONE" from the registry, in a state
                 \* other than READY ("JOINED"), or "READY"
  caps,          \* the entities that its cached capabilities amount to
  left,          \* the DEVICE_LEFT events on the bus, oldest first
  mqtt,          \* adapter.state
  pending,       \* service.pending
  pendingCount,  \* service.pending_count
  retained,      \* at the broker: the entities configured, of each device
  status,        \* at the broker: the bridge's status
  missed         \* history: devices that the broker has something of and
                 \* whose removal nobody was told of

busVars     == <<node, caps, left>>
serviceVars == <<pending, pendingCount>>
brokerVars  == <<retained, status>>
vars        == <<busVars, mqtt, serviceVars, brokerVars, missed>>

Connected    == mqtt = "CONNECTED"
PendingSlots == {s \in Slots : pending[s] # NoAddr}
PendingNodes == {pending[s] : s \in PendingSlots}
ReadyNodes   == {a \in Addr : node[a] = "READY"}

Init ==
  /\ node = [a \in Addr |-> "GONE"] /\ caps = [a \in Addr |-> {}] /\ left = << >>
  /\ mqtt = "DISCONNECTED"
  /\ pending = [s \in Slots |-> NoAddr] /\ pendingCount = 0
  /\ retained = [a \in Addr |-> {}] /\ status = "none"
  /\ missed = {}

-----------------------------------------------------------------------------
(* The registry and the capability service. *)

AddNode(a) ==
  /\ node[a] = "GONE"
  /\ node' = [node EXCEPT ![a] = "JOINED"]
  /\ missed' = missed \ {a}
  /\ UNCHANGED <<caps, left, mqtt, serviceVars, brokerVars>>

SetState(a, state) ==
  /\ node[a] # "GONE"
  /\ node' = [node EXCEPT ![a] = state]
  /\ UNCHANGED <<caps, left, mqtt, serviceVars, brokerVars, missed>>

(* reg_remove_node; the bus may be full of other events. *)
Missed(a) == IF retained[a] # {} THEN missed \union {a} ELSE missed

RemoveNode(a) ==
  /\ node[a] # "GONE"
  /\ node' = [node EXCEPT ![a] = "GONE"]
  /\ \/ Len(left) < MaxLeft /\ left' = Append(left, a) /\ UNCHANGED missed
     \/ left' = left /\ missed' = Missed(a)
  /\ UNCHANGED <<caps, mqtt, serviceVars, brokerVars>>

(* cap_compute_for_node.  The cache keeps the entry when the node leaves.  *)
ComputeCaps(a, E) ==
  /\ node[a] # "GONE"
  /\ caps' = [caps EXCEPT ![a] = E]
  /\ UNCHANGED <<node, left, mqtt, serviceVars, brokerVars, missed>>

-----------------------------------------------------------------------------
(* The MQTT adapter: the status is published between the two transitions.  *)

Connect ==
  /\ ~Connected
  /\ mqtt' = "CONNECTED"
  /\ status' = "online"
  /\ UNCHANGED <<busVars, serviceVars, retained, missed>>

Disconnect ==
  /\ mqtt' = "DISCONNECTED"
  /\ status' = IF Connected THEN "offline" ELSE status
  /\ UNCHANGED <<busVars, serviceVars, retained, missed>>

-----------------------------------------------------------------------------
(* ha_disc_publish_node.  It fails for a node that is not READY, but when  *)
(* MQTT is down it says OK to any address.                                 *)

Configured(S) ==
  [a \in Addr |-> IF a \in S THEN retained[a] \union caps[a] ELSE retained[a]]

(* Faulty variant: the state of the node is not looked at. *)
PublishAny(a) ==
  /\ Connected
  /\ retained' = Configured({a})
  /\ UNCHANGED <<busVars, mqtt, serviceVars, status, missed>>

PublishNow(a) ==
  /\ Connected /\ a \in ReadyNodes
  /\ retained' = Configured({a})
  /\ UNCHANGED <<busVars, mqtt, serviceVars, status, missed>>

Free == Slots \ PendingSlots

(* Faulty variant: the list is not searched for the node. *)
PutOffAgain(a) ==
  /\ ~Connected
  /\ \E s \in Free :
       /\ \A t \in Free : s <= t
       /\ pending' = [pending EXCEPT ![s] = a]
  /\ pendingCount' = pendingCount + 1
  /\ UNCHANGED <<busVars, mqtt, brokerVars, missed>>

(* Faulty variant: a node that finds no slot is counted as well. *)
PutOffCounted(a) ==
  /\ ~Connected /\ a \notin PendingNodes
  /\ pending' = [s \in Slots |->
                   IF s \in Free /\ \A t \in Free : s <= t THEN a ELSE pending[s]]
  /\ pendingCount' = pendingCount + 1
  /\ UNCHANGED <<busVars, mqtt, brokerVars, missed>>

PutOff(a) ==
  /\ ~Connected /\ a \notin PendingNodes
  /\ \E s \in Free :
       /\ \A t \in Free : s <= t
       /\ pending' = [pending EXCEPT ![s] = a]
  /\ pendingCount' = pendingCount + 1
  /\ UNCHANGED <<busVars, mqtt, brokerVars, missed>>

(* ha_disc_publish_all calls it for the READY nodes in the order of the    *)
(* registry's table, which may be any.                                     *)
PublishAllNow ==
  /\ Connected
  /\ retained' = Configured(ReadyNodes)
  /\ UNCHANGED <<busVars, mqtt, serviceVars, status, missed>>

PutAllOff ==
  /\ ~Connected
  /\ pending' \in [Slots -> Addr \union {NoAddr}]
  /\ \A s \in PendingSlots : pending'[s] = pending[s]
  /\ \A s, t \in Free : /\ s < t /\ pending'[t] # NoAddr => pending'[s] # NoAddr
                        /\ s # t /\ pending'[t] # NoAddr => pending'[s] # pending'[t]
  /\ {pending'[s] : s \in Free} \subseteq (ReadyNodes \ PendingNodes) \union {NoAddr}
  /\ \A a \in ReadyNodes \ PendingNodes :
       (\A s \in Free : pending'[s] # a) => \A s \in Free : pending'[s] # NoAddr
  /\ pendingCount' = Cardinality({s \in Slots : pending'[s] # NoAddr})
  /\ UNCHANGED <<busVars, mqtt, brokerVars, missed>>

(* ha_disc_flush_pending.  A node whose publishing fails stays in the list. *)
(* When MQTT is down each node is put off again, which finds it in the      *)
(* list, says OK and so has it taken out.                                   *)

(* Faulty variant: the result of publishing is not looked at. *)
AllGone == PendingSlots

Done == {s \in PendingSlots : ~Connected \/ pending[s] \in ReadyNodes}

Flush ==
  /\ pending' = [s \in Slots |-> IF s \in Done THEN NoAddr ELSE pending[s]]
  /\ pendingCount' = pendingCount - Cardinality(Done)
  /\ retained' = IF Connected THEN Configured(PendingNodes \intersect ReadyNodes)
                              ELSE retained
  /\ UNCHANGED <<busVars, mqtt, status, missed>>

(* handle_mqtt_connected, on an event that nothing in the repository emits *)
(* and that is not about MQTT.                                             *)
NetUp == Flush

(* Faulty variant of the task: a single node is left waiting.              *)
TaskForMany == Connected /\ pendingCount > 1 /\ Flush

Task == Connected /\ pendingCount > 0 /\ Flush

-----------------------------------------------------------------------------
(* handle_node_removed and ha_disc_unpublish_node, when the dispatcher     *)
(* gets to the event.  Nothing asks whether the node is still gone, and    *)
(* when MQTT is down the removal is dropped.                               *)
NodeLeft ==
  /\ left # << >>
  /\ left' = Tail(left)
  /\ IF Connected
     THEN /\ retained' = [retained EXCEPT ![Head(left)] = {}]
          /\ missed' = missed \ {Head(left)}
     ELSE /\ UNCHANGED retained
          /\ missed' = IF node[Head(left)] = "GONE" THEN Missed(Head(left)) ELSE missed
  /\ UNCHANGED <<node, caps, mqtt, serviceVars, status>>

-----------------------------------------------------------------------------
Next ==
  \/ \E a \in Addr :
       \/ AddNode(a) \/ SetState(a, "JOINED") \/ SetState(a, "READY") \/ RemoveNode(a)
       \/ \E E \in SUBSET Entities : ComputeCaps(a, E)
       \/ PublishNow(a) \/ PutOff(a)
  \/ Connect \/ Disconnect
  \/ PublishAllNow \/ PutAllOff
  \/ NetUp \/ Task
  \/ NodeLeft

(* ha_disc_task polls every HA_DISC_POLLING_INTERVAL_MS. *)
Spec == Init /\ [][Next]_vars /\ WF_vars(Task)

-----------------------------------------------------------------------------
(* Types of the state. *)
TypeOK ==
  /\ node \in [Addr -> {"GONE", "JOINED", "READY"}]
  /\ caps \in [Addr -> SUBSET Entities]
  /\ left \in Seq(Addr) /\ Len(left) <= MaxLeft
  /\ mqtt \in {"DISCONNECTED", "CONNECTED"}
  /\ pending \in [Slots -> Addr \union {NoAddr}]
  /\ pendingCount \in 0 .. MaxPending
  /\ retained \in [Addr -> SUBSET Entities]
  /\ status \in {"none", "online", "offline"}
  /\ missed \subseteq Addr

(* The task goes by pending_count and the flush by the list: they agree,   *)
(* and publishes of one node are coalesced, as the specification of the    *)
(* service (docs/spec/50_home_assistant_discovery_T080.yaml) wants.        *)
PendingConsistent ==
  /\ pendingCount = Cardinality(PendingSlots)
  /\ Cardinality(PendingNodes) = Cardinality(PendingSlots)

(* A node that was put off leaves the list only with everything that the   *)
(* capability service knows of it configured at the broker, or, against    *)
(* what the specification of the service expects (ha_mqtt_down_then_up),   *)
(* in a flush while MQTT is down, which empties the list and publishes     *)
(* nothing.                                                                *)
PendingPublished ==
  [][\A a \in PendingNodes \ PendingNodes' :
       \/ caps[a] \subseteq retained'[a]
       \/ ~Connected /\ PendingNodes' = {}]_vars

(* Home Assistant shows a device that is not in the registry only as long  *)
(* as the news of its removal is on its way, or if it was lost: no late    *)
(* flush brings a device back.                                             *)
RetainedExplained ==
  \A a \in Addr : retained[a] # {} =>
    \/ node[a] # "GONE"
    \/ \E i \in DOMAIN left : left[i] = a
    \/ a \in missed

(* The status at the broker, by which Home Assistant takes the bridge for  *)
(* available, is the adapter's.                                            *)
StatusTrue == status = "online" <=> Connected

(* A node that waits in the list when MQTT is up and the node READY, and   *)
(* has something that the broker was not told, is published in the end,    *)
(* with all that is known of it, unless one of the two ends first.  (One   *)
(* that a flush took off the list while MQTT was down does not wait;       *)
(* nothing publishes it: see PendingPublished.)                            *)
Unpublished(a) ==
  Connected /\ node[a] = "READY" /\ ~(caps[a] \subseteq retained[a])

PublishedOnceUp(a) == a \in PendingNodes /\ Unpublished(a) ~> ~Unpublished(a)

=============================================================================

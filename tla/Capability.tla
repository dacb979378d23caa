----------------------------- MODULE Capability -----------------------------
(***************************************************************************)
(* The way of a value from a device to the broker: the registry's tables   *)
(* of endpoints and clusters (services/src/registry.c), the cache of the   *)
(* capability service (services/src/capability.c), the event bus, and the  *)
(* MQTT adapter, which publishes what the bus tells it                     *)
(* (adapters/mqtt_adapter/mqtt_adapter.c).  The local node                 *)
(* (services/local_node/local_node.c) is a device that is polled.          *)
(*                                                                         *)
(* This is the host build: one fibre runs at a time, and every call here   *)
(* is atomic.  It starts where main.c starts the scheduler, the local node *)
(* set up.  The bus is the queue that EventBus implements; events that are *)
(* of no concern here only take up room.  The broker is external; of a     *)
(* topic it shows the last message.                                        *)
(***************************************************************************)
EXTENDS Integers, Sequences, FiniteSets, Values

CONSTANTS
  Addr,          \* IEEE addresses
  Local,         \* LOCAL_NODE_EUI64
  Clusters,      \* the clusters of devices, by name
  Offers,        \* the endpoints that each device has, with their clusters
  Raw,           \* the values an attribute may have, by capability
  Inexact,       \* hundredths of a degree that are one less after a division
                 \* and a multiplication by 100 in single precision
  MaxNodes,      \* REG_MAX_NODES
  MaxEndpoints,  \* REG_MAX_ENDPOINTS
  MaxClusters,   \* REG_MAX_CLUSTERS
  MaxCache,      \* MAX_CAP_CACHE
  MaxNodeCaps,   \* MAX_NODE_CAPS
  BusSize,       \* the events that the bus has room for
  NoValue        \* what a capability has before its first report

(* cluster_map: the capability of a cluster, by the one attribute of it    *)
(* that is mapped.                                                         *)
ClusterMap ==
  [onoff       |-> "light.on",
   level       |-> "light.level",
   color       |-> "light.color_temp",
   temperature |-> "sensor.temperature",
   humidity    |-> "sensor.humidity"]

Mapped    == DOMAIN ClusterMap
Caps      == {ClusterMap[c] : c \in Mapped}
LocalCaps == {"light.on", "sensor.temperature"}
Devices   == Addr \ {Local}

ASSUME LocalAssumption == Local \in Addr
ASSUME ClustersAssumption == Mapped \subseteq Clusters
ASSUME RawAssumption   == Raw \in [Caps -> SUBSET Int] /\ NoValue \notin Int
ASSUME OffersAssumption ==
  /\ Offers \in [Devices -> Seq([id : Nat, clusters : Seq(Clusters)])]
  /\ \A a \in Devices :
       /\ \A i, j \in DOMAIN Offers[a] : Offers[a][i].id = Offers[a][j].id => i = j
       /\ \A i \in DOMAIN Offers[a] : IsInjective(Offers[a][i].clusters)
ASSUME SizesAssumption ==
  /\ {MaxNodes, MaxEndpoints, MaxCache, BusSize} \subseteq Nat \ {0}
  /\ {MaxClusters, MaxNodeCaps} \subseteq Nat \ {0, 1}

VARIABLES
  registered,  \* the addresses of the registry's nodes
  endpoints,   \* of each node, its endpoints in the order of the table
  cache,       \* service.cache, whose entries are never given up
  polled,      \* local_node.last_button and last_temperature
  bus,         \* the events that wait, oldest first
  mqtt,        \* adapter.state
  broker,      \* what the broker shows, by topic
  computed,    \* history: the nodes whose clusters are those of the last call
               \* to cap_compute_for_node
  missed       \* history: the topics whose newest value was lost on its way

registryVars == <<registered, endpoints, computed>>
busVars      == <<bus, missed>>
brokerVars   == <<mqtt, broker>>
vars == <<registryVars, cache, polled, busVars, brokerVars>>

Connected == mqtt = "CONNECTED"
Polls     == {r \in [LocalCaps -> UNION {Raw[cap] : cap \in LocalCaps}] :
                \A cap \in LocalCaps : r[cap] \in Raw[cap]}

-----------------------------------------------------------------------------
(* Events.  emit_state_changed says what a capability of a node has        *)
(* become.  The event of an interview's end has the same type, but only an *)
(* address: it is published as the state of capability 0, "unknown", and   *)
(* counts as other.                                                        *)

Topics == Addr \X Caps

Other           == [kind |-> "other"]
State(topic, v) == [kind |-> "state", topic |-> topic, val |-> v]

TopicOf(event) == IF event.kind = "state" THEN {event.topic} ELSE {}

(* os_event_emit: a full bus refuses, and no caller asks. *)

(* Faulty variant: full is noticed one event late. *)
EmittedOver(s, event) ==
  IF Len(s.bus) <= BusSize
  THEN [s EXCEPT !.bus = Append(@, event), !.missed = @ \ TopicOf(event)]
  ELSE [s EXCEPT !.missed = @ \union TopicOf(event)]

Emitted(s, event) ==
  IF Len(s.bus) < BusSize
  THEN [s EXCEPT !.bus = Append(@, event), !.missed = @ \ TopicOf(event)]
  ELSE [s EXCEPT !.missed = @ \union TopicOf(event)]

Now == [cache |-> cache, bus |-> bus, missed |-> missed]

Become(s) == cache' = s.cache /\ bus' = s.bus /\ missed' = s.missed

-----------------------------------------------------------------------------
(* The capability service. *)

CacheOf(entries, a) == {i \in DOMAIN entries : entries[i].addr = a}

FindCache(entries, a) ==
  CHOOSE i \in CacheOf(entries, a) : \A j \in CacheOf(entries, a) : i <= j

HasCap(entries, a, cap) ==
  /\ CacheOf(entries, a) # {}
  /\ cap \in DOMAIN entries[FindCache(entries, a)].caps

CapState(entries, a, cap) == entries[FindCache(entries, a)].caps[cap]

(* The endpoints' mapped clusters are taken in the order of the tables, as *)
(* many as the entry holds; a capability that several endpoints have takes *)
(* as many places, but is one.                                             *)
Places(eps) ==
  {p \in (1 .. MaxEndpoints) \X (1 .. MaxClusters) :
     /\ p[1] \in DOMAIN eps
     /\ p[2] \in DOMAIN eps[p[1]].clusters
     /\ eps[p[1]].clusters[p[2]] \in Mapped}

Before(p, q) == p[1] < q[1] \/ (p[1] = q[1] /\ p[2] < q[2])

CapsOf(eps) ==
  {ClusterMap[eps[p[1]].clusters[p[2]]] :
     p \in {q \in Places(eps) :
              Cardinality({r \in Places(eps) : Before(r, q)}) < MaxNodeCaps}}

(* cap_compute_for_node: the values are reset. *)
Blank(a, eps) == [addr |-> a, caps |-> [cap \in CapsOf(eps) |-> NoValue]]

Allocated(entries, entry) ==
  IF Len(entries) < MaxCache THEN Append(entries, entry) ELSE entries

(* Faulty variant: an entry that the node has already is not looked for. *)
ComputedAnew(entries, a, eps) == Allocated(entries, Blank(a, eps))

Computed(entries, a, eps) ==
  IF CacheOf(entries, a) # {}
  THEN [entries EXCEPT ![FindCache(entries, a)] = Blank(a, eps)]
  ELSE Allocated(entries, Blank(a, eps))

(* cap_handle_attribute_report, for an attribute that is mapped.  The      *)
(* capability is looked for in the cache, not in the registry.             *)
Value(cap, raw) == IF cap = "light.level" THEN Percent(raw) ELSE raw

Noted(s, a, cap, v) == [s EXCEPT !.cache[FindCache(s.cache, a)].caps[cap] = v]

(* Faulty variant: the event says what the capability was. *)
ReportedLate(s, a, cap, raw) ==
  IF HasCap(s.cache, a, cap)
  THEN Emitted(Noted(s, a, cap, Value(cap, raw)),
               State(<<a, cap>>, CapState(s.cache, a, cap)))
  ELSE s

Reported(s, a, cap, raw) ==
  IF HasCap(s.cache, a, cap)
  THEN Emitted(Noted(s, a, cap, Value(cap, raw)),
               State(<<a, cap>>, Value(cap, raw)))
  ELSE s

Compute(a) ==
  /\ a \in registered
  /\ cache' = Computed(cache, a, endpoints[a])
  /\ computed' = computed \union {a}
  /\ UNCHANGED <<registered, endpoints, polled, busVars, brokerVars>>

Report(a, cluster, raw) ==
  /\ Become(Reported(Now, a, ClusterMap[cluster], raw))
  /\ UNCHANGED <<registryVars, polled, brokerVars>>

(* Some event that is of no concern here: cap_execute_command's, which has *)
(* no subscriber, the end of an interview, and those of other publishers.  *)
Emit(event) ==
  /\ Become(Emitted(Now, event))
  /\ UNCHANGED <<polled, brokerVars>>

Command == Emit(Other) /\ UNCHANGED registryVars

-----------------------------------------------------------------------------
(* The registry. *)

AddNode(a) ==
  /\ a \notin registered /\ Cardinality(registered) < MaxNodes
  /\ registered' = registered \union {a}
  /\ Emit(Other)
  /\ UNCHANGED <<endpoints, computed>>

RemoveNode(a) ==
  /\ a \in registered
  /\ registered' = registered \ {a}
  /\ endpoints' = [endpoints EXCEPT ![a] = << >>]
  /\ computed' = computed \ {a}
  /\ Emit(Other)

(* The stages ACTIVE_EP and SIMPLE_DESC of an interview: reg_add_endpoint  *)
(* and reg_add_cluster for all that the device has.  What is there already *)
(* is found; what there is no room for is left out.                        *)
UpTo(seq, n) == SubSeq(seq, 1, IF Len(seq) < n THEN Len(seq) ELSE n)

EndpointsOf(a) ==
  IF endpoints[a] # << >> THEN endpoints[a]
  ELSE LET eps == UpTo(Offers[a], MaxEndpoints)
       IN  [i \in DOMAIN eps |-> [eps[i] EXCEPT !.clusters = << >>]]

ClustersOf(a) ==
  [i \in DOMAIN endpoints[a] |->
     [endpoints[a][i] EXCEPT !.clusters = UpTo(Offers[a][i].clusters, MaxClusters)]]

Describe(a, eps) ==
  /\ a \in registered
  /\ endpoints' = [endpoints EXCEPT ![a] = eps]
  /\ computed' = IF endpoints[a] = eps THEN computed ELSE computed \ {a}
  /\ UNCHANGED <<registered, cache, polled, busVars, brokerVars>>

ActiveEndpoints(a)   == Describe(a, EndpointsOf(a))
SimpleDescriptors(a) == Describe(a, ClustersOf(a))

-----------------------------------------------------------------------------
(* The local node: local_node_task reports what has changed. *)

Changed(s, r, cap) ==
  IF r[cap] # polled[cap] THEN Reported(s, Local, cap, r[cap]) ELSE s

(* Faulty variant: of two changes in one round, the second is not told. *)
PollButtonFirst(r) ==
  /\ r \in Polls
  /\ polled' = r
  /\ Become(IF r["light.on"] # polled["light.on"]
            THEN Changed(Now, r, "light.on") ELSE Changed(Now, r, "sensor.temperature"))
  /\ UNCHANGED <<registryVars, brokerVars>>

Poll(r) ==
  /\ r \in Polls
  /\ polled' = r
  /\ Become(Changed(Changed(Now, r, "light.on"), r, "sensor.temperature"))
  /\ UNCHANGED <<registryVars, brokerVars>>

(* local_node_init passes the temperature through a float. *)
First(r) ==
  [cap \in LocalCaps |-> IF cap = "sensor.temperature" /\ r[cap] \in Inexact
                         THEN r[cap] - 1 ELSE r[cap]]

LocalEndpoint == [id |-> 1, clusters |-> <<"onoff", "temperature">>]

(* os_init's event, reg_add_node's, and the two first values, as far as    *)
(* there is room.                                                          *)
Booted(r) ==
  LET s0 == Emitted(Emitted([cache |-> << Blank(Local, <<LocalEndpoint>>) >>,
                             bus |-> << >>, missed |-> {}], Other), Other)
  IN  Reported(Reported(s0, Local, "light.on", First(r)["light.on"]),
               Local, "sensor.temperature", First(r)["sensor.temperature"])

-----------------------------------------------------------------------------
(* The MQTT adapter and the dispatcher. *)

Connect ==
  /\ mqtt' = "CONNECTED"
  /\ UNCHANGED <<registryVars, cache, polled, busVars, broker>>

Disconnect ==
  /\ mqtt' = "DISCONNECTED"
  /\ UNCHANGED <<registryVars, cache, polled, busVars, broker>>

Waiting(topic) == {i \in DOMAIN bus : bus[i].kind = "state" /\ bus[i].topic = topic}

(* mqtt_publish_state: without a connection the value is gone. *)
PublishState(event) ==
  IF Connected
  THEN broker' = [broker EXCEPT ![event.topic] = event.val] /\ UNCHANGED missed
  ELSE /\ missed' = IF Waiting(event.topic) = {1}
                    THEN missed \union {event.topic} ELSE missed
       /\ UNCHANGED broker

(* Faulty variant: of two values that wait, the older one is published last. *)
DispatchNewest ==
  /\ bus # << >>
  /\ bus' = SubSeq(bus, 1, Len(bus) - 1)
  /\ IF bus[Len(bus)].kind = "state" THEN PublishState(bus[Len(bus)])
     ELSE UNCHANGED <<broker, missed>>
  /\ UNCHANGED <<registryVars, cache, polled, mqtt>>

Dispatch ==
  /\ bus # << >>
  /\ bus' = Tail(bus)
  /\ IF Head(bus).kind = "state" THEN PublishState(Head(bus))
     ELSE UNCHANGED <<broker, missed>>
  /\ UNCHANGED <<registryVars, cache, polled, mqtt>>

Init ==
  /\ registered = {Local} /\ computed = {Local}
  /\ endpoints = [a \in Addr |-> IF a = Local THEN <<LocalEndpoint>> ELSE << >>]
  /\ polled \in Polls
  /\ cache = Booted(polled).cache
  /\ bus = Booted(polled).bus /\ missed = Booted(polled).missed
  /\ mqtt = "DISCONNECTED"
  /\ broker = [topic \in Topics |-> NoValue]

Next ==
  \/ \E a \in Devices : AddNode(a) \/ RemoveNode(a) \/ Compute(a)
                      \/ ActiveEndpoints(a) \/ SimpleDescriptors(a)
  \/ \E a \in Devices, cluster \in Mapped :
       \E raw \in Raw[ClusterMap[cluster]] : Report(a, cluster, raw)
  \/ \E r \in Polls : Poll(r)
  \/ Command \/ Connect \/ Disconnect \/ Dispatch

(* The dispatcher's loop never ends. *)
Spec == Init /\ [][Next]_vars /\ WF_vars(Dispatch)

-----------------------------------------------------------------------------
Known == Int \union {NoValue}

IsEvent(e) == e = Other \/ e \in [kind : {"state"}, topic : Topics, val : Known]

IsEntry(e) == \E C \in SUBSET Caps : e \in [addr : Addr, caps : [C -> Known]]

TypeOK ==
  /\ registered \subseteq Addr /\ computed \subseteq registered /\ Local \in computed
  /\ endpoints \in [Addr -> Seq([id : Int, clusters : Seq(Clusters)])]
  /\ \A a \in Addr :
       /\ Len(endpoints[a]) <= MaxEndpoints
       /\ \A i \in DOMAIN endpoints[a] : Len(endpoints[a][i].clusters) <= MaxClusters
  /\ Len(cache) <= MaxCache /\ \A i \in DOMAIN cache : IsEntry(cache[i])
  /\ polled \in Polls
  /\ Len(bus) <= BusSize /\ \A i \in DOMAIN bus : IsEvent(bus[i])
  /\ mqtt \in {"CONNECTED", "DISCONNECTED"}
  /\ broker \in [Topics -> Known]
  /\ missed \subseteq Topics

(* However often nodes come, change, are computed again and leave, a node  *)
(* has one entry at most, and the entry has the capabilities of the node's *)
(* clusters, those that there is room for; the service gives up only when  *)
(* the cache is full.                                                      *)
OneEntry == \A a \in Addr : Cardinality(CacheOf(cache, a)) <= 1

CacheMirrors ==
  /\ OneEntry
  /\ \A a \in computed :
       IF CacheOf(cache, a) = {} THEN Len(cache) = MaxCache
       ELSE DOMAIN cache[FindCache(cache, a)].caps = CapsOf(endpoints[a])

(* Whatever the order of reports, disconnections and dispatches: when no   *)
(* event of a capability waits, the broker shows what cap_get_state says,  *)
(* unless the newest value met a full bus or a lost connection.            *)
BrokerCurrent ==
  \A a \in Addr, cap \in Caps :
    /\ HasCap(cache, a, cap) /\ CapState(cache, a, cap) # NoValue
    /\ Waiting(<<a, cap>>) = {} /\ <<a, cap>> \notin missed
    => broker[<<a, cap>>] = CapState(cache, a, cap)

(* The local node's capabilities are what was last polled, or one less for *)
(* a temperature that has not changed since the start.                     *)
LocalShown ==
  \A cap \in LocalCaps :
    /\ HasCap(cache, Local, cap)
    /\ CapState(cache, Local, cap) \in {polled[cap], First(polled)[cap]}

(* A reading that stays gets to the broker, if it is not lost.             *)
Stays(cap) == <>[][polled'[cap] = polled[cap]]_vars

SensorShown ==
  \A cap \in LocalCaps :
    /\ Stays(cap)
    /\ <>[](Connected /\ <<Local, cap>> \notin missed)
    => <>[](broker[<<Local, cap>>] \in {polled[cap], First(polled)[cap]})

=============================================================================

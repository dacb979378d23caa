------------------------------- MODULE Zigbee -------------------------------
(***************************************************************************)
(* The Zigbee adapter of the ESP32-C6 build: drivers/zigbee/zb_real.c and  *)
(* zb_cmd.c.  Two tasks touch its state: the one that runs app_main, and   *)
(* later the shell fibre, which call the zba_ functions, and the Zigbee    *)
(* task, in which the vendor's stack calls the signal handler and the      *)
(* send-status callback.  The Zigbee task has the higher priority, so what *)
(* it runs is atomic to the others, and happens between any two of their   *)
(* steps, except while they hold the stack's lock.                         *)
(*                                                                         *)
(* The stack itself is external: its phases are what the signal handler    *)
(* relies on, and it answers each command it took in its own time.         *)
(***************************************************************************)
EXTENDS Naturals, Sequences, FiniteSets

CONSTANTS
  Devices,      \* EUI64s
  Nwk,          \* network addresses
  NoNwk,        \* 0xFFFF
  CacheSize,    \* ZB_MAX_DEVICES
  PendingSize   \* ZB_MAX_PENDING

ASSUME DevicesAssumption     == Devices # {}
ASSUME NoNwkAssumption       == NoNwk \notin Nwk
ASSUME CacheSizeAssumption   == CacheSize \in Nat \ {0}
ASSUME PendingSizeAssumption == PendingSize \in Nat \ {0}

PendingSlots == 1 .. PendingSize

States == {"UNINITIALIZED", "INITIALIZING", "READY", "ERROR"}

(* What the stack is doing: not started, its task created, initialising,   *)
(* forming a network, in operation, or given up.                           *)
Phases == {"none", "started", "initialization", "formation", "up", "dead"}

VARIABLES
  state,      \* s_zb_state
  boot,       \* where app_main is in zba_init
  phase,      \* of the stack
  cache,      \* s_nwk_cache, as a sequence of s_nwk_count entries
  inUse,      \* the slots of s_pending_cmds with in_use set; tsn_valid is
              \* never set, as no command asks for pending_cmd_set_tsn
  pc,         \* where the caller is in zba_send_onoff or zba_send_level
  target, nwk, slot,   \* its argument and its locals
  onAir,      \* how many commands the stack took and has not answered
  sent,       \* the requests made of the stack, as <<device, address>>
  taken,      \* history: how many of them the stack took
  announced,  \* history: the addresses that each device has announced
  latest,     \* history: the last of them
  events      \* history: the events emitted

bootVars  == <<state, boot, phase>>
callVars  == <<pc, target, nwk, slot>>
stackVars == <<onAir, sent>>
history   == <<taken, announced, latest, events>>
vars      == <<bootVars, cache, inUse, callVars, stackVars, history>>

NoSlot == 0

Init ==
  /\ state = "UNINITIALIZED" /\ boot = "init" /\ phase = "none"
  /\ cache = << >> /\ inUse = {}
  /\ pc = "idle" /\ target = CHOOSE d \in Devices : TRUE
  /\ nwk = NoNwk /\ slot = NoSlot
  /\ onAir = 0 /\ sent = {}
  /\ taken = 0 /\ announced = {} /\ latest = [d \in Devices |-> NoNwk]
  /\ events = {}

-----------------------------------------------------------------------------
(* zb_state_transition: an invalid transition leaves the state.            *)
Allowed == {<<"UNINITIALIZED", "INITIALIZING">>, <<"INITIALIZING", "READY">>,
            <<"INITIALIZING", "ERROR">>, <<"READY", "ERROR">>}

Transition(new) == state' = IF <<state, new>> \in Allowed THEN new ELSE state

(* zba_init creates the Zigbee task, which starts at once, and only then   *)
(* makes its transition.                                                   *)
CreateTask ==
  /\ boot = "init" /\ state = "UNINITIALIZED"
  /\ phase' = "started" /\ boot' = "created"
  /\ UNCHANGED <<state, cache, inUse, callVars, stackVars, history>>

CreateTaskFails ==
  /\ boot = "init" /\ state = "UNINITIALIZED"
  /\ boot' = "done"
  /\ UNCHANGED <<state, phase, cache, inUse, callVars, stackVars, history>>

InitReturns ==
  /\ boot = "created"
  /\ Transition("INITIALIZING")
  /\ boot' = "done"
  /\ UNCHANGED <<phase, cache, inUse, callVars, stackVars, history>>

-----------------------------------------------------------------------------
(* esp_zb_app_signal_handler.                                              *)

SkipStartup ==
  /\ phase = "started"
  /\ phase' = "initialization"
  /\ UNCHANGED <<state, boot, cache, inUse, callVars, stackVars, history>>

(* Faulty variant: the first start is taken for the end of the start-up.   *)
StartMeansReady(ok) ==
  /\ phase = "initialization"
  /\ phase' = IF ok THEN "formation" ELSE "dead"
  /\ IF ok THEN Transition("READY") ELSE Transition("ERROR")
  /\ UNCHANGED <<boot, cache, inUse, callVars, stackVars, history>>

FirstStart(ok) ==
  /\ phase = "initialization"
  /\ phase' = IF ok THEN "formation" ELSE "dead"
  /\ IF ok THEN UNCHANGED state ELSE Transition("ERROR")
  /\ UNCHANGED <<boot, cache, inUse, callVars, stackVars, history>>

Formation(ok) ==
  /\ phase = "formation"
  /\ phase' = IF ok THEN "up" ELSE "dead"
  /\ Transition(IF ok THEN "READY" ELSE "ERROR")
  /\ events' = IF ok THEN events \union {"ZB_STACK_UP"} ELSE events
  /\ UNCHANGED <<boot, cache, inUse, callVars, stackVars, taken, announced, latest>>

(* nwk_cache_insert: a known device gets its new address, an unknown one   *)
(* an entry if one is left.                                                *)
Entry(d, n) == [eui64 |-> d, nwk |-> n]

EntriesOf(d) == {i \in DOMAIN cache : cache[i].eui64 = d}

(* Faulty variant: a device that announces itself again is added again.    *)
InsertAlways(d, n) ==
  IF Len(cache) < CacheSize THEN Append(cache, Entry(d, n)) ELSE cache

(* Faulty variant: the room that is left is not looked at.                 *)
InsertUnbounded(d, n) ==
  IF EntriesOf(d) # {}
  THEN [i \in DOMAIN cache |-> IF i \in EntriesOf(d) THEN Entry(d, n) ELSE cache[i]]
  ELSE Append(cache, Entry(d, n))

Insert(d, n) ==
  IF EntriesOf(d) # {}
  THEN [i \in DOMAIN cache |-> IF i \in EntriesOf(d) THEN Entry(d, n) ELSE cache[i]]
  ELSE IF Len(cache) < CacheSize THEN Append(cache, Entry(d, n)) ELSE cache

DeviceAnnounce(d, n) ==
  /\ phase = "up"
  /\ cache' = Insert(d, n)
  /\ announced' = announced \union {<<d, n>>}
  /\ latest' = [latest EXCEPT ![d] = n]
  /\ events' = events \union {"ZB_ANNOUNCE"}
  /\ UNCHANGED <<bootVars, inUse, callVars, stackVars, taken>>

(* zb_send_status_cb looks for the slot with the command's TSN.  No slot   *)
(* has a valid one, so it finds none, and neither emits an event nor frees *)
(* anything.                                                               *)
SendStatus ==
  /\ onAir > 0
  /\ onAir' = onAir - 1
  /\ UNCHANGED <<bootVars, cache, inUse, callVars, sent, history>>

-----------------------------------------------------------------------------
(* zba_send_onoff and zba_send_level, which differ in the payload alone.   *)

Return == /\ pc' = "idle" /\ nwk' = NoNwk /\ slot' = NoSlot
          /\ UNCHANGED target

CheckReady(d) ==
  /\ boot = "done" /\ pc = "idle"
  /\ state = "READY"
  /\ pc' = "lookup" /\ target' = d
  /\ UNCHANGED <<bootVars, cache, inUse, nwk, slot, stackVars, history>>

Found == IF EntriesOf(target) = {} THEN NoNwk
         ELSE cache[CHOOSE i \in EntriesOf(target) : \A j \in EntriesOf(target) : i <= j].nwk

LookupFails ==
  /\ pc = "lookup"
  /\ Found = NoNwk
  /\ Return
  /\ UNCHANGED <<bootVars, cache, inUse, stackVars, history>>

(* Faulty variant: the address of an unknown device is used, the broadcast *)
(* address.                                                                *)
LookupUnchecked ==
  /\ pc = "lookup"
  /\ nwk' = Found /\ pc' = "alloc"
  /\ UNCHANGED <<bootVars, cache, inUse, target, slot, stackVars, history>>

Lookup ==
  /\ pc = "lookup"
  /\ Found # NoNwk
  /\ nwk' = Found /\ pc' = "alloc"
  /\ UNCHANGED <<bootVars, cache, inUse, target, slot, stackVars, history>>

Alloc ==
  /\ pc = "alloc"
  /\ \E s \in PendingSlots \ inUse :
       /\ \A r \in PendingSlots \ inUse : s <= r
       /\ inUse' = inUse \union {s}
       /\ slot' = s
  /\ pc' = "request"
  /\ UNCHANGED <<bootVars, cache, target, nwk, stackVars, history>>

AllocFails ==
  /\ pc = "alloc"
  /\ inUse = PendingSlots
  /\ Return
  /\ UNCHANGED <<bootVars, cache, inUse, stackVars, history>>

(* Between esp_zb_lock_acquire and esp_zb_lock_release.                    *)
Request ==
  /\ pc = "request"
  /\ sent' = sent \union {<<target, nwk>>}
  /\ onAir' = onAir + 1 /\ taken' = taken + 1
  /\ Return
  /\ UNCHANGED <<bootVars, cache, inUse, announced, latest, events>>

(* Faulty variant: the slot of a refused command is not given back.        *)
RefusedAndKept ==
  /\ pc = "request"
  /\ sent' = sent \union {<<target, nwk>>}
  /\ Return
  /\ UNCHANGED <<bootVars, cache, inUse, onAir, history>>

RequestRefused ==
  /\ pc = "request"
  /\ sent' = sent \union {<<target, nwk>>}
  /\ inUse' = inUse \ {slot}
  /\ Return
  /\ UNCHANGED <<bootVars, cache, onAir, history>>

-----------------------------------------------------------------------------
Next ==
  \/ CreateTask \/ CreateTaskFails \/ InitReturns
  \/ SkipStartup
  \/ \E ok \in BOOLEAN : FirstStart(ok) \/ Formation(ok)
  \/ \E d \in Devices, n \in Nwk : DeviceAnnounce(d, n)
  \/ SendStatus
  \/ \E d \in Devices : CheckReady(d)
  \/ Lookup \/ LookupFails \/ Alloc \/ AllocFails \/ Request \/ RequestRefused

Spec == Init /\ [][Next]_vars

-----------------------------------------------------------------------------
(* Types of the state. *)
TypeOK ==
  /\ state \in States /\ boot \in {"init", "created", "done"} /\ phase \in Phases
  /\ cache \in Seq([eui64 : Devices, nwk : Nwk]) /\ Len(cache) <= CacheSize
  /\ inUse \subseteq PendingSlots
  /\ pc \in {"idle", "lookup", "alloc", "request"}
  /\ target \in Devices /\ nwk \in Nwk \union {NoNwk}
  /\ slot \in PendingSlots \union {NoSlot}
  /\ onAir \in 0 .. PendingSize /\ taken \in Nat
  /\ sent \subseteq Devices \X Nwk /\ announced \subseteq Devices \X Nwk
  /\ latest \in [Devices -> Nwk \union {NoNwk}]
  /\ events \subseteq {"ZB_STACK_UP", "ZB_ANNOUNCE"}

(* Devices are identified by EUI64 and change their network address.  The  *)
(* cache has one entry for a device, with its latest address, and none for *)
(* a device that has announced itself only if there is no room.            *)
CacheCurrent ==
  /\ \A i \in DOMAIN cache : cache[i].nwk = latest[cache[i].eui64]
  /\ \A i, j \in DOMAIN cache : cache[i].eui64 = cache[j].eui64 => i = j
  /\ \A d \in Devices : latest[d] # NoNwk /\ EntriesOf(d) = {} => Len(cache) = CacheSize

(* A command goes to an address that its device has had, although the      *)
(* Zigbee task may change the cache between the lookup and the request: an *)
(* outdated address is possible, another device's entry or the broadcast   *)
(* address is not.                                                         *)
SentToOwnAddress == sent \subseteq announced

(* The pending slots are those of commands the stack took, and of the one  *)
(* that is being sent: no path out of a send keeps a slot or gives back    *)
(* one that is not its own.                                                *)
SlotsAccounted ==
  Cardinality(inUse) = taken + (IF pc = "request" THEN 1 ELSE 0)

(* The adapter accepts commands only after it told that the network is up. *)
ReadyIsAnnounced == state = "READY" => "ZB_STACK_UP" \in events

(* specs/001-real-zigbee-adapter/data-model.md: a pending slot becomes     *)
(* empty when the send status is received.                                 *)
SlotsReclaimed == onAir = 0 /\ pc = "idle" => inUse = {}

(* specs/001-real-zigbee-adapter/tasks.md, T027 and T028: if the status is *)
(* not OK, transition to ERROR state.                                      *)
FailureRecorded == phase = "dead" /\ boot = "done" => state = "ERROR"

=============================================================================

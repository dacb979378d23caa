# A TLA+ verification of the ESP32-C6 Gateway OS

The repository is a small operating system and Zigbee-to-MQTT bridge in C. The same
source builds twice: for a Linux host (cooperative fibres in one thread, files as
storage, a simulated broker) and for the ESP32-C6 (fibres are FreeRTOS tasks, storage
is NVS, Zigbee is the vendor's stack). This project models the parts with state and
concurrency, checks them with TLC on small instances and proves most of the safety
properties with TLAPS for every size.

## 1. The system

| Component | State | Operations | Talks to |
|---|---|---|---|
| Event bus `os/src/os_event.c` | ring of 32 events (head, tail, count), 16 subscriber entries, three counters | init, publish, subscribe, unsubscribe, dispatch | everybody publishes; handlers are called from the dispatch fibre and may call the bus again |
| Persistence `os/src/os_persist.c` | write buffer, `writes_buffered`, schema version, files or NVS | init, put, get, del, flush, erase_all, set_schema_version, periodic task | registry (`reg_persist`), shell |
| Fibres `os/src/os_fibre.c` | list of control blocks, current, tick count, wake ticks (host); FreeRTOS tasks (target) | create, start, yield, sleep, return, tick | all tasks of `main.c` |
| Registry `services/src/registry.c` | table of nodes with endpoints, clusters, attributes | add, remove, find, set_state, add_endpoint/cluster, update_attribute, persist, restore | publishes JOINED and LEFT; interview, capability, discovery read it |
| Interview `services/src/interview.c` | table of interviews (address, stage, retries, two timers), `active_count` | start, cancel, process (polled) | registry by address, publishes CAP_STATE_CHANGED |
| Zigbee adapter `drivers/zigbee/zb_real.c`, `zb_cmd.c` | adapter state, address cache, pending command slots | init, start_coordinator, send_onoff/level, signal handler, send status | the vendor's stack, in a task of higher priority; event bus |
| HA discovery `services/ha_disc` | pending list of 32 nodes | publish_node, unpublish_node, publish_all, flush_pending | registry, capability, MQTT, NET_UP and DEVICE_LEFT events |
| Capability `services/src/capability.c` | cache of 32 nodes with up to 8 capabilities | compute_for_node, attribute report, execute_command | registry, publishes CAP_STATE_CHANGED, CAP_COMMAND |
| MQTT `adapters/mqtt_adapter` | connection state, counters | connect, disconnect, publish, reconnecting task | subscriber of CAP_STATE_CHANGED |
| Local node `services/local_node` | last button and temperature | init, poll every second | registry, capability |
| Quirks `services/src/quirks.c` | none; a table of four entries | find, apply to a value, apply to a command | nobody, as the program stands |
| Log, console and shells, drivers, fake adapter, `main.c` | little or none | | |

What is hard here, and so what the properties are for (each has its line in
`PROJECT.json`, "hazards"):

- **Reentrancy.** The dispatcher points into its ring and is half way through the
  subscriber table while handlers publish, subscribe and unsubscribe.
- **Preemption.** On the target the Zigbee task preempts everything, between any two
  memory accesses, and calls the same publish function.
- **Partial failure and crashes.** A flush writes entries one after the other, each
  with an open that truncates and a write that may fail.
- **References by address.** An interview holds no pointer to its node; the node may go,
  or go and come back, between two polls.
- **Timers.** Retries, a step time-out and an overall time-out, all looked at only when
  a poll happens; a tick counter that wraps.
- **Full tables**, each of which must leave everything consistent when it refuses.
- **A value in four places**: the device, the capability cache, an event on the bus and
  the broker. The bus may be full and the connection down, and nobody tells a value twice.
- **Conversions** that round differently on the way out and on the way back.

What makes each component correct: the bus loses, duplicates and reorders nothing and
delivers to the matching subscribers; the store reads back what it acknowledged; the
registry's and the interviews' tables agree with their counters and with the events
emitted, and every interview ends; the adapter's cache follows the announcements and its
slots come back; the scheduler wakes nobody early and everybody in the end, in turn; the
broker shows what the cache holds, and the cache what the device said last; a percentage
that is sent back as it is shown stays where it is.

## 2. Modules

    EventQueue  <--refines--  EventBus  <--  EventBusProofs
                              EventBusPreempt
    Persist  <--  PersistTarget           <--  PersistProofs
    KeyValue  <--refines--  PersistTarget
    Lifecycle (registry + interviews)     <--  LifecycleProofs
    Zigbee (tasks + stack)                <--  ZigbeeProofs
    Discovery (HA discovery + MQTT        <--  DiscoveryProofs
      connection + DEVICE_LEFT events)
    Float32  <--  Values
    Values  <--  Capability (registry     <--  CapabilityProofs
                   tables + cache + bus
                   + MQTT + local node)
            <--  LevelControl (a lamp     <--  LevelControlProofs
                   and who sets its level)
    Scheduler                             <--  SchedulerProofs
    FibreStart
    MCEventBus, MCPersist, MCLifecycle, MCZigbee, MCDiscovery, MCCapability,
      MCLevelControl, MCScheduler: instances for TLC

**EventBus** has a variable per field of the service and one action per call, or per
thing the dispatch loop does: `Publish`/`PublishFull`, `Subscribe`, `Unsubscribe`,
`DispatchBegin` (the snapshot of the count), `CallHandler`, `HandlerReturn`,
`SkipEntry`, `Advance`. The calls are atomic, because fibres switch only in
`os_yield` and `os_sleep`; they are enabled when no dispatch is on the stack or when a
handler is running, so every reentrant order is covered. An event is its type: the
payload is copied and never looked at. A null filter is one that spans all types.
`subscribe` on a full table and `unsubscribe` of an unknown handler change nothing and
need no action. No handler of the repository calls dispatch, so nested dispatch is not
modelled. `steady` and `called` are history. **EventQueue** is the abstract bounded FIFO.

**EventBusPreempt** is the same ring on the target, with `publish` and the end of the
dispatch loop split into their loads and stores, and a publisher that preempts them.

**Persist** is the host build. `buffer`, `writesBuffered`, `schemaVersion` and `storage`
are the code's; `pc`, `idx` and `pending` are the position in a flush, which a crash can
interrupt. `OpenFails`, `WriteFails` and `CloseFails` are the three ways a file write
goes wrong: before the old file is touched, after it was truncated and noticed, and
after it was truncated and unnoticed (`fclose`'s result is ignored). `DelFails` and
`EraseAll(kept)` are removals that fail. `logical` is what a client has been told,
`hurt` the keys for which that promise was given up. A crash makes a torn file's
content unspecified. Values are opaque, and one key holds the schema version.

**PersistTarget** adds the ESP32-C6 build, the second half of the file, and has both:
`build` says which one a behaviour is about. The buffer is handled alike (`NvsPut`,
`NvsSetSchemaVersion` and the flush's loop reuse the host's actions); storage is NVS,
which is external: a write is whole or not made, and outlives a crash for certain once
`nvs_commit` has returned ESP_OK after it. `survives` is what a restart may find of each
key, `flushed` the keys of the flush under way (the code counts them), `risky` those
that were deleted, or written under a commit that failed: the code commits no deletion,
and only logs a failed commit. `nvs_erase_all` may fail after the buffer was emptied, and
`nvs_flash_init` may find a partition that it has to erase.

**KeyValue** is the abstract store: for each key what was told, what a get reads, and
what a restart may find. It has no buffer, no positions in a flush and no files. A step
is a call about one key, a flush, an erasure, an erasure that failed, or a restart, and
is described key by key: `Put`, `Delete`, `WriteBack`, `GiveUp`, `Erase`. Storage may
only come to hold what is being read at that moment, or a spoilt value, and one step
gives up at most one value. `PersistTarget` maps to it with `Reads` (what `Get` returns
of each key) and `Kept` (the file's content on the host, `survives` on NVS).

**Lifecycle** composes the registry and the interview service. `InterviewProcess` is one
whole poll: time-outs, retries and the stage handler of every context, in table order.
A node is its state and what interviews found out (`known`); network address and
last_seen are left out. `Tick` passes a bit more than one step time-out. `Reboot`
empties both tables: `reg_restore` reads the number of nodes and restores none. Nothing
outside the tests and `interview.c` calls `interview_start` and `interview_cancel`; they
are modelled as calls a client may make at any time.

**Zigbee** has the two tasks: `app_main`, then the caller of the send functions, one
step per statement that reads or writes shared state; and the Zigbee task, whose handlers
are atomic to the other and come between any two of its steps, except under the
stack's lock (`Request`, `RequestRefused`). The stack is external: it goes through its
phases, and answers each command it took. Permit-join and the read, report and bind
functions change no state of the adapter.

**Discovery** is the HA discovery service in the host build, where every call is atomic,
together with what it depends on. `pending` and `pendingCount` are the service's,
`mqtt` the adapter's connection, `node` the registry's view of each device, `caps` the
capability cache (which keeps its entry when a device leaves) and `left` the
DEVICE_LEFT events on the bus; `retained` and `status` are the broker's, which is
external and keeps the last message per topic; `missed` is history. A call to publish
either reaches the broker (`PublishNow`) or puts the node off (`PutOff`); it does
nothing if the node is not READY, is in the list, or finds the list full. A flush while
MQTT is down puts each node off again, is told OK since it finds it in the list, and so
empties the list with nothing published, now or later. `NetUp` is the handler of an event that nothing in the repository
emits; `ha_disc_task` is what flushes. The two kinds of message (`binary_sensor` against
`sensor`) of contact and motion, which are published under one topic and would be
removed under another, cannot be reached: `cluster_map` produces no such capability. On
the target `mqtt_connect` stops at CONNECTING, so none of this is published there.

**Capability** follows a value from a device to the broker in the host build, where each
call is atomic. `registered` and `endpoints` are the registry's, `cache` the capability
service's, `polled` the local node's, `bus` the queue that EventBus implements, `mqtt`
and `broker` the adapter's connection and what the last message on each topic says.
`Compute`, `Report` and `Command` are the service's calls; `ActiveEndpoints` and
`SimpleDescriptors` the stages of an interview that fill the tables, from what a device
offers; `Poll` a round of the local node, which may find two changes; `Dispatch` the
handler of the adapter. `Emitted` is `os_event_emit`, whose result no caller looks at:
`missed` is history and has the topics whose newest value met a full bus or was
dispatched without a connection. The model starts where `main.c` starts the scheduler,
the local node registered and its two first values on the bus. They are dispatched
before `mqtt_task` connects (it sleeps a second first) and are lost; nothing publishes
states again after a connection (docs/spec/20_trace_harness_record_replay.yaml:47-48
wants "Restore registry -> MQTT up -> republish state/discovery"). Reports name an
endpoint that the service ignores, so two endpoints with one cluster share a capability;
the cache keeps the entry of a device that left. Only the local node calls
`cap_compute_for_node` and `cap_handle_attribute_report`; for other devices they are
modelled as calls that a client may make at any time, as their interface allows. The first
temperature passes through a float: 2005 hundredths become 2004 (`Inexact`). The end of an
interview emits an event of the same type that has only an address: the adapter takes it
for capability 0, "unknown", whose topic no report uses; it counts as an event of no
concern. The payload of a state event is longer than an event's 32 bytes and is cut off
by `os_event_emit` within the unused part of a value that is a boolean or a number.

**Float32** is C's single-precision arithmetic: conversion of an integer,
multiplication and division, each rounded to the nearest float (the toolchain's, hence
external). **Values** has the two conversions of a level, that of a temperature, and the
quirks, as operators.
**LevelControl** is a lamp, somebody who types percentages or dims it by hand, and an
automation that sends back what is shown. The quirks are where
`docs/spec/60_device_quirks_table.yaml` wants them; no code outside the tests calls them
yet. A name is a sequence of parts so that a prefix can be told; a temperature is a
float, which the `_TZE200` quirk multiplies by `0.1f` for a report and divides by it for a
command, rounding each time.

**Scheduler** is the host build: the loop (`Schedule`: wake the sleepers, find the next
ready fibre, switch), what a fibre does (`Yield`, `Sleep`, `Return`, `Create`) and the
tick thread. The idle fibre is one that only yields. `list` is the linked list, newest
first. **FibreStart** is creation and start on FreeRTOS.

Not modelled: the values of attributes in the registry, which only its shell reads;
logging (the bus's ring again, with text); consoles and shells, but for what the level
command makes of a number; drivers, the demo, the test double, the callbacks that no build
compiles; `main.c` (its effect is the initial states; note that it never creates
`os_persist_task`, so nothing flushes periodically as the program stands); the FreeRTOS
scheduler; and the host's `setjmp`/`longjmp` on one common stack, which is undefined
behaviour with outcomes no state machine narrows down, so the scheduler's model takes a
context switch at its word.

## 3. Runs

| Run | Question | Result |
|---|---|---|
| `eventbus` | Are the accounts right, does each event reach whom it should, does the loop end, and is the bus the FIFO, under reentrant handlers? | holds |
| `persist` | On both builds: is what a client was told is stored what it reads, and what is left of it after a crash; are both the abstract store? | holds, but for the keys in `hurt`, and in a crash those in the buffer, the flush or `risky` |
| `lifecycle` | Do the tables, counters, events and stages agree when devices leave, rejoin, are cancelled, are late and restart; does every interview end? | holds |
| `zigbee` | Does the cache follow the devices, do commands go to their device, are slots accounted for, is READY announced first? | holds |
| `discovery` | Does a put-off node leave the list only published, is one that waits when MQTT is up published in the end, does a late publish or flush leave the broker with a device that is gone? | holds, but for removals in `missed`, and for nodes that a flush while MQTT is down takes off the list |
| `capability` | Does the cache follow the registry, the broker the cache, and both the local node; is a reading that stays shown in the end? | holds, but for the topics in `missed` and devices the full cache has no room for |
| `levels` | What becomes of a percentage that is sent, reported and sent back again and again, for every level and quirk? Do a quirk's two directions undo each other, in the arithmetic they are computed in? | holds: a percentage loses at most two; a temperature is shown again bit for bit, and the device is told its own float or a neighbouring one |
| `scheduler` | Taking turns, no early wake across the wrap, every sleeper runs again? | holds |
| `eventbus_isr` | `os_event.h`: publish is "Safe for ISR context" | violated: an update of `count` is overwritten |
| `zigbee_slots` | `data-model.md`: a pending slot becomes empty when the send status is received | violated: a slot never learns its TSN, so none is found |
| `zigbee_failure` | `tasks.md`: a failed start-up ends in ERROR | violated: the transition is refused while `zba_init` has not made its own |
| `fibre_start` | `os_fibre.c`: a task is suspended until `os_fibre_start` resumes it | violated: one that first runs afterwards suspends itself for good |

The four violated statements are findings; each quotes the line it contradicts. Four more
disagreements are plain in the models and have no run. A flush that
comes before the connection loses every node that was put off, until someone asks for it
anew: `ha_disc_publish_node` says OK to each node it queues again, so the flush clears it
(docs/spec/50_home_assistant_discovery_T080.yaml:100-103, `ha_mqtt_down_then_up`, wants
`published_after_connect: true`). `PendingPublished` therefore has that flush as its
exception, and `WaitingPublished` speaks of nodes still in the list when MQTT is up. In the
program as it stands only the handler of NET_UP flushes without looking at the connection,
and nothing emits that event; `ha_disc_flush_pending` is public. A full bus refuses every
type of event alike, as os_event.h's OS_ERR_FULL says and EventQueue specifies, while
docs/spec/30_instrumentation_starvation_backpressure.yaml:46-61 wants joins, leaves and
commands never dropped. An interview whose overall time is up leaves its node INTERVIEWING (docs/spec/00_context_and_guardrails.yaml:45-47 wants
FAILED, which the code never assigns), which is why `InterviewEnds` speaks of the
interview and not of the node. And a flush that leaves entries behind clears the counter
that the periodic flush goes by, which is why `CounterExact` excepts `leftover`.

**Bounds.** `eventbus`: a ring of 3, so that it wraps, is full while an event is in
flight, and holds an event that is neither first nor last; 2 subscriber entries, so that
a handler can free the one before, at, or after the loop; 2 handlers, 2 event types and
filters that overlap; counters modulo 4, the smallest that exceeds the ring, so they
wrap all the time. `persist`: 2 data keys and the schema key compete for 2 entries, so
each put may find its key, a free entry or a full buffer; the counter wraps at 4. On the
target, `TargetBound` cuts off the states in which more than one key is at risk or given
up while NVS has been given more than one value: losses of several keys at once are
explored with one value, histories of two values with one key at risk.
`lifecycle`: 2 devices in tables of 2, so both tables are at times full and an entry can
be reused by the other device; 1 retry and a time-out of 2 units, enough to be late in
one stage, to give it up, and to time out as a whole (the code has 3 retries and 5
units). `zigbee`: 3 devices for a cache of 2, 2 addresses that devices exchange, 2
pending slots. `discovery`: 3 devices for a list of 2, so that a node finds it full; two
removals in flight, so that a device can leave twice and be back in between; one entity,
which is there or not; the leads-to is checked of one device, `Watched`, which stands for
all since nothing tells them apart. `scheduler`: two fibres and idle, created in any order; ticks modulo 8,
sleeps and gaps of at most 3, below half of the range as the assumption wants; both
sides of the wrap are reached. `zigbee` turns deadlock checking off because the adapter
stops: the slots run out (`zigbee_slots`) or the start-up fails. The violation runs use
the smallest instance that shows the behaviour. `capability`: the local node and two devices for a registry and a cache of 2, so one of
them finds the cache full and one the registry; a device with five mapped clusters on two
endpoints where tables hold two each and an entry two capabilities, so every limit cuts
something off, and one without any; a bus of 2, which is full after one poll that finds
two changes; two temperatures, one of them inexact. `levels`: nothing is cut down: all 256
levels, percentages up to 300 (the shell wraps at 256), a device for each quirk, and two
that nearly match one; and for the quirks every magnitude of the 16 bits of a reported
temperature (rounding does not look at the sign).

**Fairness.** `EventBus`: the dispatch fibre calls dispatch in an endless loop, and a
handler is code that returns; publishers are not fair. `Lifecycle`: the interview fibre
polls in an endless loop; time and clients owe nothing. `Capability`: the dispatcher alone is
fair; devices, polls and the connection owe nothing, so `SensorShown` supposes what it
needs of them. `Discovery`: `ha_disc_task` polls
in an endless loop; connections, clients and the dispatcher owe nothing. `Scheduler`: the loop goes on,
each fibre of a cooperative system gives the processor up, time passes. `MaxGap` is a
real restriction: it says that less than half of the counter's range (24 days) passes
between two turns of the loop. Safety properties need none of it.

## 4. Proofs

Each proof module takes one component. It names an inductive invariant, proves that the
initial states have it and that each action keeps it (a lemma per action), and derives
the properties of the runs from it. All hold for every value of the constants that
satisfies the assumptions declared with them, which TLC evaluates on the runs.

| Module | Theorems (property of the run) | Assumed |
|---|---|---|
| `EventBusProofs` | `TypeCorrect`, `RingCorrect`, `AccountingCorrect`, `DispatchStaysBounded`, `DeliveryCorrect`, `InFlightSafe`, `RefinesQueue`, `LoopEnds` | queue and table are not empty, the counters' modulus exceeds the queue's size (2^32 against 32), filters are ranges of event types |
| `PersistProofs` | of the host build: `TypeCorrect`, `OneEntry`, `ReadBackCorrect`, `CounterCorrect`, `SchemaCorrect`; of both: `BothTypeCorrect`, `BothOneEntry`, `BothReadBack`, `BothCounter`, `BothSchema`, `CrashLosesNothingSafe`, `RefinesKeyValue` | the buffer is not empty, the counter can count it, the schema key is not a data key, the markers of a file's content are not values |
| `LifecycleProofs` | `TypeCorrect`, `UniqueCorrect`, `CountsCorrect`, `StagesCorrect`, `EventsCorrect`, `PollsEnd` | the tables are not empty, retries and time-out are natural numbers |
| `CapabilityProofs` | `Types`, `CacheHasNodes`, `BrokerShowsCache`, `LocalNodeShown`, `ReadingsArrive` | tables, cache and bus are not empty, an endpoint and a cache entry hold two clusters and capabilities (the local node's), values are integers, a device names each endpoint once |
| `ZigbeeProofs` | `TypeCorrect`, `CacheCorrect`, `SendCorrect`, `SlotsCorrect`, `ReadyCorrect`, `SendingEnds` | there is a device, cache and slots are not empty |
| `DiscoveryProofs` | `TypeCorrect`, `ListCorrect`, `PublishedBeforeDropped`, `RetainedCorrect`, `StatusCorrect`, `OneTurnPublishes` | the list is not empty |
| `SchedulerProofs` | `TypeCorrect`, `RunningCorrect`, `SleepCorrect`, `TurnsCorrect`, `WakesInTime` | sleeps and delays of the loop are below half of the counter's range |
| `LevelControlProofs` | `LevelCorrect`, `LitCorrect`, `UndoCorrect` | the largest number that is typed is natural |

**EventBus.** The invariant is the conjunction of the run's with `steady \subseteq
Active`. None of the parts is inductive alone. `DispatchBounded` has to know that the
count is not lowered by handlers, `Accounting` that publish does not take it over its
limit. `DeliveryExact` is threatened twice: a handler that subscribes could change an
entry the loop has passed, which `steady \subseteq Active` excludes since only free
entries are taken; and a handler that publishes could overwrite the type of the event in
dispatch, which `RingConsistent` and `count > 0` exclude, since a ring that is not full
does not end at its head (`PublishElsewhere`). The arithmetic modulo the ring's size is
in `WrapStart`, `WrapEnd`, `WrapApart` and `IndicesApart`. `RefinesQueue`, the safety
half of `ImplementsQueue`, rests on `PublishAppends` and `AdvanceDrops`, which say what
a publish and an advance do to the live segment of the ring.

**Persist.** A put that finds the buffer full waits for a flush and stores afterwards
without looking again. `FlushInv` says why that is safe: while it waits, its key has no
entry. `UniqueEntry` and `ReadInv` say without cardinalities and `Get` what
`OneEntryPerKey` and `ReadBack` say with them. `SchemaInv` covers the time in which
memory is ahead of the store. The counter is exact because a flush that clears an entry
lowers it once (`Subtracts`, for unsigned numbers). `Lowest`, a CHOOSE, is given a
meaning by `LowestIsOne`, from the well-foundedness of the natural numbers.

**PersistTarget.** The host's invariant holds of both builds, whose common steps its lemmas
cover; the target's own steps are proved here (`NvsSetBlob` by the host's `EntryDone` and
`EntryWritten`). `NvsInv` adds that a restart can find only one value of a key that is
not buffered, in the flush under way, given up or risky: the stored one, which `ReadInv`
says is the acknowledged one. On the host a torn file is one of a key in `hurt`.

**RefinesKeyValue.** `Reads` is defined with `Get`, which chooses an entry of the buffer;
`GetIs` replaces the choice, given `UniqueEntry`, by "the entry's value, or storage's if
there is none". On that rest the lemmas that say what each part of an operation does to
all reads at once: `PutReads`, `FlushReads`, `TruncateReads`, `WriteReads`,
`CloseReads`, `ReturnReads`, `DelReads`, `EmptiedReads`. What storage may keep includes
what it holds (`Backed`, which the target build has from `NvsInv`), so giving a value up
reads one of those kept; and an entry is written to storage while it is what a get
reads, so storage comes to hold nothing else. `PutStores` ... `RestartStores` then match
each operation with its abstract step, `HostStores` and `TargetStores` each build. A
flush is a `WriteBack` of every key at each of its steps, but for the one key whose
entry was cleared although its file was not written.

**Lifecycle.** One poll (`InterviewProcess`) visits all contexts. The invariant adds to
uniqueness and counts that FAILED is never kept: a context that reaches it is freed in the
same poll. `TimedType`, `AdvancedType`, `PolledType` and `LearntType` follow a context
and its node through a poll; `NodesKept`, `NodeTaken`, `NodeFreed` and their
counterparts for contexts say what each kind of step does to a table's uniqueness and
count. The events are told by a lemma per action (`AddNodeTells` ...). `StagesRecorded` is
inductive given the rest: `TimedDescribes` says that a stage given up describes nothing
or ends `whole`, `LearntDescribes` that a stage leaves in its node what the next finds
described, and `CtxsUnique` that no other context has the node in the same poll.

`PollsEnd` is about two states of one context: `PolledFurther` says that a poll which
does not free it advances it, once or, if it was given up as late, twice.

**Capability.** `BrokerCurrent` speaks of topics of which nothing waits; its inductive
form has to say what the waiting events are: `Shows`, the newest waiting value of a topic,
or the broker's when none waits, is the cached one. `AppendShows`, `AppendOtherShows`,
`TailOtherShows` and `TailLastShows` say what an event put in or taken out does to that;
a value that meets a full bus or is dispatched last without a connection makes its topic
`missed`, which is why `Latest` may except it. `Unique` (no address has two entries) is
what makes the cache's `CHOOSE` the entry that was written (`FindCacheIs`), and computing
a node again resets only that one (`EntrySet`). `BootedIs` follows the start up to the
scheduler. `ReadingsArrive` follows the waiting events of one topic through every step
(`EmittedWaiting`, `ReportedWaiting`, `ChangedWaiting`).

**LevelControl.** A percentage that goes round may lose one to rounding, and another one
in the next round, but none in a third (`RoundLoses`, `RoundSettles`); a quirk only turns
0 into 1 on top. That it never loses more cannot be seen from a single step, so the
invariant says that the level is the one asked for or that of the first or second round
(`SettleInv`). `QuirkIs` gives the fold over a device's actions its value: every entry of
the table has one action (`OneAction`, `ReportOfOne`, `CommandOfOne`), so no induction is
needed. `UndoCorrect` is the part of `CommandUndoesReport` about switches, contacts and
levels, of any device; that the rounded temperature comes back as it should is a matter
of each single value, which TLC looks at. With a second action in an entry these lemmas, and the proofs on them, would have
to be redone.

**Zigbee.** That a command goes to its device's address needs `OwnAddress`: whatever
address the caller holds between lookup and request, its device has announced.
`FoundIsLatest`, `InsertKnown`, `InsertNew` and `InsertFull` say what looking up and
inserting do to a cache with one entry per device. The type of the number of commands in
the air follows from the slots' accounting and not the other way round, so the invariant
has the types without it (`Typed`). `SendingEnds` draws the conclusion of the slots'
accounting and generalises the finding of `zigbee_slots`: the stack takes at most
`ZB_MAX_PENDING` commands after a start, and then the adapter sends nothing any more.

**Discovery.** `ListInv` is the types, one slot per node, and the exact counter; the
bound on the counter in the types follows from the other two. `RetainedExplained` is
inductive given the types: the queue only grows at its end and shrinks at its front
(`AppendAnnounces`, `TailAnnounces`), and what is published is about READY nodes
(`ConfiguredReady`). `PendingPublished` follows from the types by
`FlushPublishes`, `FlushDownEmpties` and `OthersKeepPending`. `OneTurnPublishes` adds what a
flush leaves (`FlushLeaves`), and by the exact counter that the task runs whenever a node
waits.

**Scheduler.** `SleepsEnough` looks at a signed difference of wrapping counters.
`TimeLeft` relates it to the time that is really left, a history variable: as long as
there is some, the difference is exactly that (`WakeTickAhead`, `OneTickLess`), and so it
is not in the half of the range that counts as past (`NotDueEarly`). `Linked` gives the
round-robin search somewhere to start. `TakeTurns` needs the order of the search: a fibre that waits
is nearer to the current one than any that ran meanwhile (`Nearer`), counted round the
list. Moving the search to the nearest candidate and putting a new fibre at the head keep
that order (`AwayMoves`, `AwayGrows`). `WakesInTime` is the converse of `SleepCorrect`: a
sleeper is late by no more ticks than passed since the loop last looked (`Lateness`), so
its difference is in the half of the range that counts as past (`LateLooksNegative`), and
the next turn of the loop wakes it. This is where `MaxGap` is needed.

Only model-checked: liveness (`DispatchReturns`, `InterviewEnds`, `SleepEnds`,
`WaitingPublished`, `SensorShown`, the fair half of `ImplementsQueue`), which the prover
cannot treat under fairness; the temperature's part of `CommandUndoesReport`; and the violated statements, which are about single
executions. Of each liveness property the part that does not speak of fairness is
proved, the argument why the fair steps get there:

| Liveness, by TLC | What is proved of it for every size |
|---|---|
| `DispatchReturns` | `LoopEnds`: every step of the loop lowers (events left, entries left, handler not yet called), and no call that a handler makes raises it |
| `InterviewEnds` | `PollsEnd`: every poll advances each interview it leaves active, nothing else moves one, and the stages end at COMPLETE |
| `SleepEnds` | `WakesInTime` and `TurnsCorrect`: a sleeper whose time is up sleeps no longer after one turn of the loop, and a READY fibre is passed by no other twice |
| `WaitingPublished` | `OneTurnPublishes`: the task runs exactly if a node waits, and while MQTT is up one run takes the READY nodes out of the list and publishes them |
| `SensorShown` | `ReadingsArrive`: while a reading stays its events only move towards the broker, and once none waits the broker shows it |

These statements, and that of `SendingEnds`, are defined in the proof modules; no run
lists them, since the runs check the liveness itself.

## 5. Plan

Done: EventQueue, EventBus, EventBusPreempt; KeyValue, Persist and PersistTarget;
Lifecycle; Zigbee; Discovery; Values, LevelControl and Capability; Scheduler and
FibreStart; both refinements; and the proofs above, which state every safety property
that a passing run checks. In order, what comes next:

1. `Bridge`: registry, interviews, bus and discovery together, with events that a full
   bus refuses. It would share the `discovery` run's question and replace it.
2. The proof of a repaired ring under preemption, if `os_event_publish` is given a
   critical section: EventBusPreempt has only the faulty one.

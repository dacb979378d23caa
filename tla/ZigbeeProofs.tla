---------------------------- MODULE ZigbeeProofs ----------------------------
(***************************************************************************)
(* Proofs of the safety properties of Zigbee, for any devices and          *)
(* addresses and any size of the cache and of the table of pending         *)
(* commands.                                                               *)
(***************************************************************************)
EXTENDS Zigbee, FiniteSetTheorems, SequenceTheorems, TLAPS

(* Whatever address the caller works with, its device has announced.       *)
OwnAddress ==
  /\ SentToOwnAddress
  /\ \A d \in Devices : latest[d] # NoNwk => <<d, latest[d]>> \in announced
  /\ pc \in {"alloc", "request"} => <<target, nwk>> \in announced

(* The slot that is being filled is taken; the commands that wait for an   *)
(* answer are among those the stack took.                                  *)
SlotHeld ==
  /\ pc = "request" => slot \in inUse
  /\ onAir <= taken

(* Types, but for the bound on onAir, which follows from the slots'.       *)
Typed ==
  /\ state \in States /\ boot \in {"init", "created", "done"} /\ phase \in Phases
  /\ cache \in Seq([eui64 : Devices, nwk : Nwk]) /\ Len(cache) <= CacheSize
  /\ inUse \subseteq PendingSlots
  /\ pc \in {"idle", "lookup", "alloc", "request"}
  /\ target \in Devices /\ nwk \in Nwk \union {NoNwk}
  /\ slot \in PendingSlots \union {NoSlot}
  /\ onAir \in Nat /\ taken \in Nat
  /\ sent \subseteq Devices \X Nwk /\ announced \subseteq Devices \X Nwk
  /\ latest \in [Devices -> Nwk \union {NoNwk}]
  /\ events \subseteq {"ZB_STACK_UP", "ZB_ANNOUNCE"}

IInv == /\ Typed /\ CacheCurrent /\ OwnAddress
        /\ SlotHeld /\ SlotsAccounted /\ ReadyIsAnnounced

-----------------------------------------------------------------------------
LEMMA SlotsFinite ==
  ASSUME NEW S \in SUBSET PendingSlots
  PROVE  IsFiniteSet(S) /\ Cardinality(S) \in 0 .. PendingSize
<1>1. IsFiniteSet(PendingSlots) /\ Cardinality(PendingSlots) = PendingSize
  <2>1. 1 \in Int /\ PendingSize \in Int /\ ~ (1 > PendingSize)
        /\ PendingSize - 1 + 1 = PendingSize
    BY PendingSizeAssumption, SMT
  <2> QED
    BY <2>1, FS_Interval DEF PendingSlots
<1>2. IsFiniteSet(S) /\ Cardinality(S) <= Cardinality(PendingSlots)
  BY <1>1, FS_Subset
<1>3. Cardinality(S) \in Nat
  BY <1>2, FS_CardinalityType
<1> QED
  BY <1>1, <1>2, <1>3, PendingSizeAssumption, SMT

LEMMA EntryTypes ==
  ASSUME Typed, NEW i \in DOMAIN cache
  PROVE  /\ cache[i] \in [eui64 : Devices, nwk : Nwk]
         /\ cache[i].eui64 \in Devices /\ cache[i].nwk \in Nwk
<1>1. cache \in [1 .. Len(cache) -> [eui64 : Devices, nwk : Nwk]]
  BY LenProperties DEF Typed
<1> QED
  BY <1>1

(* What nwk_cache_lookup finds is the latest address of the device: the    *)
(* first entry is the only one.                                            *)
LEMMA FoundIsLatest ==
  ASSUME Typed, CacheCurrent, Found # NoNwk
  PROVE  Found \in Nwk /\ Found = latest[target]
<1>1. EntriesOf(target) # {}
  BY DEF Found
<1>2. PICK i \in DOMAIN cache : cache[i].eui64 = target
  BY <1>1 DEF EntriesOf
<1>3. EntriesOf(target) = {i}
  BY <1>2 DEF EntriesOf, CacheCurrent
<1>4. i <= i
  <2>1. DOMAIN cache = 1 .. Len(cache) /\ Len(cache) \in Nat
    BY LenProperties DEF Typed
  <2> QED
    BY <2>1, SMT
<1>5. Found = cache[i].nwk
  BY <1>1, <1>3, <1>4 DEF Found
<1> QED
  BY <1>2, <1>5, EntryTypes DEF CacheCurrent

-----------------------------------------------------------------------------
(* nwk_cache_insert, in its three cases. *)

LEMMA InsertKnown ==
  ASSUME Typed, CacheCurrent, NEW d \in Devices, NEW n \in Nwk, EntriesOf(d) # {},
         cache' = Insert(d, n), latest' = [latest EXCEPT ![d] = n]
  PROVE  /\ cache' \in Seq([eui64 : Devices, nwk : Nwk]) /\ Len(cache') <= CacheSize
         /\ CacheCurrent'
<1> DEFINE E == [eui64 : Devices, nwk : Nwk]
<1>1. PICK i \in DOMAIN cache : EntriesOf(d) = {i} /\ cache[i].eui64 = d
  BY DEF EntriesOf, CacheCurrent
<1>2. Entry(d, n) \in E /\ Entry(d, n).eui64 = d /\ Entry(d, n).nwk = n
  BY DEF Entry
<1>3. cache \in Seq(E) /\ DOMAIN cache = 1 .. Len(cache)
  BY LenProperties DEF Typed
<1>4. cache' = [cache EXCEPT ![i] = Entry(d, n)]
  BY <1>1 DEF Insert
<1>5. /\ cache' \in Seq(E) /\ Len(cache') = Len(cache)
      /\ \A j \in 1 .. Len(cache) : cache'[j] = IF j = i THEN Entry(d, n) ELSE cache[j]
  <2> HIDE DEF E
  <2> QED
    BY <1>1, <1>2, <1>3, <1>4, ExceptSeq
<1>6. DOMAIN cache' = DOMAIN cache
  BY <1>3, <1>4
<1>7. \A j \in DOMAIN cache : cache'[j].eui64 = cache[j].eui64
  BY <1>1, <1>2, <1>3, <1>5
<1>8. \A j \in DOMAIN cache : cache'[j].nwk = latest'[cache'[j].eui64]
  <2> SUFFICES ASSUME NEW j \in DOMAIN cache PROVE cache'[j].nwk = latest'[cache'[j].eui64]
    OBVIOUS
  <2>1. CASE j = i
    <3>1. cache'[j].nwk = n /\ cache'[j].eui64 = d
      BY <1>2, <1>3, <1>5, <2>1
    <3> QED
      BY <3>1 DEF Typed
  <2>2. CASE j # i
    <3>1. cache'[j] = cache[j]
      BY <1>3, <1>5, <2>2
    <3>2. cache[j].eui64 # d /\ cache[j].eui64 \in Devices
      BY <1>1, <2>2, EntryTypes DEF EntriesOf
    <3>3. latest'[cache[j].eui64] = latest[cache[j].eui64]
      BY <3>2 DEF Typed
    <3> QED
      BY <3>1, <3>3 DEF CacheCurrent
  <2> QED
    BY <2>1, <2>2
<1>9. \A c \in Devices : EntriesOf(c)' = EntriesOf(c)
  BY <1>6, <1>7 DEF EntriesOf
<1>10. \A c \in Devices : latest'[c] # NoNwk /\ EntriesOf(c)' = {} => Len(cache') = CacheSize
  <2> SUFFICES ASSUME NEW c \in Devices, latest'[c] # NoNwk, EntriesOf(c)' = {}
               PROVE  Len(cache') = CacheSize
    OBVIOUS
  <2>1. c # d /\ EntriesOf(c) = {}
    BY <1>9
  <2>2. latest'[c] = latest[c]
    BY <2>1 DEF Typed
  <2> QED
    BY <1>5, <2>1, <2>2 DEF CacheCurrent
<1>11. \A j, k \in DOMAIN cache' : cache'[j].eui64 = cache'[k].eui64 => j = k
  BY <1>6, <1>7 DEF CacheCurrent
<1> QED
  BY <1>5, <1>6, <1>8, <1>10, <1>11 DEF Typed, CacheCurrent

LEMMA InsertNew ==
  ASSUME Typed, CacheCurrent, NEW d \in Devices, NEW n \in Nwk, EntriesOf(d) = {},
         Len(cache) < CacheSize,
         cache' = Insert(d, n), latest' = [latest EXCEPT ![d] = n]
  PROVE  /\ cache' \in Seq([eui64 : Devices, nwk : Nwk]) /\ Len(cache') <= CacheSize
         /\ CacheCurrent'
<1> DEFINE E == [eui64 : Devices, nwk : Nwk]
           last == Len(cache) + 1
<1>1. Entry(d, n) \in E /\ Entry(d, n).eui64 = d /\ Entry(d, n).nwk = n
  BY DEF Entry
<1>2. cache \in Seq(E) /\ DOMAIN cache = 1 .. Len(cache) /\ Len(cache) \in Nat
  BY LenProperties DEF Typed
<1>3. cache' = Append(cache, Entry(d, n))
  BY DEF Insert
<1>4. /\ cache' \in Seq(E) /\ Len(cache') = last /\ DOMAIN cache' = 1 .. last
      /\ cache'[last] = Entry(d, n)
      /\ \A j \in 1 .. Len(cache) : cache'[j] = cache[j]
  <2> HIDE DEF E
  <2> QED
    BY <1>1, <1>2, <1>3, SMT
<1>5. DOMAIN cache' = DOMAIN cache \union {last} /\ last \notin DOMAIN cache
  BY <1>2, <1>4, SMT
<1>6. Len(cache') <= CacheSize
  BY <1>2, <1>4, CacheSizeAssumption, SMT
<1>7. \A j \in DOMAIN cache : /\ cache'[j] = cache[j]
                              /\ cache[j].eui64 \in Devices \ {d}
  BY <1>2, <1>4, EntryTypes DEF EntriesOf
<1> HIDE DEF last
<1>8. \A j \in DOMAIN cache' : cache'[j].nwk = latest'[cache'[j].eui64]
  <2> SUFFICES ASSUME NEW j \in DOMAIN cache' PROVE cache'[j].nwk = latest'[cache'[j].eui64]
    OBVIOUS
  <2>1. CASE j = last
    <3>1. cache'[j].nwk = n /\ cache'[j].eui64 = d
      BY <1>1, <1>4, <2>1
    <3> QED
      BY <3>1 DEF Typed
  <2>2. CASE j \in DOMAIN cache
    <3>1. latest'[cache[j].eui64] = latest[cache[j].eui64]
      BY <1>7, <2>2 DEF Typed
    <3> QED
      BY <1>7, <2>2, <3>1 DEF CacheCurrent
  <2> QED
    BY <1>5, <2>1, <2>2
<1>9. \A j, k \in DOMAIN cache' : cache'[j].eui64 = cache'[k].eui64 => j = k
  <2>1. cache'[last].eui64 = d
    BY <1>1, <1>4
  <2>2. \A j \in DOMAIN cache : cache'[j].eui64 = cache[j].eui64 /\ cache[j].eui64 # d
    BY <1>7
  <2>3. \A j, k \in DOMAIN cache : cache[j].eui64 = cache[k].eui64 => j = k
    BY DEF CacheCurrent
  <2> QED
    BY <1>5, <2>1, <2>2, <2>3
<1>10. \A c \in Devices : latest'[c] # NoNwk => EntriesOf(c)' # {}
  <2> SUFFICES ASSUME NEW c \in Devices, latest'[c] # NoNwk PROVE EntriesOf(c)' # {}
    OBVIOUS
  <2>1. CASE c = d
    BY <1>1, <1>4, <1>5, <2>1 DEF EntriesOf
  <2>2. CASE c # d
    <3>1. latest[c] # NoNwk
      BY <2>2 DEF Typed
    <3>2. PICK j \in DOMAIN cache : cache[j].eui64 = c
      <4>1. \A m \in Nat : m < CacheSize => m # CacheSize
        BY CacheSizeAssumption, SMT
      <4>2. Len(cache) # CacheSize
        BY <1>2, <4>1
      <4> QED
        BY <3>1, <4>2 DEF CacheCurrent, EntriesOf
    <3> QED
      BY <1>5, <1>7, <3>2 DEF EntriesOf
  <2> QED
    BY <2>1, <2>2
<1> QED
  BY <1>4, <1>6, <1>8, <1>9, <1>10 DEF CacheCurrent

LEMMA InsertFull ==
  ASSUME Typed, CacheCurrent, NEW d \in Devices, NEW n \in Nwk, EntriesOf(d) = {},
         ~ (Len(cache) < CacheSize),
         cache' = Insert(d, n), latest' = [latest EXCEPT ![d] = n]
  PROVE  /\ cache' \in Seq([eui64 : Devices, nwk : Nwk]) /\ Len(cache') <= CacheSize
         /\ CacheCurrent'
<1>1. cache' = cache
  BY DEF Insert
<1>2. Len(cache) = CacheSize
  <2>1. Len(cache) \in Nat
    BY LenProperties DEF Typed
  <2> QED
    BY <2>1, CacheSizeAssumption, SMT DEF Typed
<1>3. \A i \in DOMAIN cache : cache[i].eui64 \in Devices \ {d}
  BY EntryTypes DEF EntriesOf
<1>4. \A i \in DOMAIN cache : cache[i].nwk = latest'[cache[i].eui64]
  BY <1>3 DEF CacheCurrent, Typed
<1> QED
  BY <1>1, <1>2, <1>4 DEF Typed, CacheCurrent

-----------------------------------------------------------------------------
LEMMA InitIInv == Init => IInv
<1> SUFFICES ASSUME Init PROVE IInv
  OBVIOUS
<1> USE DEF Init
<1>1. DOMAIN cache = {} /\ Len(cache) = 0 /\ cache \in Seq([eui64 : Devices, nwk : Nwk])
  BY EmptySeq
<1>2. Len(cache) <= CacheSize
  BY <1>1, CacheSizeAssumption, SMT
<1>3. target \in Devices
  BY DevicesAssumption
<1>4. Typed
  BY <1>1, <1>2, <1>3 DEF Typed, States, Phases
<1>5. CacheCurrent /\ OwnAddress /\ ReadyIsAnnounced
  BY <1>1 DEF CacheCurrent, OwnAddress, SentToOwnAddress, ReadyIsAnnounced
<1>6. SlotHeld /\ SlotsAccounted
  BY FS_EmptySet, SMT DEF SlotHeld, SlotsAccounted
<1> QED
  BY <1>4, <1>5, <1>6 DEF IInv

(* What the parts of IInv depend on. *)
cacheVars == <<cache, latest>>
slotVars  == <<inUse, taken, onAir, pc, slot>>
sendVars  == <<sent, announced, latest, target, nwk>>

LEMMA Frames ==
  ASSUME IInv
  PROVE  /\ UNCHANGED cacheVars => CacheCurrent'
         /\ UNCHANGED slotVars => SlotHeld' /\ SlotsAccounted'
         /\ UNCHANGED sendVars /\ (pc' \in {"alloc", "request"} => pc \in {"alloc", "request"})
              => OwnAddress'
         /\ UNCHANGED <<state, events>> => ReadyIsAnnounced'
<1> USE DEF IInv
<1>1. UNCHANGED cacheVars => CacheCurrent'
  BY DEF cacheVars, CacheCurrent, EntriesOf
<1>2. UNCHANGED slotVars => SlotHeld' /\ SlotsAccounted'
  BY DEF slotVars, SlotHeld, SlotsAccounted
<1>3. UNCHANGED sendVars /\ (pc' \in {"alloc", "request"} => pc \in {"alloc", "request"})
        => OwnAddress'
  BY DEF sendVars, OwnAddress, SentToOwnAddress
<1>4. UNCHANGED <<state, events>> => ReadyIsAnnounced'
  BY DEF ReadyIsAnnounced
<1> QED
  BY <1>1, <1>2, <1>3, <1>4

(* The start-up and the signals: only a formed network makes READY. *)
Startup ==
  \/ CreateTask \/ CreateTaskFails \/ InitReturns \/ SkipStartup
  \/ \E ok \in BOOLEAN : FirstStart(ok) \/ Formation(ok)

LEMMA StartupInv ==
  ASSUME IInv, Startup
  PROVE  IInv'
<1> USE DEF IInv
<1>1. UNCHANGED <<cache, inUse, callVars, stackVars, taken, announced, latest>>
  BY DEF Startup, CreateTask, CreateTaskFails, InitReturns, SkipStartup, FirstStart,
         Formation, history
<1>2. Typed'
  <2>1. /\ state' \in States /\ boot' \in {"init", "created", "done"} /\ phase' \in Phases
        /\ events' \subseteq {"ZB_STACK_UP", "ZB_ANNOUNCE"}
    BY DEF Typed, Startup, CreateTask, CreateTaskFails, InitReturns, SkipStartup, FirstStart,
           Formation, Transition, States, Phases, history
  <2> QED
    BY <1>1, <2>1 DEF Typed, callVars, stackVars
<1>3. CacheCurrent' /\ OwnAddress' /\ SlotHeld' /\ SlotsAccounted'
  BY <1>1, Frames DEF cacheVars, slotVars, sendVars, callVars, stackVars
<1>4. ReadyIsAnnounced'
  BY DEF ReadyIsAnnounced, Startup, CreateTask, CreateTaskFails, InitReturns, SkipStartup,
         FirstStart, Formation, Transition, Allowed, history
<1> QED
  BY <1>2, <1>3, <1>4

LEMMA AnnounceInv ==
  ASSUME IInv, NEW d \in Devices, NEW n \in Nwk, DeviceAnnounce(d, n)
  PROVE  IInv'
<1> USE DEF IInv, DeviceAnnounce
<1>1. /\ cache' \in Seq([eui64 : Devices, nwk : Nwk]) /\ Len(cache') <= CacheSize
      /\ CacheCurrent'
  BY InsertKnown, InsertNew, InsertFull
<1>2. Typed'
  BY <1>1 DEF Typed, bootVars, callVars, stackVars
<1>3. OwnAddress'
  <2>1. SentToOwnAddress' /\ (pc' \in {"alloc", "request"} => <<target', nwk'>> \in announced')
    BY DEF OwnAddress, SentToOwnAddress, callVars, stackVars
  <2>2. \A c \in Devices : latest'[c] # NoNwk => <<c, latest'[c]>> \in announced'
    BY DEF OwnAddress, Typed
  <2> QED
    BY <2>1, <2>2 DEF OwnAddress
<1>4. SlotHeld' /\ SlotsAccounted'
  BY Frames DEF slotVars, callVars, stackVars
<1>5. ReadyIsAnnounced'
  BY DEF ReadyIsAnnounced, bootVars
<1> QED
  BY <1>1, <1>2, <1>3, <1>4, <1>5

LEMMA SendStatusInv ==
  ASSUME IInv, SendStatus
  PROVE  IInv'
<1> USE DEF IInv, SendStatus
<1>1. onAir' \in Nat /\ onAir' <= taken
  BY SMT DEF Typed, SlotHeld
<1>2. Typed'
  BY <1>1 DEF Typed, bootVars, callVars, history
<1>3. CacheCurrent' /\ OwnAddress' /\ ReadyIsAnnounced'
  BY Frames DEF cacheVars, sendVars, bootVars, callVars, history
<1>4. SlotHeld' /\ SlotsAccounted'
  BY <1>1 DEF SlotHeld, SlotsAccounted, callVars, history
<1> QED
  BY <1>2, <1>3, <1>4

-----------------------------------------------------------------------------
(* The steps of a send. *)

LEMMA CheckReadyInv ==
  ASSUME IInv, NEW d \in Devices, CheckReady(d)
  PROVE  IInv'
<1> USE DEF IInv, CheckReady
<1>1. Typed'
  BY DEF Typed, bootVars, stackVars, history
<1>2. CacheCurrent' /\ ReadyIsAnnounced'
  BY Frames DEF cacheVars, bootVars, history
<1>3. OwnAddress'
  BY DEF OwnAddress, SentToOwnAddress, stackVars, history
<1>4. SlotHeld' /\ SlotsAccounted'
  BY DEF SlotHeld, SlotsAccounted, stackVars, history
<1> QED
  BY <1>1, <1>2, <1>3, <1>4

LEMMA LookupInv ==
  ASSUME IInv, Lookup
  PROVE  IInv'
<1> USE DEF IInv, Lookup
<1>1. nwk' \in Nwk /\ nwk' = latest[target] /\ target \in Devices
  BY FoundIsLatest DEF Typed
<1>2. Typed'
  BY <1>1 DEF Typed, bootVars, stackVars, history
<1>3. CacheCurrent' /\ ReadyIsAnnounced'
  BY Frames DEF cacheVars, bootVars, history
<1>4. OwnAddress'
  <2>1. <<target', nwk'>> \in announced'
    BY <1>1, NoNwkAssumption DEF OwnAddress, history
  <2> QED
    BY <2>1 DEF OwnAddress, SentToOwnAddress, stackVars, history
<1>5. SlotHeld' /\ SlotsAccounted'
  BY DEF SlotHeld, SlotsAccounted, stackVars, history
<1> QED
  BY <1>2, <1>3, <1>4, <1>5

(* A return before a slot was taken. *)
LEMMA FailsInv ==
  ASSUME IInv, LookupFails \/ AllocFails
  PROVE  IInv'
<1> USE DEF IInv
<1>1. /\ pc # "request" /\ Return
      /\ UNCHANGED <<bootVars, cache, inUse, stackVars, history>>
  BY DEF LookupFails, AllocFails
<1>2. Typed'
  BY <1>1 DEF Typed, Return, bootVars, stackVars, history
<1>3. CacheCurrent' /\ ReadyIsAnnounced'
  BY <1>1, Frames DEF cacheVars, bootVars, history
<1>4. OwnAddress'
  BY <1>1 DEF OwnAddress, SentToOwnAddress, Return, stackVars, history
<1>5. SlotHeld' /\ SlotsAccounted'
  BY <1>1 DEF SlotHeld, SlotsAccounted, Return, stackVars, history
<1> QED
  BY <1>2, <1>3, <1>4, <1>5

LEMMA AllocInv ==
  ASSUME IInv, Alloc
  PROVE  IInv'
<1> USE DEF IInv, Alloc
<1>1. PICK s \in PendingSlots \ inUse : inUse' = inUse \union {s} /\ slot' = s
  OBVIOUS
<1>2. Typed'
  BY <1>1 DEF Typed, bootVars, stackVars, history
<1>3. CacheCurrent' /\ ReadyIsAnnounced' /\ OwnAddress'
  BY Frames DEF cacheVars, sendVars, bootVars, stackVars, history
<1>4. Cardinality(inUse') = taken + 1
  <2>1. IsFiniteSet(inUse) /\ Cardinality(inUse) \in Nat
    BY SlotsFinite, SMT DEF Typed
  <2>2. Cardinality(inUse) = taken
    BY DEF SlotsAccounted, Typed
  <2> QED
    BY <1>1, <2>1, <2>2, FS_AddElement
<1>5. SlotHeld' /\ SlotsAccounted'
  BY <1>1, <1>4 DEF SlotHeld, SlotsAccounted, stackVars, history
<1> QED
  BY <1>2, <1>3, <1>5

LEMMA RequestInv ==
  ASSUME IInv, Request
  PROVE  IInv'
<1> USE DEF IInv, Request
<1>1. <<target, nwk>> \in announced
  BY DEF OwnAddress
<1>2. Typed'
  BY <1>1, SMT DEF Typed, Return, bootVars
<1>3. CacheCurrent' /\ ReadyIsAnnounced'
  BY Frames DEF cacheVars, bootVars
<1>4. OwnAddress'
  BY <1>1 DEF OwnAddress, SentToOwnAddress, Return
<1>5. SlotHeld' /\ SlotsAccounted'
  BY SMT DEF SlotHeld, SlotsAccounted, Return, Typed
<1> QED
  BY <1>2, <1>3, <1>4, <1>5

LEMMA RequestRefusedInv ==
  ASSUME IInv, RequestRefused
  PROVE  IInv'
<1> USE DEF IInv, RequestRefused
<1>1. <<target, nwk>> \in announced /\ slot \in inUse
  BY DEF OwnAddress, SlotHeld
<1>2. Typed'
  BY <1>1 DEF Typed, Return, bootVars, history
<1>3. CacheCurrent' /\ ReadyIsAnnounced'
  BY Frames DEF cacheVars, bootVars, history
<1>4. OwnAddress'
  BY <1>1 DEF OwnAddress, SentToOwnAddress, Return, history
<1>5. Cardinality(inUse') = taken
  <2>1. IsFiniteSet(inUse) /\ Cardinality(inUse) \in Nat
    BY SlotsFinite, SMT DEF Typed
  <2>2. Cardinality(inUse) = taken + 1
    BY DEF SlotsAccounted
  <2>3. Cardinality(inUse') = Cardinality(inUse) - 1
    BY <1>1, <2>1, FS_RemoveElement
  <2> QED
    BY <2>1, <2>2, <2>3, SMT DEF Typed
<1>6. SlotHeld' /\ SlotsAccounted'
  BY <1>5, SMT DEF SlotHeld, SlotsAccounted, Return, Typed, history
<1> QED
  BY <1>2, <1>3, <1>4, <1>6

LEMMA StutterInv ==
  ASSUME IInv, UNCHANGED vars
  PROVE  IInv'
<1> USE DEF IInv, vars, bootVars, callVars, stackVars, history
<1>1. Typed'
  BY DEF Typed
<1>2. CacheCurrent' /\ OwnAddress' /\ SlotHeld' /\ SlotsAccounted' /\ ReadyIsAnnounced'
  BY Frames DEF cacheVars, slotVars, sendVars
<1> QED
  BY <1>1, <1>2

LEMMA StepIInv == IInv /\ [Next]_vars => IInv'
<1> SUFFICES ASSUME IInv, [Next]_vars PROVE IInv'
  OBVIOUS
<1>1. CASE Startup
  BY <1>1, StartupInv
<1>2. ASSUME NEW d \in Devices, NEW n \in Nwk, DeviceAnnounce(d, n) PROVE IInv'
  BY <1>2, AnnounceInv
<1>3. CASE SendStatus
  BY <1>3, SendStatusInv
<1>4. ASSUME NEW d \in Devices, CheckReady(d) PROVE IInv'
  BY <1>4, CheckReadyInv
<1>5. CASE Lookup
  BY <1>5, LookupInv
<1>6. CASE LookupFails \/ AllocFails
  BY <1>6, FailsInv
<1>7. CASE Alloc
  BY <1>7, AllocInv
<1>8. CASE Request
  BY <1>8, RequestInv
<1>9. CASE RequestRefused
  BY <1>9, RequestRefusedInv
<1>10. CASE UNCHANGED vars
  BY <1>10, StutterInv
<1> QED
  BY <1>1, <1>2, <1>3, <1>4, <1>5, <1>6, <1>7, <1>8, <1>9, <1>10 DEF Next, Startup

THEOREM Invariance == Spec => []IInv
BY InitIInv, StepIInv, PTL DEF Spec

(* Every variable keeps its type.  That no more commands wait for an       *)
(* answer than there are slots follows from the accounting of the slots.   *)
THEOREM TypeCorrect == Spec => []TypeOK
<1>1. IInv => TypeOK
  <2> SUFFICES ASSUME IInv PROVE TypeOK
    OBVIOUS
  <2>1. Cardinality(inUse) \in 0 .. PendingSize
    BY SlotsFinite DEF IInv, Typed
  <2>2. taken <= Cardinality(inUse)
    BY <2>1, SMT DEF IInv, SlotsAccounted, Typed
  <2>3. onAir \in 0 .. PendingSize
    BY <2>1, <2>2, PendingSizeAssumption, SMT DEF IInv, SlotHeld, Typed
  <2> QED
    BY <2>3 DEF IInv, Typed, TypeOK
<1> QED
  BY <1>1, Invariance, PTL

(* nwk_cache_insert: one entry for a device, with its latest address, and  *)
(* none for a device that announced itself only if the cache is full.      *)
THEOREM CacheCorrect == Spec => []CacheCurrent
BY Invariance, PTL DEF IInv

(* zba_send_onoff and zba_send_level look the address up before they take  *)
(* the lock; however the Zigbee task changes the cache in between, the     *)
(* command goes to an address that the device itself has announced.        *)
THEOREM SendCorrect == Spec => []SentToOwnAddress
BY Invariance, PTL DEF IInv, OwnAddress

(* Every path out of a send accounts for its slot. *)
THEOREM SlotsCorrect == Spec => []SlotsAccounted
BY Invariance, PTL DEF IInv

(* zb_state_transition reaches READY only where ZB_STACK_UP is published.  *)
THEOREM ReadyCorrect == Spec => []ReadyIsAnnounced
BY Invariance, PTL DEF IInv

(* What SlotsReclaimed's counterexample comes to, for every table size: no *)
(* slot of a command that the stack took is ever given back, so the stack  *)
(* takes at most ZB_MAX_PENDING commands after a start, and once it has    *)
(* taken them the adapter requests nothing more, whatever the stack        *)
(* answers.                                                                *)
FallsSilent == [][taken = PendingSize => UNCHANGED <<inUse, taken, sent>>]_vars

THEOREM SendingEnds == Spec => [](taken <= PendingSize) /\ FallsSilent
<1>1. ASSUME IInv
      PROVE  /\ taken <= PendingSize
             /\ taken = PendingSize => pc # "request" /\ inUse = PendingSlots
  <2>1. /\ taken \in Nat /\ inUse \subseteq PendingSlots
        /\ Cardinality(inUse) = taken + (IF pc = "request" THEN 1 ELSE 0)
    BY <1>1 DEF IInv, Typed, SlotsAccounted
  <2>2. IsFiniteSet(PendingSlots) /\ Cardinality(PendingSlots) = PendingSize
    <3>1. 1 \in Int /\ PendingSize \in Int /\ ~ (1 > PendingSize)
          /\ PendingSize - 1 + 1 = PendingSize
      BY PendingSizeAssumption, SMT
    <3> QED
      BY <3>1, FS_Interval DEF PendingSlots
  <2>3. Cardinality(inUse) \in Nat /\ Cardinality(inUse) <= PendingSize
    BY <2>1, <2>2, FS_Subset, FS_CardinalityType
  <2>4. Cardinality(inUse) = PendingSize => inUse = PendingSlots
    BY <2>1, <2>2, FS_Subset
  <2>5. PendingSize \in Nat
    BY PendingSizeAssumption
  <2> QED
    BY <2>1, <2>3, <2>4, <2>5, SMT
<1>2. IInv => taken <= PendingSize
  BY <1>1
<1>3. ASSUME IInv, [Next]_vars
      PROVE  [taken = PendingSize => UNCHANGED <<inUse, taken, sent>>]_vars
  <2> SUFFICES ASSUME Next, taken = PendingSize PROVE UNCHANGED <<inUse, taken, sent>>
    BY <1>3
  <2>1. pc # "request" /\ PendingSlots \ inUse = {}
    BY <1>1, <1>3
  <2> QED
    BY <2>1 DEF Next, CreateTask, CreateTaskFails, InitReturns, SkipStartup, FirstStart, Formation,
                DeviceAnnounce, SendStatus, CheckReady, Lookup, LookupFails, Alloc, AllocFails,
                Request, RequestRefused, bootVars, callVars, stackVars, history
<1> QED
  BY <1>2, <1>3, Invariance, PTL DEF Spec, FallsSilent

=============================================================================

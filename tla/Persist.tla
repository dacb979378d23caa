------------------------------ MODULE Persist ------------------------------
(***************************************************************************)
(* The persistence service (os/src/os_persist.c): key/value writes are     *)
(* collected in a small buffer and flushed to storage one entry after the  *)
(* other.  A write to storage may fail before it touches the old value or  *)
(* after it has destroyed it (the host build opens the file for truncation *)
(* and then writes), and power may fail between any two steps.  The other  *)
(* fibres do not run during a call, so a call is atomic but for a crash.   *)
(*                                                                         *)
(* A value is opaque.  The schema version is the value of one key, with a  *)
(* copy in memory.                                                         *)
(***************************************************************************)
EXTENDS Integers, FiniteSets

CONSTANTS
  DataKeys,    \* the keys clients put and delete
  SchemaKey,   \* "_schema_version"
  Values,      \* the values stored; as schema versions, those other than 0
  BufferSize,  \* WRITE_BUFFER_SIZE
  CountMod,    \* writes_buffered is unsigned and wraps at this value (2^32)
  Absent,      \* a key without a value; as a schema version, 0
  Torn         \* a file that was truncated and not, or not fully, written

Keys  == DataKeys \union {SchemaKey}
Slots == 0 .. BufferSize - 1

ASSUME BufferSizeAssumption == BufferSize \in Nat \ {0}
ASSUME CountModAssumption   == CountMod \in Nat /\ CountMod > BufferSize
ASSUME MarkersAssumption    == Absent # Torn /\ {Absent, Torn} \intersect Values = {}
ASSUME SchemaKeyAssumption  == SchemaKey \notin DataKeys

Invalid == [valid |-> FALSE]
Entry   == [valid : {TRUE}, key : Keys, val : Values]

VARIABLES
  buffer,         \* persist.write_buffer
  writesBuffered, \* persist.writes_buffered
  schemaVersion,  \* persist.schema_version
  storage,        \* the files, one per key
  pc,             \* "idle", "flush" or "write" (a file is open and empty)
  idx,            \* the flush loop's index
  pending,        \* what a put will store once the flush it called returns
  logical,        \* history: the value each key should have, going by the
                  \* calls that returned OS_OK and the crashes
  hurt,           \* history: keys whose last acknowledged value was given up
  leftover        \* history: the last flush left entries in the buffer

callVars == <<pc, idx, pending>>
history  == <<logical, hurt, leftover>>
vars     == <<buffer, writesBuffered, schemaVersion, storage, callVars, history>>

NoPut == [active |-> FALSE]

Valid == {s \in Slots : buffer[s].valid}

(* The entry of a key, if it has one: os_persist_put, get and del search   *)
(* the buffer for it.                                                      *)
Buffered(k) == {s \in Valid : buffer[s].key = k}

Lowest(S) == CHOOSE s \in S : \A r \in S : s <= r

(* os_persist_get: the buffer first, then the file.                        *)
Get(k) == IF Buffered(k) # {} THEN buffer[Lowest(Buffered(k))].val ELSE storage[k]

Init ==
  /\ buffer = [s \in Slots |-> Invalid]
  /\ writesBuffered = 0
  /\ schemaVersion = Absent
  /\ storage = [k \in Keys |-> Absent]
  /\ pc = "idle" /\ idx = 0 /\ pending = NoPut
  /\ logical = [k \in Keys |-> Absent]
  /\ hurt = {} /\ leftover = FALSE

-----------------------------------------------------------------------------
(* os_persist_put.  An entry of the same key is overwritten, else the      *)
(* first invalid one is taken; if there is none the buffer is flushed and  *)
(* entry 0 is used, whatever the flush made of it.                         *)

Acknowledge(k, v) ==
  /\ logical' = [logical EXCEPT ![k] = v]
  /\ hurt' = hurt \ {k}

StoreIn(s, k, v) ==
  buffer' = [buffer EXCEPT ![s] = [valid |-> TRUE, key |-> k, val |-> v]]

PutSameKey(k, v) ==
  /\ pc = "idle"
  /\ Buffered(k) # {}
  /\ StoreIn(Lowest(Buffered(k)), k, v)
  /\ Acknowledge(k, v)
  /\ UNCHANGED <<writesBuffered, storage, callVars, leftover>>

PutNewKey(k, v) ==
  /\ pc = "idle"
  /\ Buffered(k) = {}
  /\ Valid # Slots
  /\ StoreIn(Lowest(Slots \ Valid), k, v)
  /\ writesBuffered' = (writesBuffered + 1) % CountMod
  /\ Acknowledge(k, v)
  /\ UNCHANGED <<storage, callVars, leftover>>

PutBufferFull(k, v) ==
  /\ pc = "idle"
  /\ Buffered(k) = {}
  /\ Valid = Slots
  /\ pc' = "flush" /\ idx' = 0
  /\ pending' = [active |-> TRUE, key |-> k, val |-> v]
  /\ UNCHANGED <<buffer, writesBuffered, storage, history>>

(* Faulty variants: the buffer is not searched for the key; an overwritten *)
(* entry is counted again.                                                 *)
PutAlwaysNew(k, v) ==
  \/ /\ pc = "idle"
     /\ Valid # Slots
     /\ StoreIn(Lowest(Slots \ Valid), k, v)
     /\ writesBuffered' = (writesBuffered + 1) % CountMod
     /\ Acknowledge(k, v)
     /\ UNCHANGED <<storage, callVars, leftover>>
  \/ PutBufferFull(k, v)

PutCountsTwice(k, v) ==
  \/ /\ pc = "idle"
     /\ Buffered(k) # {}
     /\ StoreIn(Lowest(Buffered(k)), k, v)
     /\ writesBuffered' = (writesBuffered + 1) % CountMod
     /\ Acknowledge(k, v)
     /\ UNCHANGED <<storage, callVars, leftover>>
  \/ PutNewKey(k, v)
  \/ PutBufferFull(k, v)

Put(k, v) == PutSameKey(k, v) \/ PutNewKey(k, v) \/ PutBufferFull(k, v)

PutData(k, v) == Put(k, v) /\ UNCHANGED schemaVersion

(* os_persist_set_schema_version: memory first, then the put.              *)
(* Faulty variant: only the store is told.                                 *)
PutSchemaVersion(v) == Put(SchemaKey, v) /\ UNCHANGED schemaVersion

SetSchemaVersion(v) == schemaVersion' = v /\ Put(SchemaKey, v)

-----------------------------------------------------------------------------
(* os_persist_flush, from the persistence task, from a client, or from a   *)
(* put that found the buffer full.                                         *)

FlushCall ==
  /\ pc = "idle"
  /\ pc' = "flush" /\ idx' = 0 /\ pending' = NoPut
  /\ UNCHANGED <<buffer, writesBuffered, schemaVersion, storage, history>>

FlushSkip ==
  /\ pc = "flush" /\ idx < BufferSize
  /\ ~buffer[idx].valid
  /\ idx' = idx + 1
  /\ UNCHANGED <<buffer, writesBuffered, schemaVersion, storage, pc, pending, history>>

OpenFails ==
  /\ pc = "flush" /\ idx < BufferSize
  /\ buffer[idx].valid
  /\ idx' = idx + 1
  /\ UNCHANGED <<buffer, writesBuffered, schemaVersion, storage, pc, pending, history>>

OpenTruncates ==
  /\ pc = "flush" /\ idx < BufferSize
  /\ buffer[idx].valid
  /\ storage' = [storage EXCEPT ![buffer[idx].key] = Torn]
  /\ pc' = "write"
  /\ UNCHANGED <<buffer, writesBuffered, schemaVersion, idx, pending, history>>

WriteSucceeds ==
  /\ pc = "write"
  /\ storage' = [storage EXCEPT ![buffer[idx].key] = buffer[idx].val]
  /\ buffer' = [buffer EXCEPT ![idx] = Invalid]
  /\ idx' = idx + 1
  /\ pc' = "flush"
  /\ UNCHANGED <<writesBuffered, schemaVersion, pending, history>>

(* Faulty variant: the entry is given up although its write failed.        *)
WriteFailsForgets ==
  /\ pc = "write"
  /\ buffer' = [buffer EXCEPT ![idx] = Invalid]
  /\ idx' = idx + 1
  /\ pc' = "flush"
  /\ UNCHANGED <<writesBuffered, schemaVersion, storage, pending, history>>

WriteFails ==
  /\ pc = "write"
  /\ idx' = idx + 1
  /\ pc' = "flush"
  /\ UNCHANGED <<buffer, writesBuffered, schemaVersion, storage, pending, history>>

(* The data was still in the stream's buffer when fwrite returned; writing  *)
(* it out fails in fclose, whose result nobody looks at.                   *)
CloseFails ==
  /\ pc = "write"
  /\ buffer' = [buffer EXCEPT ![idx] = Invalid]
  /\ idx' = idx + 1
  /\ pc' = "flush"
  /\ hurt' = hurt \union {buffer[idx].key}
  /\ UNCHANGED <<writesBuffered, schemaVersion, storage, pending, logical, leftover>>

(* The counter is cleared even if some entries could not be written.       *)
FlushReturns ==
  /\ pc = "flush" /\ idx = BufferSize
  /\ ~pending.active
  /\ writesBuffered' = 0
  /\ pc' = "idle" /\ idx' = 0
  /\ leftover' = (Valid # {})
  /\ UNCHANGED <<buffer, schemaVersion, storage, pending, logical, hurt>>

FlushReturnsToPut ==
  /\ pc = "flush" /\ idx = BufferSize
  /\ pending.active
  /\ StoreIn(0, pending.key, pending.val)
  /\ writesBuffered' = 1
  /\ logical' = [logical EXCEPT ![pending.key] = pending.val]
  /\ hurt' = (hurt \union (IF buffer[0].valid THEN {buffer[0].key} ELSE {}))
               \ {pending.key}
  /\ pc' = "idle" /\ idx' = 0 /\ pending' = NoPut
  /\ leftover' = (Valid # {})
  /\ UNCHANGED <<schemaVersion, storage>>

-----------------------------------------------------------------------------
(* os_persist_del: every entry of the key leaves the buffer, then the file *)
(* is removed.  When that fails the buffered value is gone all the same.   *)

Undo(k) == [s \in Slots |-> IF s \in Buffered(k) THEN Invalid ELSE buffer[s]]

(* Faulty variant: the subtraction of a signed counter.                    *)
CountLessSigned(n) == writesBuffered - n

CountLess(n) == (writesBuffered + CountMod - n) % CountMod

Del(k) ==
  /\ pc = "idle"
  /\ buffer' = Undo(k)
  /\ writesBuffered' = CountLess(Cardinality(Buffered(k)))
  /\ storage' = [storage EXCEPT ![k] = Absent]
  /\ Acknowledge(k, Absent)
  /\ UNCHANGED <<schemaVersion, callVars, leftover>>

DelFails(k) ==
  /\ pc = "idle"
  /\ storage[k] # Absent
  /\ buffer' = Undo(k)
  /\ writesBuffered' = CountLess(Cardinality(Buffered(k)))
  /\ hurt' = IF Buffered(k) # {} THEN hurt \union {k} ELSE hurt
  /\ UNCHANGED <<schemaVersion, storage, callVars, logical, leftover>>

(* os_persist_erase_all: files that cannot be removed are passed over.     *)
EraseAll(kept) ==
  /\ pc = "idle"
  /\ kept \subseteq {k \in Keys : storage[k] # Absent}
  /\ buffer' = [s \in Slots |-> Invalid]
  /\ writesBuffered' = 0
  /\ storage' = [k \in Keys |-> IF k \in kept THEN storage[k] ELSE Absent]
  /\ schemaVersion' = Absent
  /\ logical' = [k \in Keys |-> Absent]
  /\ hurt' = kept
  /\ leftover' = FALSE
  /\ UNCHANGED callVars

-----------------------------------------------------------------------------
(* Power fails and os_persist_init runs.  What was only buffered is lost,  *)
(* as the service's documentation lets it be, so `logical` goes back to    *)
(* the files.  A key that was being written is torn for good.              *)
Crash ==
  /\ buffer' = [s \in Slots |-> Invalid]
  /\ writesBuffered' = 0
  /\ pc' = "idle" /\ idx' = 0 /\ pending' = NoPut
  /\ \/ storage[SchemaKey] # Torn /\ schemaVersion' = storage[SchemaKey]
     \/ storage[SchemaKey] = Torn /\ schemaVersion' \in Values \union {Absent}
  /\ logical' = [k \in Keys |-> IF storage[k] = Torn THEN Absent ELSE storage[k]]
  /\ hurt' = {k \in Keys : storage[k] = Torn}
  /\ leftover' = FALSE
  /\ UNCHANGED storage

-----------------------------------------------------------------------------
Next ==
  \/ \E k \in DataKeys, v \in Values : PutData(k, v)
  \/ \E v \in Values : SetSchemaVersion(v)
  \/ \E k \in DataKeys : Del(k) \/ DelFails(k)
  \/ \E kept \in SUBSET Keys : EraseAll(kept)
  \/ FlushCall \/ FlushSkip \/ OpenFails \/ OpenTruncates
  \/ WriteSucceeds \/ WriteFails \/ CloseFails \/ FlushReturns \/ FlushReturnsToPut
  \/ Crash

Spec == Init /\ [][Next]_vars

-----------------------------------------------------------------------------
(* Types of the state. *)
TypeOK ==
  /\ buffer \in [Slots -> {Invalid} \union Entry]
  /\ writesBuffered \in 0 .. CountMod - 1
  /\ schemaVersion \in Values \union {Absent}
  /\ storage \in [Keys -> Values \union {Absent, Torn}]
  /\ pc \in {"idle", "flush", "write"}
  /\ idx \in 0 .. BufferSize
  /\ pending \in {NoPut} \union [active : {TRUE}, key : Keys, val : Values]
  /\ logical \in [Keys -> Values \union {Absent}]
  /\ hurt \subseteq Keys
  /\ leftover \in BOOLEAN

(* No key has two entries in the buffer: a get that stops at the first one *)
(* would return the older value, and a flush would write them in the order *)
(* of the slots, whichever is newer.                                       *)
OneEntryPerKey == \A k \in Keys : Cardinality(Buffered(k)) <= 1

(* What a client reads is what it was last told is stored, at any point of *)
(* a flush, after failed and partial writes, deletions, erasures and       *)
(* restarts.  The exceptions are the keys in `hurt`: a crash in the middle *)
(* of the file, a file whose fclose failed, a put that took the slot of an *)
(* entry its own flush could not write, a deletion or an erasure that      *)
(* reported or passed over an error.                                       *)
ReadBack == \A k \in Keys \ hurt : Get(k) = logical[k]

(* The counter that the persistence task and the shell go by is the number *)
(* of entries waiting, as long as the last flush wrote all of them.        *)
CounterExact == pc = "idle" /\ ~leftover => writesBuffered = Cardinality(Valid)

(* The copy of the schema version in memory is the one that will be read   *)
(* back from the store.                                                    *)
SchemaAgrees ==
  pc = "idle" /\ SchemaKey \notin hurt => schemaVersion = logical[SchemaKey]

=============================================================================

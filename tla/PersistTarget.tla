---------------------------- MODULE PersistTarget ----------------------------
(***************************************************************************)
(* The persistence service of both builds.  On the ESP32-C6 the values are *)
(* blobs in NVS instead of files (the second half of os/src/os_persist.c). *)
(* The buffer is handled alike; what differs is storage.  NVS is external: *)
(* it writes a blob as a whole or not at all, reads back at once what was  *)
(* written, and promises that a change outlives a crash only once          *)
(* nvs_commit has returned ESP_OK after it.                                *)
(***************************************************************************)
EXTENDS Persist

VARIABLES
  build,     \* "host" or "target"
  survives,  \* on the target: what a restart may find, of each key
  flushed,   \* on the target: the keys written by the flush under way, which
             \* the code counts
  risky      \* history, on the target: keys deleted since the last commit, or
             \* written by a flush whose commit failed

nvsVars == <<survives, flushed, risky>>
allVars == <<vars, build, nvsVars>>

Blobs == Values \union {Absent}

BothInit ==
  /\ Init
  /\ build \in {"host", "target"}
  /\ survives = [k \in Keys |-> {Absent}]
  /\ flushed = {} /\ risky = {}

Host == build = "host" /\ Next /\ UNCHANGED <<build, nvsVars>>

-----------------------------------------------------------------------------
(* os_persist_put and os_persist_set_schema_version. *)
NvsPut(k, v) == PutData(k, v) /\ UNCHANGED nvsVars

NvsSetSchemaVersion(v) == SetSchemaVersion(v) /\ UNCHANGED nvsVars

(* os_persist_flush. *)
NvsFlush == (FlushCall \/ FlushSkip) /\ UNCHANGED nvsVars

NvsSetBlob ==
  /\ pc = "flush" /\ idx < BufferSize
  /\ buffer[idx].valid
  /\ storage' = [storage EXCEPT ![buffer[idx].key] = buffer[idx].val]
  /\ survives' = [survives EXCEPT ![buffer[idx].key] = @ \union {buffer[idx].val}]
  /\ flushed' = flushed \union {buffer[idx].key}
  /\ buffer' = [buffer EXCEPT ![idx] = Invalid]
  /\ idx' = idx + 1
  /\ UNCHANGED <<writesBuffered, schemaVersion, pc, pending, history, risky>>

NvsSetBlobFails == OpenFails /\ UNCHANGED nvsVars

FlushEnds == FlushReturns \/ FlushReturnsToPut

(* Faulty variant: a flush for a put leaves the commit to the next flush.  *)
NvsCommitNotForPut ==
  /\ flushed # {} /\ FlushEnds
  /\ survives' = IF pending.active THEN survives ELSE [k \in Keys |-> {storage[k]}]
  /\ flushed' = {} /\ risky' = {}

NvsCommit ==
  /\ flushed # {} /\ FlushEnds
  /\ survives' = [k \in Keys |-> {storage[k]}]
  /\ flushed' = {} /\ risky' = {}

(* The flush says OK, and its entries are gone from the buffer. *)
NvsCommitFails ==
  /\ flushed # {} /\ FlushEnds
  /\ flushed' = {} /\ risky' = risky \union flushed
  /\ UNCHANGED survives

NvsNoCommit == flushed = {} /\ FlushEnds /\ UNCHANGED nvsVars

(* os_persist_del: nothing is committed. *)
NvsDel(k) ==
  /\ Del(k)
  /\ survives' = [survives EXCEPT ![k] = @ \union {Absent}]
  /\ risky' = risky \union {k}
  /\ UNCHANGED flushed

NvsDelFails(k) == DelFails(k) /\ UNCHANGED nvsVars

(* os_persist_erase_all: whether the commit succeeds is not looked at.     *)
NvsEraseAll ==
  /\ EraseAll({})
  /\ \/ survives' = [k \in Keys |-> {Absent}] /\ risky' = {}
     \/ survives' = [k \in Keys |-> survives[k] \union {Absent}] /\ risky' = Keys
  /\ UNCHANGED flushed

(* By the time nvs_erase_all fails the buffer is empty. *)
NvsEraseFails(erased) ==
  /\ pc = "idle"
  /\ erased \subseteq {k \in Keys : storage[k] # Absent}
  /\ buffer' = [s \in Slots |-> Invalid]
  /\ writesBuffered' = 0
  /\ storage' = [k \in Keys |-> IF k \in erased THEN Absent ELSE storage[k]]
  /\ survives' = [k \in Keys |-> IF k \in erased THEN survives[k] \union {Absent}
                                 ELSE survives[k]]
  /\ hurt' = hurt \union erased \union {buffer[s].key : s \in Valid}
  /\ leftover' = FALSE
  /\ UNCHANGED <<schemaVersion, callVars, logical, flushed, risky>>

(* Power fails and os_persist_init runs. *)
NvsRestart ==
  /\ buffer' = [s \in Slots |-> Invalid]
  /\ writesBuffered' = 0
  /\ pc' = "idle" /\ idx' = 0 /\ pending' = NoPut
  /\ schemaVersion' = storage'[SchemaKey]
  /\ logical' = storage'
  /\ hurt' = {} /\ leftover' = FALSE
  /\ survives' = [k \in Keys |-> {storage'[k]}]
  /\ flushed' = {} /\ risky' = {}

NvsCrash ==
  /\ storage' \in {s \in [Keys -> Blobs] : \A k \in Keys : s[k] \in survives[k]}
  /\ NvsRestart

(* nvs_flash_init finds no free page, or a newer format: all is erased.    *)
NvsInitErases == storage' = [k \in Keys |-> Absent] /\ NvsRestart

Target ==
  /\ build = "target" /\ UNCHANGED build
  /\ \/ \E k \in DataKeys, v \in Values : NvsPut(k, v)
     \/ \E v \in Values : NvsSetSchemaVersion(v)
     \/ NvsFlush \/ NvsSetBlob \/ NvsSetBlobFails
     \/ NvsCommit \/ NvsCommitFails \/ NvsNoCommit
     \/ \E k \in DataKeys : NvsDel(k) \/ NvsDelFails(k)
     \/ NvsEraseAll \/ \E erased \in SUBSET Keys : NvsEraseFails(erased)
     \/ NvsCrash \/ NvsInitErases

BothSpec == BothInit /\ [][Host \/ Target]_allVars

-----------------------------------------------------------------------------
(* A crash, wherever it strikes, loses only what may be lost: what is in   *)
(* the buffer, in the flush under way, given up already, or risky.  Every  *)
(* other key has its last acknowledged value again.                        *)
Crashes == IF build = "host" THEN Crash ELSE NvsCrash

SurvivesCrash ==
  [][Crashes =>
       \A k \in Keys \ (hurt \union risky \union flushed) :
         Buffered(k) = {} => Get(k)' = logical[k]]_allVars

(* What a get of each key returns, and what a restart may find of it.      *)
Reads == [k \in Keys |-> Get(k)]

Kept == IF build = "host" THEN [k \in Keys |-> {storage[k]}] ELSE survives

Store == INSTANCE KeyValue
           WITH Key <- Keys, Value <- Values, Spoilt <- Torn,
                told <- logical, reads <- Reads, keeps <- Kept

(* Both builds are the abstract store: a flush shows in no get, whatever   *)
(* fails in it, but where it gives a value up; no step lets a key read, or *)
(* storage keep, a value that was overwritten, deleted, or another key's.  *)
ImplementsKeyValue == Store!Spec

=============================================================================

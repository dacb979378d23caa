--------------------------- MODULE PersistProofs ---------------------------
(***************************************************************************)
(* Proofs of the safety properties of the store, for any keys and values,  *)
(* any size of the buffer, and a counter of any width that can count it:   *)
(* first of Persist, the host build alone, then of PersistTarget, both     *)
(* builds, of which what does not concern NVS is proved in the first part; *)
(* last, that both builds implement the abstract store.                    *)
(***************************************************************************)
EXTENDS PersistTarget, FiniteSetTheorems, WellFoundedInduction, TLAPS

(* The position in a flush.  The key that a put waits to store has no      *)
(* entry: the put has looked, and nobody else stores in the meantime.      *)
FlushInv ==
  /\ pc = "idle" => ~pending.active
  /\ pc = "write" => idx \in Slots /\ buffer[idx].valid
  /\ pending.active => Buffered(pending.key) = {}

(* OneEntryPerKey without counting. *)
UniqueEntry == \A s, t \in Valid : buffer[s].key = buffer[t].key => s = t

(* ReadBack by cases: an entry has the value, or there is none and the     *)
(* file has it.                                                            *)
ReadInv ==
  \A k \in Keys \ hurt :
    /\ \A s \in Buffered(k) : buffer[s].val = logical[k]
    /\ Buffered(k) = {} => storage[k] = logical[k]

(* os_persist_set_schema_version changes memory first, so while its put    *)
(* waits for the flush memory is ahead of the store.                       *)
SchemaInv ==
  IF pending.active /\ pending.key = SchemaKey
  THEN schemaVersion = pending.val
  ELSE SchemaKey \notin hurt => schemaVersion = logical[SchemaKey]

IInv == TypeOK /\ FlushInv /\ UniqueEntry /\ ReadInv /\ SchemaInv /\ CounterExact

-----------------------------------------------------------------------------
(* The lowest of a set of slots is one of them: the natural numbers are    *)
(* well-founded.                                                           *)
LEMMA LowestIsOne ==
  ASSUME NEW S \in SUBSET Slots, S # {}
  PROVE  Lowest(S) \in S
<1> DEFINE R == OpToRel(<, Nat)
<1>1. Slots \subseteq Nat
  BY BufferSizeAssumption, SMT DEF Slots
<1>2. PICK x \in S : \A y \in S : ~ (<<y, x>> \in R)
  <2> HIDE DEF R
  <2>1. IsWellFoundedOn(R, Nat)
    BY NatLessThanWellFounded DEF R
  <2> QED
    BY <1>1, <2>1, WFMin
<1>3. \A y \in S : ~ (y < x)
  BY <1>1, <1>2 DEF OpToRel
<1>4. \A y \in S : x <= y
  BY <1>1, <1>3, SMT
<1> QED
  BY <1>4 DEF Lowest

LEMMA SlotsFinite ==
  ASSUME NEW S \in SUBSET Slots
  PROVE  IsFiniteSet(S) /\ Cardinality(S) \in 0 .. BufferSize
<1>1. IsFiniteSet(Slots) /\ Cardinality(Slots) = BufferSize
  <2>1. 0 \in Int /\ BufferSize - 1 \in Int /\ ~ (0 > BufferSize - 1)
        /\ (BufferSize - 1) - 0 + 1 = BufferSize
    BY BufferSizeAssumption, SMT
  <2> QED
    BY <2>1, FS_Interval DEF Slots
<1>2. IsFiniteSet(S) /\ Cardinality(S) <= Cardinality(Slots)
  BY <1>1, FS_Subset
<1>3. Cardinality(S) \in Nat
  BY <1>2, FS_CardinalityType
<1> QED
  BY <1>1, <1>2, <1>3, BufferSizeAssumption, SMT

(* Subtracting at most what is there from an unsigned counter. *)
LEMMA Subtracts ==
  ASSUME NEW m \in Nat \ {0}, NEW c \in 0 .. m - 1, NEW n \in 0 .. c
  PROVE  (c + m - n) % m = c - n
<1>1. c + m - n = m + (c - n) /\ c - n \in 0 .. m - 1
  BY SMT
<1>2. (m + (c - n)) % m = c - n
  BY <1>1, SMT
<1> QED
  BY <1>1, <1>2

LEMMA ValidSlots == Valid \subseteq Slots /\ \A k : Buffered(k) \subseteq Valid
BY DEF Valid, Buffered

(* What the entries are. *)
LEMMA EntryTypes ==
  ASSUME TypeOK, NEW s \in Slots
  PROVE  /\ buffer[s].valid \in BOOLEAN
         /\ buffer[s].valid => buffer[s].key \in Keys /\ buffer[s].val \in Values
         /\ ~buffer[s].valid => buffer[s] = Invalid
<1>1. buffer[s] = Invalid \/ buffer[s] \in Entry
  BY DEF TypeOK
<1>2. CASE buffer[s] = Invalid
  BY <1>2 DEF Invalid
<1>3. CASE buffer[s] \in Entry
  BY <1>3 DEF Entry
<1> QED
  BY <1>1, <1>2, <1>3

-----------------------------------------------------------------------------
(* What storing in a slot and clearing slots do to the buffer. *)

LEMMA StoreEffect ==
  ASSUME TypeOK, NEW s \in Slots, NEW k \in Keys, NEW v \in Values, StoreIn(s, k, v)
  PROVE  /\ buffer' \in [Slots -> {Invalid} \union Entry]
         /\ buffer'[s].valid /\ buffer'[s].key = k /\ buffer'[s].val = v
         /\ \A t \in Slots : t # s => buffer'[t] = buffer[t]
         /\ Valid' = Valid \union {s}
<1>1. [valid |-> TRUE, key |-> k, val |-> v] \in Entry
  BY DEF Entry
<1>2. buffer' \in [Slots -> {Invalid} \union Entry]
  BY <1>1 DEF StoreIn, TypeOK
<1>3. buffer'[s] = [valid |-> TRUE, key |-> k, val |-> v]
  BY DEF StoreIn, TypeOK
<1>4. buffer'[s].valid /\ buffer'[s].key = k /\ buffer'[s].val = v
  BY <1>3
<1>5. \A t \in Slots : t # s => buffer'[t] = buffer[t]
  BY DEF StoreIn, TypeOK
<1>6. Valid' = Valid \union {s}
  BY <1>4, <1>5 DEF Valid
<1> QED
  BY <1>2, <1>4, <1>5, <1>6

LEMMA ClearEffect ==
  ASSUME TypeOK, NEW S \in SUBSET Slots,
         buffer' = [s \in Slots |-> IF s \in S THEN Invalid ELSE buffer[s]]
  PROVE  /\ buffer' \in [Slots -> {Invalid} \union Entry]
         /\ \A s \in Slots \ S : buffer'[s] = buffer[s]
         /\ Valid' = Valid \ S
         /\ \A k : Buffered(k)' = Buffered(k) \ S
<1>1. buffer' \in [Slots -> {Invalid} \union Entry]
  BY DEF TypeOK
<1>2. \A s \in Slots \ S : buffer'[s] = buffer[s]
  OBVIOUS
<1>3. \A s \in S : ~buffer'[s].valid
  BY DEF Invalid
<1>4. Valid' = Valid \ S
  BY <1>2, <1>3 DEF Valid
<1>5. \A k : Buffered(k)' = Buffered(k) \ S
  BY <1>2, <1>4 DEF Buffered, Valid
<1> QED
  BY <1>1, <1>2, <1>4, <1>5

(* The three ways in which slots are cleared are of that form. *)
LEMMA ClearOne ==
  ASSUME TypeOK, NEW i \in Slots, buffer' = [buffer EXCEPT ![i] = Invalid]
  PROVE  buffer' = [s \in Slots |-> IF s \in {i} THEN Invalid ELSE buffer[s]]
BY DEF TypeOK

LEMMA ClearAll ==
  ASSUME buffer' = [s \in Slots |-> Invalid]
  PROVE  Valid' = {}
BY DEF Valid, Invalid

-----------------------------------------------------------------------------
LEMMA InitIInv == Init => IInv
<1> SUFFICES ASSUME Init PROVE IInv
  OBVIOUS
<1> USE DEF Init
<1>1. Valid = {} /\ \A k : Buffered(k) = {}
  BY DEF Valid, Buffered, Invalid
<1>2. 0 \in 0 .. CountMod - 1 /\ 0 \in 0 .. BufferSize
  BY BufferSizeAssumption, CountModAssumption, SMT
<1>3. TypeOK
  BY <1>2 DEF TypeOK
<1>4. ~pending.active
  BY DEF NoPut
<1>5. FlushInv /\ UniqueEntry /\ ReadInv /\ SchemaInv
  BY <1>1, <1>4 DEF FlushInv, UniqueEntry, ReadInv, SchemaInv, Keys
<1>6. CounterExact
  BY <1>1, FS_EmptySet DEF CounterExact
<1> QED
  BY <1>3, <1>5, <1>6 DEF IInv

(* A put outside a flush, in the slot of its key or in a free one. *)
LEMMA StoredIdle ==
  ASSUME IInv, pc = "idle", NEW s \in Slots, NEW k \in Keys, NEW v \in Values,
         StoreIn(s, k, v), Acknowledge(k, v), UNCHANGED <<storage, callVars>>,
         Buffered(k) \subseteq {s}, s \in Valid => s \in Buffered(k)
  PROVE  FlushInv' /\ UniqueEntry' /\ ReadInv'
<1> USE DEF IInv
<1>1. /\ buffer'[s].valid /\ buffer'[s].key = k /\ buffer'[s].val = v
      /\ \A t \in Slots : t # s => buffer'[t] = buffer[t]
      /\ Valid' = Valid \union {s}
  BY StoreEffect
<1>2. FlushInv'
  BY DEF FlushInv, callVars
<1>3. \A t \in Valid : t # s => t \in Slots /\ buffer[t].key # k
  BY DEF Buffered, Valid
<1>4. UniqueEntry'
  <2> SUFFICES ASSUME NEW t \in Valid', NEW u \in Valid',
                      buffer'[t].key = buffer'[u].key
               PROVE  t = u
    BY DEF UniqueEntry
  <2> QED
    BY <1>1, <1>3 DEF UniqueEntry, Valid
<1>5. ReadInv'
  <2> SUFFICES ASSUME NEW j \in Keys, j \notin hurt'
               PROVE  /\ \A t \in Buffered(j)' : buffer'[t].val = logical'[j]
                      /\ Buffered(j)' = {} => storage'[j] = logical'[j]
    BY DEF ReadInv
  <2>1. CASE j = k
    <3>1. Buffered(j)' = {s}
      BY <1>1, <1>3, <2>1 DEF Buffered, Valid
    <3>2. logical'[j] = v
      BY <2>1 DEF Acknowledge, TypeOK
    <3> QED
      BY <1>1, <3>1, <3>2
  <2>2. CASE j # k
    <3>1. Buffered(j)' = Buffered(j)
      BY <1>1, <2>2 DEF Buffered, Valid
    <3>2. logical'[j] = logical[j] /\ j \notin hurt
      BY <2>2 DEF Acknowledge, TypeOK
    <3>3. \A t \in Buffered(j) : buffer'[t] = buffer[t]
      BY <1>1, <2>2 DEF Buffered, Valid
    <3> QED
      BY <3>1, <3>2, <3>3 DEF ReadInv
  <2> QED
    BY <2>1, <2>2
<1> QED
  BY <1>2, <1>4, <1>5

(* os_persist_put keeps everything but the schema version's agreement,     *)
(* which depends on its caller.                                            *)
PutInv == FlushInv /\ UniqueEntry /\ ReadInv /\ CounterExact

LEMMA PutSameKeyInv ==
  ASSUME IInv, NEW k \in Keys, NEW v \in Values, PutSameKey(k, v),
         schemaVersion' \in Values \union {Absent}
  PROVE  TypeOK' /\ PutInv'
<1> USE DEF IInv, PutSameKey
<1> DEFINE s == Lowest(Buffered(k))
<1>1. s \in Buffered(k) /\ s \in Slots
  BY LowestIsOne, ValidSlots
<1>2. Buffered(k) \subseteq {s}
  BY <1>1 DEF UniqueEntry, Buffered
<1> HIDE DEF s
<1>3. StoreIn(s, k, v)
  BY DEF s
<1>4. FlushInv' /\ UniqueEntry' /\ ReadInv'
  BY <1>1, <1>2, <1>3, StoredIdle
<1>5. buffer' \in [Slots -> {Invalid} \union Entry] /\ Valid' = Valid
  BY <1>1, <1>3, StoreEffect DEF Buffered
<1>6. TypeOK'
  BY <1>5 DEF TypeOK, Acknowledge, callVars
<1>7. CounterExact'
  BY <1>5 DEF CounterExact, callVars
<1> QED
  BY <1>4, <1>6, <1>7 DEF PutInv

LEMMA PutNewKeyInv ==
  ASSUME IInv, NEW k \in Keys, NEW v \in Values, PutNewKey(k, v),
         schemaVersion' \in Values \union {Absent}
  PROVE  TypeOK' /\ PutInv'
<1> USE DEF IInv, PutNewKey
<1> DEFINE s == Lowest(Slots \ Valid)
<1>1. s \in Slots /\ s \notin Valid
  BY LowestIsOne, ValidSlots
<1> HIDE DEF s
<1>2. StoreIn(s, k, v)
  BY DEF s
<1>3. FlushInv' /\ UniqueEntry' /\ ReadInv'
  BY <1>1, <1>2, StoredIdle
<1>4. buffer' \in [Slots -> {Invalid} \union Entry] /\ Valid' = Valid \union {s}
  BY <1>1, <1>2, StoreEffect
<1>5. IsFiniteSet(Valid) /\ Cardinality(Valid) \in 0 .. BufferSize - 1
  <2>1. IsFiniteSet(Slots \ Valid) /\ IsFiniteSet(Valid) /\ IsFiniteSet(Slots)
    BY SlotsFinite, ValidSlots
  <2>2. Cardinality(Valid \union {s}) = Cardinality(Valid) + 1
    BY <1>1, <2>1, FS_AddElement
  <2>3. Cardinality(Valid \union {s}) \in 0 .. BufferSize /\ Cardinality(Valid) \in 0 .. BufferSize
    BY <1>1, SlotsFinite, ValidSlots
  <2> QED
    BY <2>1, <2>2, <2>3, BufferSizeAssumption, SMT
<1>6. writesBuffered' \in 0 .. CountMod - 1
  BY CountModAssumption, BufferSizeAssumption, SMT DEF TypeOK
<1>7. TypeOK'
  BY <1>4, <1>6 DEF TypeOK, Acknowledge, callVars
<1>8. CounterExact'
  <2> SUFFICES ASSUME ~leftover PROVE writesBuffered' = Cardinality(Valid')
    BY DEF CounterExact
  <2>1. writesBuffered = Cardinality(Valid)
    BY DEF CounterExact
  <2>2. Cardinality(Valid') = Cardinality(Valid) + 1
    BY <1>1, <1>4, <1>5, FS_AddElement
  <2>3. (Cardinality(Valid) + 1) % CountMod = Cardinality(Valid) + 1
    BY <1>5, CountModAssumption, BufferSizeAssumption, SMT
  <2> QED
    BY <2>1, <2>2, <2>3
<1> QED
  BY <1>3, <1>7, <1>8 DEF PutInv

LEMMA PutBufferFullInv ==
  ASSUME IInv, NEW k \in Keys, NEW v \in Values, PutBufferFull(k, v),
         schemaVersion' \in Values \union {Absent}
  PROVE  TypeOK' /\ PutInv'
<1> USE DEF IInv, PutBufferFull
<1>1. Valid' = Valid /\ \A j : Buffered(j)' = Buffered(j)
  BY DEF Valid, Buffered
<1>2. FlushInv'
  BY <1>1 DEF FlushInv
<1>3. UniqueEntry' /\ ReadInv'
  BY <1>1 DEF UniqueEntry, ReadInv, history
<1>4. CounterExact'
  BY DEF CounterExact
<1>5. 0 \in 0 .. BufferSize
  BY BufferSizeAssumption, SMT
<1>6. pending' \in [active : {TRUE}, key : Keys, val : Values]
  OBVIOUS
<1>7. TypeOK'
  BY <1>5, <1>6 DEF TypeOK, history
<1> QED
  BY <1>2, <1>3, <1>4, <1>7 DEF PutInv

(* The schema version after a put: of another key nothing changes, of its  *)
(* own the version in memory is the one put.                               *)
LEMMA PutSchema ==
  ASSUME IInv, NEW k \in Keys, NEW v \in Values, Put(k, v),
         IF k = SchemaKey THEN schemaVersion' = v ELSE UNCHANGED schemaVersion
  PROVE  SchemaInv'
<1> USE DEF IInv
<1>1. pc = "idle" /\ ~pending.active
  BY DEF Put, PutSameKey, PutNewKey, PutBufferFull, FlushInv
<1>2. SchemaKey \in Keys
  BY DEF Keys
<1>3. CASE PutBufferFull(k, v)
  <2>1. pending'.active /\ pending'.key = k /\ pending'.val = v
    BY <1>3 DEF PutBufferFull
  <2>2. hurt' = hurt /\ logical' = logical
    BY <1>3 DEF PutBufferFull, history
  <2> QED
    BY <1>1, <2>1, <2>2 DEF SchemaInv
<1>4. CASE PutSameKey(k, v) \/ PutNewKey(k, v)
  <2>1. pending' = pending /\ Acknowledge(k, v)
    BY <1>4 DEF PutSameKey, PutNewKey, callVars
  <2>2. CASE k = SchemaKey
    BY <1>1, <1>2, <2>1, <2>2 DEF SchemaInv, Acknowledge, TypeOK
  <2>3. CASE k # SchemaKey
    BY <1>1, <1>2, <2>1, <2>3 DEF SchemaInv, Acknowledge, TypeOK
  <2> QED
    BY <2>2, <2>3
<1> QED
  BY <1>3, <1>4 DEF Put

LEMMA PutKeepsIInv ==
  ASSUME IInv, NEW k \in Keys, NEW v \in Values, Put(k, v),
         IF k = SchemaKey THEN schemaVersion' = v ELSE UNCHANGED schemaVersion
  PROVE  IInv'
<1>1. schemaVersion' \in Values \union {Absent}
  BY DEF IInv, TypeOK
<1>2. TypeOK' /\ PutInv'
  BY <1>1, PutSameKeyInv, PutNewKeyInv, PutBufferFullInv DEF Put
<1> QED
  BY <1>2, PutSchema DEF IInv, PutInv

-----------------------------------------------------------------------------
(* The steps of a flush that leave the buffer alone. *)
LEMMA BufferKept ==
  ASSUME IInv, UNCHANGED <<buffer, pending>>, pc' # "idle"
  PROVE  /\ Valid' = Valid /\ \A k : Buffered(k)' = Buffered(k)
         /\ UniqueEntry' /\ CounterExact'
         /\ (pending.active => Buffered(pending.key) = {})'
<1>1. Valid' = Valid /\ \A k : Buffered(k)' = Buffered(k)
  BY DEF Valid, Buffered
<1>2. UniqueEntry'
  BY <1>1 DEF UniqueEntry, IInv
<1>3. CounterExact'
  BY DEF CounterExact
<1>4. (pending.active => Buffered(pending.key) = {})'
  BY DEF IInv, FlushInv, Buffered, Valid
<1> QED
  BY <1>1, <1>2, <1>3, <1>4

LEMMA FlushSkipInv ==
  ASSUME IInv, FlushSkip \/ OpenFails \/ WriteFails
  PROVE  IInv'
<1> USE DEF IInv
<1>1. /\ pc' = "flush" /\ idx' = idx + 1
      /\ UNCHANGED <<buffer, writesBuffered, schemaVersion, storage, pending, history>>
  BY DEF FlushSkip, OpenFails, WriteFails
<1>2. idx \in 0 .. BufferSize - 1
  BY BufferSizeAssumption, SMT DEF FlushSkip, OpenFails, WriteFails, FlushInv, Slots, TypeOK
<1>3. idx' \in 0 .. BufferSize
  BY <1>1, <1>2, BufferSizeAssumption, SMT
<1>4. TypeOK'
  BY <1>1, <1>3 DEF TypeOK, history
<1>5. FlushInv' /\ UniqueEntry' /\ CounterExact'
  BY <1>1, BufferKept DEF FlushInv
<1>6. ReadInv' /\ SchemaInv'
  BY <1>1, BufferKept DEF ReadInv, SchemaInv, history
<1> QED
  BY <1>4, <1>5, <1>6

LEMMA FlushCallInv ==
  ASSUME IInv, FlushCall
  PROVE  IInv'
<1> USE DEF IInv, FlushCall
<1>1. Valid' = Valid /\ (\A k : Buffered(k)' = Buffered(k)) /\ ~pending'.active /\ ~pending.active
  BY DEF Valid, Buffered, NoPut, FlushInv
<1>2. 0 \in 0 .. BufferSize
  BY BufferSizeAssumption, SMT
<1>3. TypeOK'
  BY <1>2 DEF TypeOK, history
<1>4. FlushInv' /\ UniqueEntry' /\ CounterExact'
  BY <1>1 DEF FlushInv, UniqueEntry, CounterExact
<1>5. ReadInv' /\ SchemaInv'
  BY <1>1 DEF ReadInv, SchemaInv, history
<1> QED
  BY <1>3, <1>4, <1>5

(* The old file is destroyed, but its key has an entry. *)
LEMMA OpenTruncatesInv ==
  ASSUME IInv, OpenTruncates
  PROVE  IInv'
<1> USE DEF IInv, OpenTruncates
<1>1. idx \in Slots
  BY BufferSizeAssumption, SMT DEF TypeOK, Slots
<1>2. idx \in Buffered(buffer[idx].key) /\ buffer[idx].key \in Keys
  BY <1>1, EntryTypes DEF Buffered, Valid
<1>3. TypeOK'
  BY DEF TypeOK, history
<1>4. FlushInv' /\ UniqueEntry' /\ CounterExact'
  BY <1>1, BufferKept DEF FlushInv
<1>5. SchemaInv'
  BY DEF SchemaInv, history
<1>6. \A k \in Keys : Buffered(k) = {} => storage'[k] = storage[k]
  BY <1>2 DEF TypeOK
<1>7. ReadInv'
  BY <1>6, BufferKept DEF ReadInv, history
<1> QED
  BY <1>3, <1>4, <1>5, <1>7

(* The entry at idx goes, written or not. *)
LEMMA EntryDone ==
  ASSUME IInv, idx \in Slots, pc' = "flush", idx' = idx + 1, UNCHANGED pending,
         buffer' = [buffer EXCEPT ![idx] = Invalid]
  PROVE  /\ idx' \in 0 .. BufferSize
         /\ buffer' \in [Slots -> {Invalid} \union Entry]
         /\ \A s \in Slots \ {idx} : buffer'[s] = buffer[s]
         /\ \A k : Buffered(k)' = Buffered(k) \ {idx}
         /\ FlushInv' /\ UniqueEntry' /\ CounterExact'
<1> USE DEF IInv
<1>1. idx' \in 0 .. BufferSize
  BY BufferSizeAssumption, SMT DEF Slots
<1>2. /\ buffer' \in [Slots -> {Invalid} \union Entry]
      /\ \A s \in Slots \ {idx} : buffer'[s] = buffer[s]
      /\ Valid' = Valid \ {idx}
      /\ \A k : Buffered(k)' = Buffered(k) \ {idx}
  <2>1. {idx} \in SUBSET Slots
    OBVIOUS
  <2> QED
    BY <2>1, ClearOne, ClearEffect
<1>3. FlushInv'
  BY <1>2 DEF FlushInv
<1>4. UniqueEntry'
  BY <1>2 DEF UniqueEntry, Valid
<1>5. CounterExact'
  BY DEF CounterExact
<1> QED
  BY <1>1, <1>2, <1>3, <1>4, <1>5

(* The entry at idx goes to storage, in two steps or in one. *)
LEMMA EntryWritten ==
  ASSUME IInv, idx \in Slots, buffer[idx].valid,
         storage' = [storage EXCEPT ![buffer[idx].key] = buffer[idx].val],
         buffer' = [buffer EXCEPT ![idx] = Invalid],
         pc' = "flush", idx' = idx + 1,
         UNCHANGED <<writesBuffered, schemaVersion, pending, history>>
  PROVE  IInv'
<1> USE DEF IInv
<1> DEFINE w == buffer[idx].key
<1>1. w \in Keys /\ buffer[idx].val \in Values /\ idx \in Buffered(w)
  BY EntryTypes DEF Buffered, Valid
<1>2. TypeOK'
  BY <1>1, EntryDone DEF TypeOK, history
<1>3. SchemaInv'
  BY DEF SchemaInv, history
<1>4. ReadInv'
  <2> SUFFICES ASSUME NEW k \in Keys, k \notin hurt
               PROVE  /\ \A s \in Buffered(k)' : buffer'[s].val = logical[k]
                      /\ Buffered(k)' = {} => storage'[k] = logical[k]
    BY DEF ReadInv, history
  <2>1. \A s \in Buffered(k)' : s \in Buffered(k) /\ buffer'[s] = buffer[s]
    BY EntryDone DEF Buffered, Valid
  <2>2. CASE k = w
    BY <1>1, <2>1, <2>2 DEF ReadInv, TypeOK
  <2>3. CASE k # w
    <3>1. Buffered(k)' = Buffered(k)
      BY <2>3, EntryDone DEF Buffered
    <3>2. storage'[k] = storage[k]
      BY <2>3 DEF TypeOK
    <3> QED
      BY <2>1, <3>1, <3>2 DEF ReadInv
  <2> QED
    BY <2>2, <2>3
<1> QED
  BY <1>2, <1>3, <1>4, EntryDone

LEMMA WriteSucceedsInv ==
  ASSUME IInv, WriteSucceeds
  PROVE  IInv'
BY EntryWritten DEF IInv, FlushInv, WriteSucceeds

LEMMA CloseFailsInv ==
  ASSUME IInv, CloseFails
  PROVE  IInv'
<1> USE DEF IInv, CloseFails
<1>1. buffer[idx].valid /\ idx \in Slots /\ buffer[idx].key \in Keys
  BY EntryTypes DEF FlushInv
<1>2. TypeOK'
  BY <1>1, EntryDone DEF TypeOK
<1>3. SchemaInv'
  BY DEF SchemaInv
<1>4. ReadInv'
  <2> SUFFICES ASSUME NEW k \in Keys, k \notin hurt, k # buffer[idx].key
               PROVE  /\ \A s \in Buffered(k)' : buffer'[s].val = logical[k]
                      /\ Buffered(k)' = {} => storage[k] = logical[k]
    BY DEF ReadInv
  <2>1. Buffered(k)' = Buffered(k) /\ \A s \in Buffered(k) : buffer'[s] = buffer[s]
    BY <1>1, EntryDone DEF Buffered, Valid
  <2> QED
    BY <2>1 DEF ReadInv
<1> QED
  BY <1>1, <1>2, <1>3, <1>4, EntryDone

(* Slot 0 goes to the key that waited: it had no entry. *)
LEMMA FlushReturnsToPutInv ==
  ASSUME IInv, FlushReturnsToPut
  PROVE  IInv'
<1> USE DEF IInv, FlushReturnsToPut
<1> DEFINE k == pending.key
           v == pending.val
<1>1. k \in Keys /\ v \in Values /\ Buffered(k) = {}
  <2>1. pending \in [active : {TRUE}, key : Keys, val : Values]
    <3>1. pending # NoPut
      BY DEF NoPut
    <3> QED
      BY <3>1 DEF TypeOK
  <2> QED
    BY <2>1 DEF FlushInv
<1> HIDE DEF k, v
<1>2. StoreIn(0, k, v) /\ logical' = [logical EXCEPT ![k] = v]
  BY DEF k, v
<1>3. 0 \in Slots /\ 1 \in 0 .. CountMod - 1 /\ 0 \in 0 .. BufferSize
  BY BufferSizeAssumption, CountModAssumption, SMT DEF Slots
<1>4. /\ buffer' \in [Slots -> {Invalid} \union Entry]
      /\ buffer'[0].valid /\ buffer'[0].key = k /\ buffer'[0].val = v
      /\ \A t \in Slots : t # 0 => buffer'[t] = buffer[t]
      /\ Valid' = Valid \union {0}
  BY <1>1, <1>2, <1>3, StoreEffect
<1>5. logical' \in [Keys -> Values \union {Absent}]
  BY <1>1, <1>2 DEF TypeOK
<1>6. hurt' \subseteq Keys
  BY <1>3, EntryTypes DEF TypeOK
<1>7. TypeOK'
  BY <1>3, <1>4, <1>5, <1>6 DEF TypeOK
<1>8. FlushInv' /\ ~pending'.active
  BY DEF FlushInv, NoPut
<1>9. \A t \in Valid : t \in Slots /\ buffer[t].key # k
  BY <1>1 DEF Buffered, Valid
<1>10. UniqueEntry'
  <2> SUFFICES ASSUME NEW t \in Valid', NEW u \in Valid', buffer'[t].key = buffer'[u].key
               PROVE  t = u
    BY DEF UniqueEntry
  <2> QED
    BY <1>4, <1>9 DEF UniqueEntry
<1>11. CounterExact'
  <2> SUFFICES ASSUME Valid = {} PROVE writesBuffered' = Cardinality(Valid')
    BY DEF CounterExact
  <2>1. Valid' = {0}
    BY <1>4
  <2> QED
    BY <2>1, FS_Singleton
<1>12. SchemaInv'
  <2>1. CASE k = SchemaKey
    BY <1>1, <1>2, <1>8, <2>1 DEF SchemaInv, TypeOK, k, v
  <2>2. CASE k # SchemaKey
    <3>1. SchemaKey \in Keys /\ pending.key # SchemaKey
      BY <2>2 DEF Keys, k
    <3>2. logical'[SchemaKey] = logical[SchemaKey]
      BY <1>2, <2>2, <3>1 DEF TypeOK
    <3>3. SchemaKey \notin hurt' => SchemaKey \notin hurt
      BY <3>1
    <3> QED
      BY <1>8, <3>1, <3>2, <3>3 DEF SchemaInv
  <2> QED
    BY <2>1, <2>2
<1>13. ReadInv'
  <2> SUFFICES ASSUME NEW j \in Keys, j \notin hurt'
               PROVE  /\ \A t \in Buffered(j)' : buffer'[t].val = logical'[j]
                      /\ Buffered(j)' = {} => storage'[j] = logical'[j]
    BY DEF ReadInv
  <2>1. CASE j = k
    <3>1. Buffered(j)' = {0} /\ logical'[j] = v
      BY <1>1, <1>2, <1>4, <1>9, <2>1 DEF Buffered, Valid, TypeOK
    <3> QED
      BY <1>4, <3>1
  <2>2. CASE j # k
    <3>1. j \notin hurt /\ ~(buffer[0].valid /\ buffer[0].key = j)
      BY <2>2 DEF k
    <3>2. Buffered(j)' = Buffered(j) /\ \A t \in Buffered(j) : buffer'[t] = buffer[t]
      BY <1>3, <1>4, <2>2, <3>1 DEF Buffered, Valid
    <3>3. logical'[j] = logical[j]
      BY <1>2, <2>2 DEF TypeOK
    <3> QED
      BY <3>1, <3>2, <3>3 DEF ReadInv
  <2> QED
    BY <2>1, <2>2
<1> QED
  BY <1>7, <1>8, <1>10, <1>11, <1>12, <1>13

LEMMA FlushReturnsInv ==
  ASSUME IInv, FlushReturns
  PROVE  IInv'
<1> USE DEF IInv, FlushReturns
<1>1. Valid' = Valid /\ \A k : Buffered(k)' = Buffered(k)
  BY DEF Valid, Buffered
<1>2. 0 \in 0 .. CountMod - 1 /\ 0 \in 0 .. BufferSize
  BY BufferSizeAssumption, CountModAssumption, SMT
<1>3. TypeOK'
  BY <1>2 DEF TypeOK
<1>4. FlushInv' /\ UniqueEntry'
  BY <1>1 DEF FlushInv, UniqueEntry
<1>5. ReadInv' /\ SchemaInv'
  BY <1>1 DEF ReadInv, SchemaInv
<1>6. CounterExact'
  BY <1>1, FS_EmptySet DEF CounterExact
<1> QED
  BY <1>3, <1>4, <1>5, <1>6

-----------------------------------------------------------------------------
(* os_persist_del, whether the file can be removed or not: the entries of  *)
(* the key go, and the counter with them.                                  *)
LEMMA UndoEffect ==
  ASSUME IInv, NEW k \in DataKeys, pc = "idle", buffer' = Undo(k),
         writesBuffered' = CountLess(Cardinality(Buffered(k))), UNCHANGED <<callVars, leftover>>
  PROVE  /\ buffer' \in [Slots -> {Invalid} \union Entry]
         /\ writesBuffered' \in 0 .. CountMod - 1
         /\ FlushInv' /\ UniqueEntry' /\ CounterExact'
         /\ Buffered(k)' = {}
         /\ \A j : j # k => /\ Buffered(j)' = Buffered(j)
                            /\ \A s \in Buffered(j) : buffer'[s] = buffer[s]
<1> USE DEF IInv
<1>0. Buffered(k) \in SUBSET Slots /\ Buffered(k) \subseteq Valid
  BY ValidSlots
<1>1. /\ buffer' \in [Slots -> {Invalid} \union Entry]
      /\ \A s \in Slots \ Buffered(k) : buffer'[s] = buffer[s]
      /\ Valid' = Valid \ Buffered(k)
      /\ \A j : Buffered(j)' = Buffered(j) \ Buffered(k)
  BY <1>0, ClearEffect DEF Undo
<1>2. \A j : j # k => /\ Buffered(j)' = Buffered(j)
                      /\ \A s \in Buffered(j) : buffer'[s] = buffer[s]
  BY <1>1 DEF Buffered, Valid
<1>3. FlushInv'
  BY DEF FlushInv, callVars
<1>4. UniqueEntry'
  BY <1>1 DEF UniqueEntry, Valid
<1>5. /\ IsFiniteSet(Valid) /\ Cardinality(Valid) \in 0 .. BufferSize
      /\ IsFiniteSet(Buffered(k)) /\ Cardinality(Buffered(k)) \in 0 .. BufferSize
      /\ Cardinality(Buffered(k)) <= Cardinality(Valid)
  BY <1>0, SlotsFinite, ValidSlots, FS_Subset
<1>6. writesBuffered' \in 0 .. CountMod - 1
  BY <1>5, CountModAssumption, BufferSizeAssumption, SMT DEF TypeOK, CountLess
<1>7. CounterExact'
  <2> SUFFICES ASSUME ~leftover PROVE writesBuffered' = Cardinality(Valid')
    BY DEF CounterExact
  <2>1. writesBuffered = Cardinality(Valid)
    BY DEF CounterExact
  <2>2. Cardinality(Valid') = Cardinality(Valid) - Cardinality(Buffered(k))
    <3>1. Valid \intersect Buffered(k) = Buffered(k)
      BY <1>0
    <3>2. Cardinality(Valid \ Buffered(k))
            = Cardinality(Valid) - Cardinality(Valid \intersect Buffered(k))
      BY <1>5, FS_Difference, Zenon
    <3>3. Valid' = Valid \ Buffered(k)
      BY <1>1
    <3> QED
      BY <3>1, <3>2, <3>3
  <2>3. writesBuffered' = Cardinality(Valid) - Cardinality(Buffered(k))
    <3>1. /\ CountMod \in Nat \ {0} /\ Cardinality(Valid) \in 0 .. CountMod - 1
          /\ Cardinality(Buffered(k)) \in 0 .. Cardinality(Valid)
      BY <1>5, CountModAssumption, BufferSizeAssumption, SMT
    <3> QED
      BY <2>1, <3>1, Subtracts DEF CountLess
  <2> QED
    BY <2>2, <2>3
<1> QED
  BY <1>1, <1>2, <1>3, <1>4, <1>6, <1>7

LEMMA DelInv ==
  ASSUME IInv, NEW k \in DataKeys, Del(k) \/ DelFails(k)
  PROVE  IInv'
<1> USE DEF IInv
<1>1. /\ pc = "idle" /\ buffer' = Undo(k)
      /\ writesBuffered' = CountLess(Cardinality(Buffered(k)))
      /\ UNCHANGED <<schemaVersion, callVars, leftover>>
  BY DEF Del, DelFails
<1>2. k \in Keys /\ k # SchemaKey /\ SchemaKey \in Keys
  BY SchemaKeyAssumption DEF Keys
<1>3. TypeOK'
  <2>1. /\ storage' \in [Keys -> Values \union {Absent, Torn}]
        /\ logical' \in [Keys -> Values \union {Absent}]
        /\ hurt' \subseteq Keys
    BY <1>2 DEF Del, DelFails, Acknowledge, TypeOK
  <2> QED
    BY <1>1, <2>1, UndoEffect DEF TypeOK, callVars
<1>4. \A j \in Keys \ {k} : /\ storage'[j] = storage[j] /\ logical'[j] = logical[j]
                            /\ j \notin hurt' => j \notin hurt
  BY DEF Del, DelFails, Acknowledge, TypeOK
<1>5. SchemaInv'
  BY <1>1, <1>2, <1>4 DEF SchemaInv, FlushInv, callVars
<1>6. ReadInv'
  <2> SUFFICES ASSUME NEW j \in Keys, j \notin hurt'
               PROVE  /\ \A s \in Buffered(j)' : buffer'[s].val = logical'[j]
                      /\ Buffered(j)' = {} => storage'[j] = logical'[j]
    BY DEF ReadInv
  <2>1. CASE j # k
    <3>1. /\ Buffered(j)' = Buffered(j)
          /\ \A s \in Buffered(j) : buffer'[s] = buffer[s]
      BY <1>1, <2>1, UndoEffect
    <3>2. j \notin hurt /\ storage'[j] = storage[j] /\ logical'[j] = logical[j]
      BY <1>4, <2>1
    <3> QED
      BY <3>1, <3>2 DEF ReadInv
  <2>2. CASE j = k /\ Del(k)
    <3>1. Buffered(j)' = {}
      BY <1>1, <2>2, UndoEffect
    <3>2. storage'[j] = Absent /\ logical'[j] = Absent
      BY <2>2 DEF Del, Acknowledge, TypeOK
    <3> QED
      BY <3>1, <3>2
  <2>3. CASE j = k /\ DelFails(k)
    <3>1. Buffered(k) = {} /\ k \notin hurt
      BY <2>3 DEF DelFails
    <3>2. Buffered(j)' = {} /\ storage'[j] = storage[j] /\ logical'[j] = logical[j]
      BY <1>1, <2>3, UndoEffect DEF DelFails
    <3> QED
      BY <2>3, <3>1, <3>2 DEF ReadInv
  <2> QED
    BY <2>1, <2>2, <2>3
<1> QED
  BY <1>1, <1>3, <1>5, <1>6, UndoEffect

LEMMA EraseAllInv ==
  ASSUME IInv, NEW kept \in SUBSET Keys, EraseAll(kept)
  PROVE  IInv'
<1> USE DEF IInv, EraseAll
<1>1. Valid' = {} /\ \A k : Buffered(k)' = {}
  BY ClearAll DEF Buffered
<1>2. 0 \in 0 .. CountMod - 1 /\ SchemaKey \in Keys
  BY CountModAssumption, BufferSizeAssumption DEF Keys
<1>3. TypeOK'
  BY <1>2 DEF TypeOK, callVars
<1>4. FlushInv' /\ ~pending'.active
  BY DEF FlushInv, callVars
<1>5. UniqueEntry' /\ ReadInv' /\ SchemaInv'
  BY <1>1, <1>2, <1>4 DEF UniqueEntry, ReadInv, SchemaInv
<1>6. CounterExact'
  BY <1>1, FS_EmptySet DEF CounterExact
<1> QED
  BY <1>3, <1>4, <1>5, <1>6

LEMMA CrashInv ==
  ASSUME IInv, Crash
  PROVE  IInv'
<1> USE DEF IInv, Crash
<1>1. Valid' = {} /\ \A k : Buffered(k)' = {}
  BY ClearAll DEF Buffered
<1>2. 0 \in 0 .. CountMod - 1 /\ 0 \in 0 .. BufferSize /\ SchemaKey \in Keys
  BY CountModAssumption, BufferSizeAssumption DEF Keys
<1>3. /\ schemaVersion' \in Values \union {Absent}
      /\ logical' \in [Keys -> Values \union {Absent}]
  BY <1>2 DEF TypeOK
<1>4. TypeOK'
  BY <1>2, <1>3 DEF TypeOK
<1>5. FlushInv' /\ ~pending'.active
  BY DEF FlushInv, NoPut
<1>6. UniqueEntry' /\ ReadInv' /\ SchemaInv'
  BY <1>1, <1>2, <1>5 DEF UniqueEntry, ReadInv, SchemaInv
<1>7. CounterExact'
  BY <1>1, FS_EmptySet DEF CounterExact
<1> QED
  BY <1>4, <1>5, <1>6, <1>7

LEMMA StutterInv ==
  ASSUME IInv, UNCHANGED vars
  PROVE  IInv'
<1> USE DEF IInv, vars, callVars, history
<1>1. Valid' = Valid /\ \A k : Buffered(k)' = Buffered(k)
  BY DEF Valid, Buffered
<1>2. TypeOK' /\ FlushInv' /\ UniqueEntry'
  BY <1>1 DEF TypeOK, FlushInv, UniqueEntry
<1>3. ReadInv' /\ SchemaInv' /\ CounterExact'
  BY <1>1 DEF ReadInv, SchemaInv, CounterExact
<1> QED
  BY <1>2, <1>3

-----------------------------------------------------------------------------
LEMMA StepIInv == IInv /\ [Next]_vars => IInv'
<1> SUFFICES ASSUME IInv, [Next]_vars PROVE IInv'
  OBVIOUS
<1>1. ASSUME NEW k \in DataKeys, NEW v \in Values, PutData(k, v) PROVE IInv'
  <2>1. k \in Keys /\ k # SchemaKey
    BY SchemaKeyAssumption DEF Keys
  <2> QED
    BY <1>1, <2>1, PutKeepsIInv DEF PutData
<1>2. ASSUME NEW v \in Values, SetSchemaVersion(v) PROVE IInv'
  <2>1. SchemaKey \in Keys
    BY DEF Keys
  <2> QED
    BY <1>2, <2>1, PutKeepsIInv DEF SetSchemaVersion
<1>3. ASSUME NEW k \in DataKeys, Del(k) \/ DelFails(k) PROVE IInv'
  BY <1>3, DelInv
<1>4. ASSUME NEW kept \in SUBSET Keys, EraseAll(kept) PROVE IInv'
  BY <1>4, EraseAllInv
<1>5. CASE FlushCall
  BY <1>5, FlushCallInv
<1>6. CASE FlushSkip \/ OpenFails \/ WriteFails
  BY <1>6, FlushSkipInv
<1>7. CASE OpenTruncates
  BY <1>7, OpenTruncatesInv
<1>8. CASE WriteSucceeds
  BY <1>8, WriteSucceedsInv
<1>9. CASE CloseFails
  BY <1>9, CloseFailsInv
<1>10. CASE FlushReturns
  BY <1>10, FlushReturnsInv
<1>11. CASE FlushReturnsToPut
  BY <1>11, FlushReturnsToPutInv
<1>12. CASE Crash
  BY <1>12, CrashInv
<1>13. CASE UNCHANGED vars
  BY <1>13, StutterInv
<1> QED
  BY <1>1, <1>2, <1>3, <1>4, <1>5, <1>6, <1>7, <1>8, <1>9, <1>10, <1>11, <1>12, <1>13
     DEF Next

(* The invariant implies what the runs check. *)
LEMMA UniqueIsOne == IInv => OneEntryPerKey
<1> SUFFICES ASSUME IInv, NEW k \in Keys PROVE Cardinality(Buffered(k)) <= 1
  BY DEF OneEntryPerKey
<1>1. \A s, t \in Buffered(k) : s = t
  BY DEF IInv, UniqueEntry, Buffered
<1>2. CASE Buffered(k) = {}
  <2>1. Cardinality(Buffered(k)) = 0
    BY <1>2, FS_EmptySet
  <2> QED
    BY <2>1, SMT
<1>3. ASSUME NEW s \in Buffered(k) PROVE Cardinality(Buffered(k)) <= 1
  <2>1. Buffered(k) = {s}
    BY <1>1, <1>3
  <2>2. Cardinality(Buffered(k)) = 1
    BY <2>1, FS_Singleton
  <2> QED
    BY <2>2, SMT
<1> QED
  BY <1>2, <1>3

LEMMA ReadIsBack == IInv => ReadBack
<1> SUFFICES ASSUME IInv, NEW k \in Keys, k \notin hurt PROVE Get(k) = logical[k]
  BY DEF ReadBack
<1>1. CASE Buffered(k) # {}
  <2>1. Lowest(Buffered(k)) \in Buffered(k)
    BY <1>1, LowestIsOne, ValidSlots
  <2> QED
    BY <1>1, <2>1 DEF IInv, ReadInv, Get
<1>2. CASE Buffered(k) = {}
  BY <1>2 DEF IInv, ReadInv, Get
<1> QED
  BY <1>1, <1>2

LEMMA SchemaDoesAgree == IInv => SchemaAgrees
BY DEF IInv, FlushInv, SchemaInv, SchemaAgrees

THEOREM Invariance == Spec => []IInv
BY InitIInv, StepIInv, PTL DEF Spec

(* Every variable of the service keeps its type, at any point of a flush.  *)
THEOREM TypeCorrect == Spec => []TypeOK
BY Invariance, PTL DEF IInv

(* os_persist_put never leaves two entries of one key in write_buffer, so  *)
(* the order in which a flush writes them cannot matter.                   *)
THEOREM OneEntry == Spec => []OneEntryPerKey
BY UniqueIsOne, Invariance, PTL

(* os_persist_get returns what was last acknowledged, whatever failed in   *)
(* between and wherever the power was lost, but for the keys in `hurt`.    *)
THEOREM ReadBackCorrect == Spec => []ReadBack
BY ReadIsBack, Invariance, PTL

(* writes_buffered counts the entries after a flush that wrote them all:   *)
(* no sequence of puts and deletions makes it wrap or drift.               *)
THEOREM CounterCorrect == Spec => []CounterExact
BY Invariance, PTL DEF IInv

(* The schema version in memory is the stored one between calls.           *)
THEOREM SchemaCorrect == Spec => []SchemaAgrees
BY SchemaDoesAgree, Invariance, PTL

-----------------------------------------------------------------------------
(* Both builds. *)

(* What is neither at risk nor in the buffer is what a restart will find.  *)
(* NVS never tears a value, no flush of the target is ever in the middle   *)
(* of one, and a restart may find what NVS has now.                        *)
NvsInv ==
  /\ build \in {"host", "target"}
  /\ build = "target" =>
       /\ pc # "write"
       /\ storage \in [Keys -> Blobs]
       /\ survives \in [Keys -> SUBSET Blobs]
       /\ \A k \in Keys : storage[k] \in survives[k]
       /\ \A k \in Keys \ (risky \union flushed \union hurt) :
            Buffered(k) = {} => survives[k] = {storage[k]}

BothInv == IInv /\ NvsInv

-----------------------------------------------------------------------------
LEMMA InitBothInv == BothInit => BothInv
<1> SUFFICES ASSUME BothInit PROVE BothInv
  OBVIOUS
<1>1. IInv
  BY InitIInv DEF BothInit
<1>2. NvsInv
  BY DEF BothInit, Init, NvsInv, Blobs
<1> QED
  BY <1>1, <1>2 DEF BothInv

LEMMA HostInv ==
  ASSUME BothInv, Host
  PROVE  BothInv'
<1>1. IInv'
  BY StepIInv DEF BothInv, Host
<1>2. NvsInv'
  BY DEF BothInv, NvsInv, Host
<1> QED
  BY <1>1, <1>2 DEF BothInv

(* The steps of the target that are steps of the host as well keep IInv.   *)
LEMMA SharedInv ==
  ASSUME IInv,
         \/ \E k \in DataKeys, v \in Values : PutData(k, v)
         \/ \E v \in Values : SetSchemaVersion(v)
         \/ \E k \in DataKeys : Del(k) \/ DelFails(k)
         \/ EraseAll({})
         \/ FlushCall \/ FlushSkip \/ OpenFails \/ FlushEnds
  PROVE  IInv'
<1>1. {} \in SUBSET Keys
  OBVIOUS
<1>2. Next
  BY <1>1, Zenon DEF Next, FlushEnds
<1> QED
  BY <1>2, StepIInv

LEMMA BufferedKept ==
  ASSUME UNCHANGED buffer
  PROVE  \A k : Buffered(k)' = Buffered(k)
BY DEF Buffered, Valid

(* A put leaves NVS alone, and the key it acknowledges has an entry. *)
LEMMA NvsPutInv ==
  ASSUME BothInv, build = "target", NEW k \in Keys, NEW v \in Values, Put(k, v),
         UNCHANGED <<build, nvsVars>>
  PROVE  NvsInv'
<1> USE DEF BothInv
<1>1. UNCHANGED <<storage, survives, risky, flushed>> /\ pc' # "write"
  BY DEF NvsInv, nvsVars, Put, PutSameKey, PutNewKey, PutBufferFull, callVars
<1>2. \A j \in Keys : Buffered(j)' = {} /\ j \notin hurt' => Buffered(j) = {} /\ j \notin hurt
  <2> SUFFICES ASSUME NEW j \in Keys, Buffered(j)' = {}, j \notin hurt'
               PROVE  Buffered(j) = {} /\ j \notin hurt
    OBVIOUS
  <2>1. CASE PutBufferFull(k, v)
    BY <2>1, BufferedKept DEF PutBufferFull, history
  <2>2. ASSUME NEW s \in Slots, StoreIn(s, k, v), Acknowledge(k, v),
               s \in Valid => s \in Buffered(k)
        PROVE  Buffered(j) = {} /\ j \notin hurt
    <3>1. /\ buffer'[s].valid /\ buffer'[s].key = k
          /\ \A t \in Slots : t # s => buffer'[t] = buffer[t]
      BY <2>2, StoreEffect DEF IInv
    <3>2. j # k
      BY <3>1 DEF Buffered, Valid
    <3>3. Buffered(j) \subseteq Buffered(j)'
      BY <2>2, <3>1, <3>2 DEF Buffered, Valid
    <3> QED
      BY <2>2, <3>2, <3>3 DEF Acknowledge
  <2>3. CASE PutSameKey(k, v)
    <3>1. Lowest(Buffered(k)) \in Buffered(k) /\ Lowest(Buffered(k)) \in Slots
      BY <2>3, LowestIsOne, ValidSlots DEF PutSameKey
    <3> QED
      BY <2>2, <2>3, <3>1 DEF PutSameKey
  <2>4. CASE PutNewKey(k, v)
    <3>1. Lowest(Slots \ Valid) \in Slots \ Valid
      BY <2>4, LowestIsOne, ValidSlots DEF PutNewKey
    <3> QED
      BY <2>2, <2>4, <3>1 DEF PutNewKey
  <2> QED
    BY <2>1, <2>3, <2>4 DEF Put
<1> QED
  BY <1>1, <1>2 DEF NvsInv

(* Steps of a flush that write nothing. *)
LEMMA NvsFlushInv ==
  ASSUME BothInv, build = "target", NvsFlush \/ NvsSetBlobFails, UNCHANGED build
  PROVE  NvsInv'
<1>1. /\ UNCHANGED <<buffer, storage, hurt, nvsVars>> /\ pc' # "write"
  BY DEF NvsFlush, NvsSetBlobFails, FlushCall, FlushSkip, OpenFails, history
<1> QED
  BY <1>1, BufferedKept DEF BothInv, NvsInv, nvsVars

LEMMA NvsSetBlobInv ==
  ASSUME BothInv, build = "target", NvsSetBlob, UNCHANGED build
  PROVE  BothInv'
<1> USE DEF BothInv, NvsSetBlob
<1> DEFINE w == buffer[idx].key
<1>1. idx \in Slots
  BY BufferSizeAssumption, SMT DEF IInv, TypeOK, Slots
<1>2. w \in Keys /\ buffer[idx].val \in Values
  BY <1>1, EntryTypes DEF IInv
<1>3. pc' = "flush"
  OBVIOUS
<1>4. IInv'
  BY <1>1, <1>3, EntryWritten
<1>5. NvsInv'
  <2>1. storage' \in [Keys -> Blobs] /\ survives' \in [Keys -> SUBSET Blobs]
    BY <1>2 DEF NvsInv, Blobs
  <2>2. ASSUME NEW k \in Keys \ (risky' \union flushed' \union hurt'), Buffered(k)' = {}
        PROVE  survives'[k] = {storage'[k]}
    <3>1. k # w /\ k \notin risky \union flushed \union hurt
      BY <2>2 DEF history
    <3>2. Buffered(k)' = Buffered(k) \ {idx}
      BY <1>1, <1>3, EntryDone
    <3>3. idx \notin Buffered(k)
      BY <3>1 DEF Buffered
    <3>4. survives'[k] = survives[k] /\ storage'[k] = storage[k]
      BY <3>1 DEF NvsInv
    <3> QED
      BY <2>2, <3>1, <3>2, <3>3, <3>4 DEF NvsInv
  <2> QED
    BY <1>3, <2>1, <2>2 DEF NvsInv
<1> QED
  BY <1>4, <1>5

(* A flush that returns to a put gives up the entry of slot 0, if there is *)
(* one, and its own key has an entry.                                      *)
LEMMA FlushEndsEffect ==
  ASSUME BothInv, FlushEnds, NEW k \in Keys, Buffered(k)' = {}, k \notin hurt'
  PROVE  Buffered(k) = {} /\ k \notin hurt
<1> USE DEF BothInv
<1>1. CASE FlushReturns
  BY <1>1, BufferedKept DEF FlushReturns
<1>2. CASE FlushReturnsToPut
  <2> DEFINE j == pending.key
             v == pending.val
  <2>1. j \in Keys /\ v \in Values
    <3>1. pending # NoPut
      BY <1>2 DEF FlushReturnsToPut, NoPut
    <3> QED
      BY <3>1 DEF IInv, TypeOK
  <2>2. 0 \in Slots /\ StoreIn(0, j, v)
    BY <1>2, BufferSizeAssumption, SMT DEF FlushReturnsToPut, Slots
  <2> HIDE DEF v
  <2>3. /\ buffer'[0].valid /\ buffer'[0].key = j
        /\ \A t \in Slots : t # 0 => buffer'[t] = buffer[t]
    BY <2>1, <2>2, StoreEffect DEF IInv
  <2>4. k # j
    BY <2>2, <2>3 DEF Buffered, Valid
  <2>5. k \notin hurt /\ ~(buffer[0].valid /\ buffer[0].key = k)
    BY <1>2, <2>4 DEF FlushReturnsToPut
  <2>6. Buffered(k) \subseteq Buffered(k)'
    BY <2>3, <2>5 DEF Buffered, Valid
  <2> QED
    BY <2>5, <2>6
<1> QED
  BY <1>1, <1>2 DEF FlushEnds

LEMMA NvsFlushEndsInv ==
  ASSUME BothInv, build = "target", NvsCommit \/ NvsCommitFails \/ NvsNoCommit, UNCHANGED build
  PROVE  NvsInv'
<1> USE DEF BothInv
<1>1. FlushEnds /\ UNCHANGED storage /\ pc' # "write"
  BY DEF NvsCommit, NvsCommitFails, NvsNoCommit, FlushEnds, FlushReturns, FlushReturnsToPut
<1>2. CASE NvsCommit
  BY <1>1, <1>2 DEF NvsInv, NvsCommit
<1>3. CASE NvsCommitFails \/ NvsNoCommit
  <2>1. UNCHANGED survives /\ risky' \union flushed' = risky \union flushed
    BY <1>3 DEF NvsCommitFails, NvsNoCommit, nvsVars
  <2> QED
    BY <1>1, <2>1, FlushEndsEffect DEF NvsInv
<1> QED
  BY <1>2, <1>3

LEMMA NvsDelInv ==
  ASSUME BothInv, build = "target", NEW k \in DataKeys, NvsDel(k) \/ NvsDelFails(k),
         UNCHANGED build
  PROVE  NvsInv'
<1> USE DEF BothInv
<1>1. /\ pc = "idle" /\ pc' = "idle" /\ buffer' = Undo(k) /\ k \in Keys
      /\ writesBuffered' = CountLess(Cardinality(Buffered(k)))
      /\ UNCHANGED <<callVars, leftover>>
  BY DEF NvsDel, NvsDelFails, Del, DelFails, callVars, Keys
<1>2. \A j : j # k => Buffered(j)' = Buffered(j)
  BY <1>1, UndoEffect
<1>3. CASE NvsDel(k)
  BY <1>1, <1>2, <1>3 DEF NvsInv, NvsDel, Del, Acknowledge, Blobs
<1>4. CASE NvsDelFails(k)
  BY <1>1, <1>2, <1>4 DEF NvsInv, NvsDelFails, DelFails, nvsVars
<1> QED
  BY <1>3, <1>4

LEMMA NvsEraseAllInv ==
  ASSUME BothInv, build = "target", NvsEraseAll, UNCHANGED build
  PROVE  NvsInv'
<1> USE DEF BothInv, NvsInv
<1>1. storage' = [k \in Keys |-> Absent] /\ pc' # "write" /\ UNCHANGED flushed
  BY DEF NvsEraseAll, EraseAll, callVars
<1>2. CASE survives' = [k \in Keys |-> {Absent}] /\ risky' = {}
  BY <1>1, <1>2 DEF Blobs
<1>3. CASE survives' = [k \in Keys |-> survives[k] \union {Absent}] /\ risky' = Keys
  BY <1>1, <1>3 DEF Blobs
<1> QED
  BY <1>2, <1>3 DEF NvsEraseAll

LEMMA NvsEraseFailsInv ==
  ASSUME BothInv, build = "target", NEW erased \in SUBSET Keys, NvsEraseFails(erased),
         UNCHANGED build
  PROVE  BothInv'
<1> USE DEF BothInv, IInv, NvsEraseFails
<1>1. Valid' = {} /\ \A k : Buffered(k)' = {}
  BY ClearAll DEF Buffered
<1>2. 0 \in 0 .. CountMod - 1 /\ SchemaKey \in Keys
  BY CountModAssumption, BufferSizeAssumption DEF Keys
<1>3. \A s \in Valid : buffer[s].key \in Keys
  BY EntryTypes DEF Valid
<1>4. TypeOK'
  <2>1. storage' \in [Keys -> Values \union {Absent, Torn}]
    BY DEF TypeOK
  <2>2. hurt' \subseteq Keys
    BY <1>3 DEF TypeOK
  <2>3. buffer' \in [Slots -> {Invalid} \union Entry]
    OBVIOUS
  <2>4. UNCHANGED <<schemaVersion, pc, idx, pending, logical>>
    BY DEF callVars
  <2> QED
    BY <1>2, <2>1, <2>2, <2>3, <2>4 DEF TypeOK
<1>5. FlushInv' /\ ~pending'.active /\ ~pending.active
  BY DEF FlushInv, callVars
<1>6. \A k \in Keys \ hurt' : Buffered(k) = {} /\ k \notin hurt /\ k \notin erased
  BY DEF Buffered
<1>7. UniqueEntry' /\ ReadInv' /\ SchemaInv'
  BY <1>1, <1>2, <1>5, <1>6 DEF UniqueEntry, ReadInv, SchemaInv
<1>8. CounterExact'
  BY <1>1, FS_EmptySet DEF CounterExact
<1>9. NvsInv'
  <2>1. /\ storage' \in [Keys -> Blobs] /\ survives' \in [Keys -> SUBSET Blobs]
        /\ pc' # "write"
    BY DEF NvsInv, Blobs, callVars
  <2> QED
    BY <1>6, <2>1 DEF NvsInv
<1> QED
  BY <1>4, <1>5, <1>7, <1>8, <1>9

LEMMA NvsRestartInv ==
  ASSUME BothInv, build = "target", NvsRestart, storage' \in [Keys -> Blobs], UNCHANGED build
  PROVE  BothInv'
<1> USE DEF BothInv, IInv, NvsRestart
<1>1. Valid' = {} /\ \A k : Buffered(k)' = {}
  BY ClearAll DEF Buffered
<1>2. 0 \in 0 .. CountMod - 1 /\ 0 \in 0 .. BufferSize /\ SchemaKey \in Keys
  BY CountModAssumption, BufferSizeAssumption DEF Keys
<1>3. TypeOK'
  BY <1>2 DEF TypeOK, Blobs
<1>4. FlushInv' /\ ~pending'.active
  BY DEF FlushInv, NoPut
<1>5. UniqueEntry' /\ ReadInv' /\ SchemaInv'
  BY <1>1, <1>2, <1>4 DEF UniqueEntry, ReadInv, SchemaInv
<1>6. CounterExact'
  BY <1>1, FS_EmptySet DEF CounterExact
<1>7. NvsInv'
  BY DEF NvsInv
<1> QED
  BY <1>3, <1>4, <1>5, <1>6, <1>7

-----------------------------------------------------------------------------
LEMMA TargetInv ==
  ASSUME BothInv, Target
  PROVE  BothInv'
<1> USE DEF BothInv
<1>0. build = "target" /\ UNCHANGED build
  BY DEF Target
<1>1. ASSUME NEW k \in DataKeys, NEW v \in Values, NvsPut(k, v) PROVE BothInv'
  BY <1>0, <1>1, SharedInv, NvsPutInv DEF NvsPut, PutData, Keys
<1>2. ASSUME NEW v \in Values, NvsSetSchemaVersion(v) PROVE BothInv'
  BY <1>0, <1>2, SharedInv, NvsPutInv DEF NvsSetSchemaVersion, SetSchemaVersion, Keys
<1>3. CASE NvsFlush \/ NvsSetBlobFails
  BY <1>0, <1>3, SharedInv, NvsFlushInv DEF NvsFlush, NvsSetBlobFails
<1>4. CASE NvsSetBlob
  BY <1>0, <1>4, NvsSetBlobInv
<1>5. CASE NvsCommit \/ NvsCommitFails \/ NvsNoCommit
  BY <1>0, <1>5, SharedInv, NvsFlushEndsInv DEF NvsCommit, NvsCommitFails, NvsNoCommit
<1>6. ASSUME NEW k \in DataKeys, NvsDel(k) \/ NvsDelFails(k) PROVE BothInv'
  BY <1>0, <1>6, SharedInv, NvsDelInv DEF NvsDel, NvsDelFails
<1>7. CASE NvsEraseAll
  BY <1>0, <1>7, SharedInv, NvsEraseAllInv DEF NvsEraseAll
<1>8. ASSUME NEW erased \in SUBSET Keys, NvsEraseFails(erased) PROVE BothInv'
  BY <1>0, <1>8, NvsEraseFailsInv
<1>9. CASE NvsCrash
  <2>1. storage' \in [Keys -> Blobs] /\ NvsRestart
    BY <1>9 DEF NvsCrash
  <2> QED
    BY <1>0, <2>1, NvsRestartInv
<1>10. CASE NvsInitErases
  <2>1. storage' \in [Keys -> Blobs] /\ NvsRestart
    BY <1>10 DEF NvsInitErases, Blobs
  <2> QED
    BY <1>0, <2>1, NvsRestartInv
<1> QED
  BY <1>1, <1>2, <1>3, <1>4, <1>5, <1>6, <1>7, <1>8, <1>9, <1>10 DEF Target

LEMMA StepBothInv == BothInv /\ [Host \/ Target]_allVars => BothInv'
<1> SUFFICES ASSUME BothInv, [Host \/ Target]_allVars PROVE BothInv'
  OBVIOUS
<1>1. CASE UNCHANGED allVars
  <2>1. IInv'
    BY <1>1, StutterInv DEF BothInv, allVars
  <2>2. NvsInv'
    BY <1>1, BufferedKept DEF BothInv, NvsInv, allVars, vars, callVars, history, nvsVars
  <2> QED
    BY <2>1, <2>2 DEF BothInv
<1> QED
  BY <1>1, HostInv, TargetInv

THEOREM BothInvariance == BothSpec => []BothInv
BY InitBothInv, StepBothInv, PTL DEF BothSpec

(* In both builds every variable of the service keeps its type. *)
THEOREM BothTypeCorrect == BothSpec => []TypeOK
BY BothInvariance, PTL DEF BothInv, IInv

(* Files or NVS: no key has two entries in the buffer. *)
THEOREM BothOneEntry == BothSpec => []OneEntryPerKey
BY UniqueIsOne, BothInvariance, PTL DEF BothInv

(* Files or NVS: os_persist_get returns what was last acknowledged, but    *)
(* for the keys in `hurt`.                                                 *)
THEOREM BothReadBack == BothSpec => []ReadBack
BY ReadIsBack, BothInvariance, PTL DEF BothInv

(* Files or NVS: writes_buffered counts the entries after a flush that     *)
(* wrote them all.                                                         *)
THEOREM BothCounter == BothSpec => []CounterExact
BY BothInvariance, PTL DEF BothInv, IInv

(* Files or NVS: the schema version in memory is the stored one between    *)
(* calls, also when nvs_erase_all fails.                                   *)
THEOREM BothSchema == BothSpec => []SchemaAgrees
BY SchemaDoesAgree, BothInvariance, PTL DEF BothInv

(* A crash at any point, of either build, loses no key that is not in the  *)
(* buffer, in the flush under way, given up, or risky.                     *)
THEOREM CrashLosesNothingSafe == BothSpec => SurvivesCrash
<1>1. BothInv /\ [Host \/ Target]_allVars
        => [Crashes => \A k \in Keys \ (hurt \union risky \union flushed) :
              Buffered(k) = {} => Get(k)' = logical[k]]_allVars
  <2> SUFFICES ASSUME BothInv, Crashes, NEW k \in Keys \ (hurt \union risky \union flushed),
                      Buffered(k) = {}
               PROVE  Get(k)' = logical[k]
    OBVIOUS
  <2>1. storage[k] = logical[k]
    BY DEF BothInv, IInv, ReadInv
  <2>2. buffer' = [s \in Slots |-> Invalid]
    BY DEF Crashes, Crash, NvsCrash, NvsRestart
  <2>3. Get(k)' = storage'[k]
    BY <2>2, ClearAll DEF Get, Buffered
  <2>4. CASE build = "host"
    BY <2>1, <2>3, <2>4 DEF Crashes, Crash
  <2>5. CASE build # "host"
    <3>1. NvsCrash /\ survives[k] = {storage[k]}
      BY <2>5 DEF Crashes, BothInv, NvsInv
    <3> QED
      BY <2>1, <2>3, <3>1 DEF NvsCrash
  <2> QED
    BY <2>4, <2>5
<1> QED
  BY <1>1, BothInvariance, PTL DEF BothSpec, SurvivesCrash

-----------------------------------------------------------------------------
(* The refinement.  First what each operation does to what a get returns,  *)
(* wherever the values are stored.                                         *)

Same(k) == logical'[k] = logical[k] /\ Get(k)' = Get(k)

SameBut(S) == \A k \in Keys \ S : Same(k)

(* What a get returns, by cases. *)
Got ==
  \A k \in Keys : /\ \A s \in Buffered(k) : Get(k) = buffer[s].val
                  /\ Buffered(k) = {} => Get(k) = storage[k]

LEMMA OnlyEntry ==
  ASSUME IInv, NEW k \in Keys, NEW s \in Buffered(k)
  PROVE  Buffered(k) = {s}
BY DEF IInv, UniqueEntry, Buffered

LEMMA GetIs == IInv => Got
<1> SUFFICES ASSUME IInv, NEW k \in Keys, NEW s \in Buffered(k)
             PROVE  Get(k) = buffer[s].val
  BY DEF Got, Get
<1>1. Lowest(Buffered(k)) \in Buffered(k)
  BY LowestIsOne, ValidSlots
<1>2. Lowest(Buffered(k)) = s
  BY <1>1, OnlyEntry
<1> QED
  BY <1>2 DEF Get

LEMMA GetWillBe == IInv' => Got'
BY GetIs, PTL

(* A key whose entry is left alone, or that has none and whose storage is, *)
(* reads as before.                                                        *)
LEMMA GetKept ==
  ASSUME NEW k \in Keys, Buffered(k)' = Buffered(k),
         \A s \in Buffered(k) : buffer'[s] = buffer[s],
         Buffered(k) = {} => storage'[k] = storage[k]
  PROVE  Get(k)' = Get(k)
<1>1. Buffered(k) # {} => Lowest(Buffered(k)) \in Buffered(k)
  BY LowestIsOne, ValidSlots
<1>2. Lowest(Buffered(k))' = Lowest(Buffered(k))
  BY DEF Lowest
<1> QED
  BY <1>1, <1>2 DEF Get

LEMMA SlotStored ==
  ASSUME IInv, IInv', NEW s \in Slots, NEW k \in Keys, NEW v \in Values,
         StoreIn(s, k, v), logical' = [logical EXCEPT ![k] = v], UNCHANGED storage
  PROVE  /\ logical'[k] = v /\ Get(k)' = v
         /\ \A j \in Keys \ {k} : s \notin Buffered(j) => Same(j)
<1>1. /\ buffer'[s].valid /\ buffer'[s].key = k /\ buffer'[s].val = v
      /\ \A t \in Slots : t # s => buffer'[t] = buffer[t]
      /\ Valid' = Valid \union {s}
  BY StoreEffect DEF IInv
<1>2. s \in Buffered(k)'
  BY <1>1 DEF Buffered
<1>3. logical'[k] = v /\ \A j \in Keys \ {k} : logical'[j] = logical[j]
  BY DEF IInv, TypeOK
<1>4. ASSUME NEW j \in Keys \ {k}, s \notin Buffered(j) PROVE Same(j)
  <2>1. Buffered(j)' = Buffered(j) /\ \A t \in Buffered(j) : buffer'[t] = buffer[t]
    BY <1>1, <1>4 DEF Buffered, Valid
  <2> QED
    BY <1>3, <2>1, GetKept DEF Same
<1> QED
  BY <1>1, <1>2, <1>3, <1>4, GetWillBe DEF Got

(* A put changes its own key, or nothing if it has to wait for a flush.    *)
LEMMA PutReads ==
  ASSUME IInv, IInv', NEW k \in Keys, NEW v \in Values, Put(k, v)
  PROVE  /\ SameBut({k})
         /\ Same(k) \/ (logical'[k] = v /\ Get(k)' = v)
<1>1. CASE PutBufferFull(k, v)
  <2>1. \A j \in Keys : Get(j)' = Get(j)
    BY <1>1, BufferedKept, GetKept DEF PutBufferFull
  <2> QED
    BY <1>1, <2>1 DEF PutBufferFull, history, SameBut, Same
<1>2. ASSUME NEW s \in Slots, StoreIn(s, k, v), Acknowledge(k, v), UNCHANGED storage,
             s \in Valid => s \in Buffered(k)
      PROVE  SameBut({k}) /\ logical'[k] = v /\ Get(k)' = v
  <2>1. \A j \in Keys \ {k} : s \notin Buffered(j)
    BY <1>2 DEF Buffered
  <2> QED
    BY <1>2, <2>1, SlotStored DEF Acknowledge, SameBut
<1>3. CASE PutSameKey(k, v)
  <2>1. Lowest(Buffered(k)) \in Buffered(k) /\ Lowest(Buffered(k)) \in Slots
    BY <1>3, LowestIsOne, ValidSlots DEF PutSameKey
  <2> QED
    BY <1>2, <1>3, <2>1 DEF PutSameKey
<1>4. CASE PutNewKey(k, v)
  <2>1. Lowest(Slots \ Valid) \in Slots \ Valid
    BY <1>4, LowestIsOne, ValidSlots DEF PutNewKey
  <2> QED
    BY <1>2, <1>4, <2>1 DEF PutNewKey
<1> QED
  BY <1>1, <1>3, <1>4 DEF Put

(* A step of a flush that takes no entry from the buffer. *)
LEMMA FlushReads ==
  ASSUME UNCHANGED <<buffer, storage, logical>>
  PROVE  SameBut({})
<1>1. \A j \in Keys : Get(j)' = Get(j)
  BY BufferedKept, GetKept
<1> QED
  BY <1>1 DEF SameBut, Same

(* The file of an entry is truncated. *)
LEMMA TruncateReads ==
  ASSUME IInv, OpenTruncates
  PROVE  /\ SameBut({})
         /\ \A k \in Keys : storage'[k] \in {storage[k], Torn}
<1> USE DEF IInv, OpenTruncates
<1>1. idx \in Slots
  BY BufferSizeAssumption, SMT DEF TypeOK, Slots
<1>2. idx \in Buffered(buffer[idx].key) /\ buffer[idx].key \in Keys
  BY <1>1, EntryTypes DEF Buffered, Valid
<1>3. \A k \in Keys : Buffered(k) = {} => storage'[k] = storage[k]
  BY <1>2 DEF TypeOK
<1>4. \A k \in Keys : Get(k)' = Get(k)
  BY <1>3, BufferedKept, GetKept
<1>5. \A k \in Keys : storage'[k] \in {storage[k], Torn}
  BY DEF TypeOK
<1> QED
  BY <1>4, <1>5 DEF SameBut, Same, history

(* The entry at idx goes: all other keys read as before, and its key what  *)
(* storage has.                                                            *)
LEMMA EntryGone ==
  ASSUME IInv, IInv', NEW w \in Keys, idx \in Slots, buffer[idx].valid, buffer[idx].key = w,
         buffer' = [buffer EXCEPT ![idx] = Invalid], pc' = "flush", idx' = idx + 1,
         UNCHANGED <<pending, logical>>, \A k \in Keys \ {w} : storage'[k] = storage[k]
  PROVE  SameBut({w}) /\ Get(w) = buffer[idx].val /\ Get(w)' = storage'[w]
<1>1. idx \in Buffered(w)
  BY DEF Buffered, Valid
<1>2. /\ \A s \in Slots \ {idx} : buffer'[s] = buffer[s]
      /\ \A k : Buffered(k)' = Buffered(k) \ {idx}
  BY EntryDone
<1>3. Get(w) = buffer[idx].val
  BY <1>1, GetIs DEF Got
<1>4. Buffered(w)' = {}
  BY <1>1, <1>2, OnlyEntry
<1>5. ASSUME NEW k \in Keys, k # w PROVE Get(k)' = Get(k)
  <2>1. idx \notin Buffered(k)
    BY <1>5 DEF Buffered
  <2>2. Buffered(k)' = Buffered(k) /\ \A s \in Buffered(k) : buffer'[s] = buffer[s]
    BY <1>2, <2>1 DEF Buffered, Valid
  <2> QED
    BY <1>5, <2>2, GetKept
<1> QED
  BY <1>3, <1>4, <1>5, GetWillBe DEF Got, SameBut, Same

(* An entry goes to storage: its key has the same value there. *)
LEMMA WriteReads ==
  ASSUME IInv, IInv', idx \in Slots, buffer[idx].valid,
         storage' = [storage EXCEPT ![buffer[idx].key] = buffer[idx].val],
         buffer' = [buffer EXCEPT ![idx] = Invalid],
         pc' = "flush", idx' = idx + 1, UNCHANGED <<pending, logical>>
  PROVE  /\ SameBut({})
         /\ \E w \in Keys : /\ w = buffer[idx].key /\ Get(w) = buffer[idx].val
                            /\ \A k \in Keys \ {w} : storage'[k] = storage[k]
                            /\ storage'[w] = Get(w)
<1>1. PICK w \in Keys : w = buffer[idx].key
  BY EntryTypes DEF IInv
<1>2. /\ \A k \in Keys \ {w} : storage'[k] = storage[k]
      /\ storage'[w] = buffer[idx].val
  BY <1>1 DEF IInv, TypeOK
<1>3. SameBut({w}) /\ Get(w) = buffer[idx].val /\ Get(w)' = storage'[w]
  BY <1>1, <1>2, EntryGone
<1>4. SameBut({})
  BY <1>2, <1>3 DEF SameBut, Same
<1> QED
  BY <1>1, <1>2, <1>3, <1>4

(* An entry goes, and its key reads what the file has. *)
LEMMA CloseReads ==
  ASSUME IInv, IInv', CloseFails
  PROVE  \E w \in Keys : SameBut({w}) /\ UNCHANGED logical /\ Get(w)' = storage[w]
<1> USE DEF CloseFails
<1>1. idx \in Slots /\ buffer[idx].valid
  BY DEF IInv, FlushInv
<1>2. PICK w \in Keys : w = buffer[idx].key
  BY <1>1, EntryTypes DEF IInv
<1>3. SameBut({w}) /\ Get(w)' = storage'[w]
  BY <1>1, <1>2, EntryGone
<1> QED
  BY <1>3

(* A flush that returns to a put: the key that waited has its value, the   *)
(* key whose entry was in slot 0, if there was one, what storage has.      *)
LEMMA ReturnReads ==
  ASSUME IInv, IInv', FlushReturnsToPut
  PROVE  \E k \in Keys, v \in Values :
           /\ logical'[k] = v /\ Get(k)' = v
           /\ \/ SameBut({k})
              \/ \E j \in Keys \ {k} : /\ SameBut({j, k})
                                       /\ logical'[j] = logical[j] /\ Get(j)' = storage[j]
<1> USE DEF FlushReturnsToPut
<1>1. PICK k \in Keys, v \in Values : k = pending.key /\ v = pending.val
  <2>1. pending # NoPut
    BY DEF NoPut
  <2> QED
    BY <2>1 DEF IInv, TypeOK
<1>2. 0 \in Slots /\ StoreIn(0, k, v) /\ logical' = [logical EXCEPT ![k] = v]
  BY <1>1, BufferSizeAssumption, SMT DEF Slots
<1>3. /\ logical'[k] = v /\ Get(k)' = v
      /\ \A j \in Keys \ {k} : 0 \notin Buffered(j) => Same(j)
  BY <1>2, SlotStored
<1>4. CASE \A j \in Keys \ {k} : 0 \notin Buffered(j)
  BY <1>3, <1>4 DEF SameBut
<1>5. ASSUME NEW j \in Keys \ {k}, 0 \in Buffered(j)
      PROVE  SameBut({j, k}) /\ logical'[j] = logical[j] /\ Get(j)' = storage[j]
  <2>1. \A i \in Keys \ {j} : 0 \notin Buffered(i)
    BY <1>5 DEF Buffered
  <2>2. SameBut({j, k})
    BY <1>3, <2>1 DEF SameBut
  <2>3. logical'[j] = logical[j]
    BY <1>2, <1>5 DEF IInv, TypeOK
  <2>4. Buffered(j) = {0}
    BY <1>5, OnlyEntry
  <2>5. /\ buffer'[0].key = k
        /\ \A t \in Slots : t # 0 => buffer'[t] = buffer[t]
    BY <1>2, StoreEffect DEF IInv
  <2>6. Buffered(j)' = {}
    BY <1>5, <2>4, <2>5 DEF Buffered, Valid
  <2> QED
    BY <1>5, <2>2, <2>3, <2>6, GetWillBe DEF Got
<1> QED
  BY <1>3, <1>4, <1>5

(* A deletion: the key reads what storage has after it. *)
LEMMA DelReads ==
  ASSUME IInv, IInv', NEW k \in DataKeys, Del(k) \/ DelFails(k)
  PROVE  /\ k \in Keys /\ SameBut({k}) /\ Get(k)' = storage'[k]
         /\ \/ logical'[k] = Absent /\ storage' = [storage EXCEPT ![k] = Absent]
            \/ logical'[k] = logical[k] /\ UNCHANGED storage
<1>1. /\ pc = "idle" /\ buffer' = Undo(k)
      /\ writesBuffered' = CountLess(Cardinality(Buffered(k)))
      /\ UNCHANGED <<callVars, leftover>>
  BY DEF Del, DelFails
<1>2. /\ Buffered(k)' = {}
      /\ \A j : j # k => /\ Buffered(j)' = Buffered(j)
                         /\ \A s \in Buffered(j) : buffer'[s] = buffer[s]
  BY <1>1, UndoEffect
<1>3. k \in Keys
  BY DEF Keys
<1>4. \A j \in Keys \ {k} : storage'[j] = storage[j] /\ logical'[j] = logical[j]
  BY DEF Del, DelFails, Acknowledge, IInv, TypeOK
<1>5. \A j \in Keys \ {k} : Get(j)' = Get(j)
  BY <1>2, <1>4, GetKept
<1>6. \/ logical'[k] = Absent /\ storage' = [storage EXCEPT ![k] = Absent]
      \/ logical'[k] = logical[k] /\ UNCHANGED storage
  BY <1>3 DEF Del, DelFails, Acknowledge, IInv, TypeOK
<1> QED
  BY <1>2, <1>3, <1>4, <1>5, <1>6, GetWillBe DEF Got, SameBut, Same

(* With the buffer empty, every key reads what storage has. *)
LEMMA EmptiedReads ==
  ASSUME buffer' = [s \in Slots |-> Invalid]
  PROVE  \A k \in Keys : Get(k)' = storage'[k]
BY ClearAll DEF Get, Buffered

-----------------------------------------------------------------------------
(* Then the steps of the abstract store, from such facts. *)

(* What storage has, a restart may find. *)
Backed == \A k \in Keys : storage[k] \in Kept[k]

LEMMA IsBacked == BothInv => Backed
BY DEF BothInv, NvsInv, Backed, Kept

LEMMA WillBeBacked == BothInv' => Backed'
BY IsBacked, PTL

LEMMA HostKept ==
  ASSUME build = "host", UNCHANGED build
  PROVE  \A k \in Keys : Kept[k] = {storage[k]} /\ Kept'[k] = {storage'[k]}
BY DEF Kept

LEMMA TargetKept ==
  ASSUME build = "target", UNCHANGED build
  PROVE  Kept = survives /\ Kept' = survives'
BY DEF Kept

Loses(k) == Kept'[k] \subseteq Kept[k]

Tidy(k) == Kept'[k] \subseteq Kept[k] \union {Get(k), Torn}

(* A key is given up for what storage has of it. *)
GivenUp(j) == logical'[j] = logical[j] /\ Get(j)' = storage[j] /\ Loses(j)

LEMMA Settles ==
  ASSUME BothInv, NEW S \in SUBSET Keys, \A k \in S : Tidy(k),
         \/ \A k \in S : Same(k)
         \/ \E j \in S : GivenUp(j) /\ \A k \in S \ {j} : Same(k)
  PROVE  Store!Settle(S)
<1>1. ASSUME NEW k \in S, Same(k) PROVE Store!WriteBack(k)
  BY <1>1 DEF Same, Tidy, Store!WriteBack, Reads
<1>2. ASSUME NEW j \in S, GivenUp(j) PROVE Store!GiveUp(j)
  BY <1>2, IsBacked DEF GivenUp, Loses, Backed, Store!GiveUp, Reads
<1> QED
  BY <1>1, <1>2 DEF Store!Settle

LEMMA Flushes ==
  ASSUME BothInv, BothInv', \A k \in Keys : Tidy(k),
         SameBut({}) \/ \E j \in Keys : GivenUp(j) /\ SameBut({j})
  PROVE  Store!Next
<1>1. Store!Settle(Keys)
  BY Settles DEF SameBut
<1> QED
  BY <1>1, WillBeBacked DEF Backed, Store!Next, Store!Flush

LEMMA Calls ==
  ASSUME BothInv, BothInv', NEW k \in Keys, \A j \in Keys \ {k} : Tidy(j),
         \/ logical'[k] \in Values /\ Get(k)' = logical'[k] /\ Loses(k)
         \/ /\ logical'[k] = Absent /\ Get(k)' = Absent
            /\ Kept'[k] \subseteq Kept[k] \union {Absent},
         SameBut({k}) \/ \E j \in Keys \ {k} : GivenUp(j) /\ SameBut({j, k})
  PROVE  Store!Next
<1>1. Store!Settle(Keys \ {k})
  BY Settles DEF SameBut
<1>2. Store!Put(k) \/ Store!Delete(k)
  BY DEF Store!Put, Store!Delete, Reads, Loses
<1> QED
  BY <1>1, <1>2, WillBeBacked DEF Backed, Store!Next, Store!Call

-----------------------------------------------------------------------------
(* Last, every step of either build.  A put and a deletion are alike. *)
LEMMA PutStores ==
  ASSUME BothInv, BothInv', NEW k \in Keys, NEW v \in Values, Put(k, v), UNCHANGED Kept
  PROVE  Store!Next
<1>1. /\ SameBut({k})
      /\ Same(k) \/ (logical'[k] = v /\ Get(k)' = v)
  BY PutReads DEF BothInv
<1>2. \A j \in Keys : Tidy(j) /\ Loses(j)
  BY DEF Tidy, Loses
<1>3. CASE Same(k)
  <2>1. SameBut({})
    BY <1>1, <1>3 DEF SameBut
  <2> QED
    BY <1>2, <2>1, Flushes
<1>4. CASE logical'[k] = v /\ Get(k)' = v
  BY <1>1, <1>2, <1>4, Calls
<1> QED
  BY <1>1, <1>3, <1>4

LEMMA FlushStores ==
  ASSUME BothInv, BothInv', UNCHANGED <<buffer, storage, logical>>, \A k \in Keys : Loses(k)
  PROVE  Store!Next
<1>1. \A k \in Keys : Tidy(k)
  BY DEF Tidy, Loses
<1> QED
  BY <1>1, FlushReads, Flushes

LEMMA ReturnStores ==
  ASSUME BothInv, BothInv', FlushEnds, \A k \in Keys : Loses(k)
  PROVE  Store!Next
<1>1. CASE FlushReturns
  BY <1>1, FlushStores DEF FlushReturns
<1>2. CASE FlushReturnsToPut
  <2>1. \A k \in Keys : Tidy(k)
    BY DEF Tidy, Loses
  <2>2. PICK k \in Keys, v \in Values :
           /\ logical'[k] = v /\ Get(k)' = v
           /\ \/ SameBut({k})
              \/ \E j \in Keys \ {k} : /\ SameBut({j, k})
                                       /\ logical'[j] = logical[j] /\ Get(j)' = storage[j]
    BY <1>2, ReturnReads DEF BothInv
  <2>3. SameBut({k}) \/ \E j \in Keys \ {k} : GivenUp(j) /\ SameBut({j, k})
    BY <2>2 DEF GivenUp
  <2> QED
    BY <2>1, <2>2, <2>3, Calls
<1> QED
  BY <1>1, <1>2 DEF FlushEnds

LEMMA DelStores ==
  ASSUME BothInv, BothInv', NEW k \in DataKeys,
         \/ /\ Del(k)
            /\ Kept'[k] \subseteq Kept[k] \union {Absent}
            /\ \A j \in Keys \ {k} : Kept'[j] = Kept[j]
         \/ DelFails(k) /\ \A j \in Keys : Kept'[j] = Kept[j]
  PROVE  Store!Next
<1>1. k \in Keys /\ SameBut({k}) /\ Get(k)' = storage'[k]
  BY DelReads DEF BothInv
<1>2. CASE DelFails(k) /\ \A j \in Keys : Kept'[j] = Kept[j]
  <2>1. \A j \in Keys : Tidy(j) /\ Loses(j)
    BY <1>2 DEF Tidy, Loses
  <2>2. GivenUp(k)
    BY <1>1, <1>2, <2>1 DEF GivenUp, DelFails
  <2> QED
    BY <1>1, <2>1, <2>2, Flushes
<1>3. CASE /\ Del(k)
           /\ Kept'[k] \subseteq Kept[k] \union {Absent}
           /\ \A j \in Keys \ {k} : Kept'[j] = Kept[j]
  <2>1. logical'[k] = Absent /\ storage'[k] = Absent
    BY <1>1, <1>3 DEF Del, Acknowledge, BothInv, IInv, TypeOK
  <2>2. \A j \in Keys \ {k} : Tidy(j)
    BY <1>3 DEF Tidy
  <2> QED
    BY <1>1, <1>3, <2>1, <2>2, Calls
<1> QED
  BY <1>2, <1>3

(* An entry goes to storage whole: what a restart may find of its key is   *)
(* its value, or what it might have found before.                          *)
LEMMA WriteStores ==
  ASSUME BothInv, BothInv', NEW w \in Keys, SameBut({}), storage'[w] = Get(w),
         \A k \in Keys \ {w} : storage'[k] = storage[k] /\ Kept'[k] = Kept[k],
         Kept'[w] \subseteq Kept[w] \union {storage'[w]}
  PROVE  Store!Next
<1>1. \A k \in Keys : Tidy(k)
  BY DEF Tidy
<1> QED
  BY <1>1, Flushes

LEMMA EraseStores ==
  ASSUME BothInv, BothInv', NEW kept \in SUBSET Keys, EraseAll(kept),
         \A k \in Keys \ kept : Kept'[k] \subseteq Kept[k] \union {Absent},
         \A k \in kept : Kept[k] = {storage[k]} /\ Kept'[k] = {storage'[k]}
  PROVE  Store!Next
<1> USE DEF EraseAll
<1>1. \A k \in Keys : Get(k)' = storage'[k] /\ logical'[k] = Absent
  BY EmptiedReads
<1>2. ASSUME NEW k \in Keys PROVE Store!Erase(k)
  <2>1. CASE k \notin kept
    <3>1. storage'[k] = Absent
      BY <2>1
    <3> QED
      BY <1>1, <2>1, <3>1 DEF Store!Erase, Store!Delete, Reads
  <2>2. CASE k \in kept
    <3>1. storage'[k] = storage[k]
      BY <2>2
    <3> QED
      BY <1>1, <2>2, <3>1 DEF Store!Erase, Reads
  <2> QED
    BY <2>1, <2>2
<1> QED
  BY <1>2, WillBeBacked DEF Backed, Store!Next, Store!EraseAll

LEMMA EraseFailsStores ==
  ASSUME BothInv, BothInv', NEW erased \in SUBSET Keys, NvsEraseFails(erased),
         Kept = survives, Kept' = survives'
  PROVE  Store!Next
<1> USE DEF NvsEraseFails
<1>1. \A k \in Keys : Get(k)' = storage'[k]
  BY EmptiedReads
<1>2. ASSUME NEW k \in Keys PROVE Store!EraseUntold(k) \/ Store!GiveUp(k)
  <2>1. CASE k \in erased
    <3>1. storage'[k] = Absent /\ survives'[k] = survives[k] \union {Absent}
      BY <2>1
    <3> QED
      BY <1>1, <3>1 DEF Store!EraseUntold, Reads
  <2>2. CASE k \notin erased
    <3>1. storage'[k] = storage[k] /\ survives'[k] = survives[k]
      BY <2>2
    <3> QED
      BY <1>1, <3>1, IsBacked DEF Backed, Store!GiveUp, Reads
  <2> QED
    BY <2>1, <2>2
<1> QED
  BY <1>2, WillBeBacked DEF Backed, Store!Next, Store!EraseFails

(* After a restart of either build a key reads what storage has, and no    *)
(* other value is left.                                                    *)
LEMMA RestartStores ==
  ASSUME BothInv, BothInv', buffer' = [s \in Slots |-> Invalid],
         \/ \A k \in Keys : storage'[k] \in Kept[k]
         \/ \A k \in Keys : storage'[k] = Absent,
         \A k \in Keys : /\ Kept'[k] = {storage'[k]}
                         /\ logical'[k] = IF storage'[k] = Torn THEN Absent ELSE storage'[k]
  PROVE  Store!Next
<1>1. \A k \in Keys : Reads'[k] = storage'[k]
  BY EmptiedReads DEF Reads
<1> QED
  BY <1>1 DEF Store!Next, Store!Restart

-----------------------------------------------------------------------------
LEMMA HostStores ==
  ASSUME BothInv, BothInv', Host
  PROVE  Store!Next
<1> USE DEF BothInv
<1>0. /\ \A k \in Keys : Kept[k] = {storage[k]} /\ Kept'[k] = {storage'[k]}
      /\ UNCHANGED storage => UNCHANGED Kept
  BY HostKept DEF Host, Kept
<1>1. ASSUME NEW k \in DataKeys, NEW v \in Values, PutData(k, v) PROVE Store!Next
  BY <1>0, <1>1, PutStores DEF PutData, Put, PutSameKey, PutNewKey, PutBufferFull, Keys
<1>2. ASSUME NEW v \in Values, SetSchemaVersion(v) PROVE Store!Next
  BY <1>0, <1>2, PutStores DEF SetSchemaVersion, Put, PutSameKey, PutNewKey, PutBufferFull, Keys
<1>3. ASSUME NEW k \in DataKeys, Del(k) \/ DelFails(k) PROVE Store!Next
  <2>1. CASE Del(k)
    <3>1. storage'[k] = Absent /\ \A j \in Keys \ {k} : storage'[j] = storage[j]
      BY <2>1 DEF Del, IInv, TypeOK, Keys
    <3>2. k \in Keys
      BY DEF Keys
    <3>3. /\ Kept'[k] \subseteq Kept[k] \union {Absent}
          /\ \A j \in Keys \ {k} : Kept'[j] = Kept[j]
      BY <1>0, <3>1, <3>2
    <3> QED
      BY <2>1, <3>3, DelStores
  <2>2. CASE DelFails(k)
    BY <1>0, <2>2, DelStores DEF DelFails
  <2> QED
    BY <1>3, <2>1, <2>2
<1>4. ASSUME NEW kept \in SUBSET Keys, EraseAll(kept) PROVE Store!Next
  <2>1. \A k \in Keys \ kept : storage'[k] = Absent
    BY <1>4 DEF EraseAll
  <2> QED
    BY <1>0, <1>4, <2>1, EraseStores
<1>5. CASE FlushCall \/ FlushSkip \/ OpenFails \/ WriteFails
  <2>1. UNCHANGED <<buffer, storage, logical>>
    BY <1>5 DEF FlushCall, FlushSkip, OpenFails, WriteFails, history
  <2> QED
    BY <1>0, <2>1, FlushStores DEF Loses
<1>6. CASE OpenTruncates
  <2>1. SameBut({}) /\ \A k \in Keys : storage'[k] \in {storage[k], Torn}
    BY <1>6, TruncateReads
  <2>2. \A k \in Keys : Tidy(k)
    BY <1>0, <2>1 DEF Tidy
  <2> QED
    BY <2>1, <2>2, Flushes
<1>7. CASE WriteSucceeds
  <2>1. PICK w \in Keys : /\ \A k \in Keys \ {w} : storage'[k] = storage[k]
                          /\ storage'[w] = Get(w)
                          /\ SameBut({})
    BY <1>7, WriteReads DEF IInv, FlushInv, WriteSucceeds, history
  <2>2. /\ \A k \in Keys \ {w} : Kept'[k] = Kept[k]
        /\ Kept'[w] = {storage'[w]}
    BY <1>0, <2>1
  <2> QED
    BY <2>1, <2>2, WriteStores
<1>8. CASE CloseFails
  <2>1. PICK w \in Keys : SameBut({w}) /\ UNCHANGED logical /\ Get(w)' = storage[w]
    BY <1>8, CloseReads
  <2>2. \A k \in Keys : Tidy(k) /\ Loses(k)
    BY <1>0, <1>8 DEF CloseFails, Tidy, Loses
  <2>3. GivenUp(w)
    BY <2>1, <2>2 DEF GivenUp
  <2> QED
    BY <2>1, <2>2, <2>3, Flushes
<1>9. CASE FlushEnds
  <2>1. UNCHANGED storage
    BY <1>9 DEF FlushEnds, FlushReturns, FlushReturnsToPut
  <2> QED
    BY <1>0, <1>9, <2>1, ReturnStores DEF Loses
<1>10. CASE Crash
  <2>1. \A k \in Keys : /\ storage'[k] = storage[k]
                        /\ logical'[k] = IF storage'[k] = Torn THEN Absent ELSE storage'[k]
    BY <1>10 DEF Crash
  <2> QED
    BY <1>0, <1>10, <2>1, RestartStores DEF Crash
<1> QED
  BY <1>1, <1>2, <1>3, <1>4, <1>5, <1>6, <1>7, <1>8, <1>9, <1>10 DEF Host, Next, FlushEnds

LEMMA TargetStores ==
  ASSUME BothInv, BothInv', Target
  PROVE  Store!Next
<1> USE DEF BothInv
<1>0. Kept = survives /\ Kept' = survives'
  BY TargetKept DEF Target
<1>1. ASSUME NEW k \in DataKeys, NEW v \in Values, NvsPut(k, v) PROVE Store!Next
  BY <1>0, <1>1, PutStores DEF NvsPut, PutData, nvsVars, Keys
<1>2. ASSUME NEW v \in Values, NvsSetSchemaVersion(v) PROVE Store!Next
  BY <1>0, <1>2, PutStores DEF NvsSetSchemaVersion, SetSchemaVersion, nvsVars, Keys
<1>3. CASE NvsFlush \/ NvsSetBlobFails
  <2>1. UNCHANGED <<buffer, storage, logical, survives>>
    BY <1>3 DEF NvsFlush, NvsSetBlobFails, FlushCall, FlushSkip, OpenFails, history, nvsVars
  <2> QED
    BY <1>0, <2>1, FlushStores DEF Loses
<1>4. CASE NvsSetBlob
  <2>1. idx \in Slots
    BY <1>4, BufferSizeAssumption, SMT DEF NvsSetBlob, IInv, TypeOK, Slots
  <2>2. SameBut({}) /\ \E w \in Keys : /\ w = buffer[idx].key /\ Get(w) = buffer[idx].val
                                       /\ \A k \in Keys \ {w} : storage'[k] = storage[k]
                                       /\ storage'[w] = Get(w)
    BY <1>4, <2>1, WriteReads DEF NvsSetBlob, history
  <2>3. PICK w \in Keys : /\ w = buffer[idx].key /\ Get(w) = buffer[idx].val
                          /\ \A k \in Keys \ {w} : storage'[k] = storage[k]
                          /\ storage'[w] = Get(w)
    BY <2>2
  <2>4. /\ survives'[w] = survives[w] \union {storage'[w]}
        /\ \A k \in Keys \ {w} : survives'[k] = survives[k]
    BY <1>4, <2>3 DEF NvsSetBlob, NvsInv, Target
  <2> QED
    BY <1>0, <2>2, <2>3, <2>4, WriteStores
<1>5. CASE NvsCommit \/ NvsCommitFails \/ NvsNoCommit
  <2>1. FlushEnds
    BY <1>5 DEF NvsCommit, NvsCommitFails, NvsNoCommit
  <2>2. \A k \in Keys : Loses(k)
    BY <1>0, <1>5, IsBacked DEF Backed, Loses, NvsCommit, NvsCommitFails, NvsNoCommit, nvsVars
  <2> QED
    BY <2>1, <2>2, ReturnStores
<1>6. ASSUME NEW k \in DataKeys, NvsDel(k) \/ NvsDelFails(k) PROVE Store!Next
  <2>1. CASE NvsDel(k)
    <3>1. /\ survives'[k] = survives[k] \union {Absent}
          /\ \A j \in Keys \ {k} : survives'[j] = survives[j]
      BY <2>1 DEF NvsDel, NvsInv, Target, Keys
    <3> QED
      BY <1>0, <2>1, <3>1, DelStores DEF NvsDel
  <2>2. CASE NvsDelFails(k)
    BY <1>0, <2>2, DelStores DEF NvsDelFails, nvsVars
  <2> QED
    BY <1>6, <2>1, <2>2
<1>7. CASE NvsEraseAll
  <2>1. EraseAll({}) /\ \A k \in Keys : survives'[k] \subseteq survives[k] \union {Absent}
    BY <1>7 DEF NvsEraseAll
  <2> QED
    BY <1>0, <2>1, EraseStores
<1>8. ASSUME NEW erased \in SUBSET Keys, NvsEraseFails(erased) PROVE Store!Next
  BY <1>0, <1>8, EraseFailsStores
<1>9. ASSUME NvsRestart, storage' \in [Keys -> Blobs],
             \/ \A k \in Keys : storage'[k] \in survives[k]
             \/ \A k \in Keys : storage'[k] = Absent
      PROVE  Store!Next
  <2>1. \A k \in Keys : logical'[k] = storage'[k] /\ storage'[k] # Torn
    BY <1>9, MarkersAssumption DEF NvsRestart, Blobs
  <2>2. \A k \in Keys : survives'[k] = {storage'[k]}
    BY <1>9 DEF NvsRestart
  <2> QED
    BY <1>0, <1>9, <2>1, <2>2, RestartStores DEF NvsRestart
<1>10. CASE NvsCrash
  BY <1>9, <1>10 DEF NvsCrash
<1>11. CASE NvsInitErases
  BY <1>9, <1>11 DEF NvsInitErases, Blobs
<1> QED
  BY <1>1, <1>2, <1>3, <1>4, <1>5, <1>6, <1>7, <1>8, <1>10, <1>11 DEF Target

(* Init and every step of the two builds are Init and a step of the        *)
(* abstract store: whatever os_persist.c buffers, and whatever fails in    *)
(* files or NVS, no key reads, and no restart finds, a value that was      *)
(* overwritten, deleted or another key's.                                  *)
THEOREM RefinesKeyValue == BothSpec => ImplementsKeyValue
<1>1. BothInit => Store!Init
  <2> SUFFICES ASSUME BothInit PROVE Store!Init
    OBVIOUS
  <2>1. \A k \in Keys : Get(k) = Absent
    BY DEF BothInit, Init, Get, Buffered, Valid, Invalid
  <2>2. Kept = [k \in Keys |-> {Absent}]
    BY DEF BothInit, Init, Kept
  <2> QED
    BY <2>1, <2>2 DEF BothInit, Init, Store!Init, Reads
<1>2. BothInv /\ BothInv' /\ [Host \/ Target]_allVars
        => [Store!Next]_<<logical, Reads, Kept>>
  <2> SUFFICES ASSUME BothInv, BothInv', [Host \/ Target]_allVars
               PROVE  Store!Next
    OBVIOUS
  <2>1. CASE UNCHANGED allVars
    BY <2>1, FlushStores DEF allVars, vars, nvsVars, history, Kept, Loses
  <2> QED
    BY <2>1, HostStores, TargetStores
<1> QED
  BY <1>1, <1>2, BothInvariance, PTL DEF BothSpec, ImplementsKeyValue, Store!Spec

=============================================================================

------------------------------ MODULE KeyValue ------------------------------
(***************************************************************************)
(* What the persistence service promises of its keys, whatever it buffers  *)
(* and wherever it stores: a call is about one key; what a get returns is  *)
(* what was last put, until a restart, or until the value is given up and  *)
(* storage's is read instead; and storage never gets hold of a value but   *)
(* one that is being read at that moment.  So an overwritten or deleted    *)
(* value that storage has let go of never comes back, and no key ever has  *)
(* another one's value.                                                    *)
(*                                                                         *)
(* PersistTarget implements it, on both builds.                            *)
(***************************************************************************)
CONSTANTS
  Key,     \* the keys
  Value,   \* what can be put
  Absent,  \* no value
  Spoilt   \* an unreadable value

VARIABLES
  told,   \* the value of each key, going by the calls and the restarts
  reads,  \* what a get of each key returns
  keeps   \* what a restart may find of each key: one of a set

Init ==
  /\ told = [k \in Key |-> Absent]
  /\ reads = [k \in Key |-> Absent]
  /\ keeps = [k \in Key |-> {Absent}]

-----------------------------------------------------------------------------
(* The steps of one key. *)

Put(k) ==
  /\ told'[k] \in Value
  /\ reads'[k] = told'[k]
  /\ keeps'[k] \subseteq keeps[k]

Delete(k) ==
  /\ told'[k] = Absent
  /\ reads'[k] = Absent
  /\ keeps'[k] \subseteq keeps[k] \union {Absent}

(* Storage is given the value, gives up older ones, or spoils what it has. *)
WriteBack(k) ==
  /\ told'[k] = told[k]
  /\ reads'[k] = reads[k]
  /\ keeps'[k] \subseteq keeps[k] \union {reads[k], Spoilt}

(* The value is given up for storage's, although no call said so. *)
GiveUp(k) ==
  /\ told'[k] = told[k]
  /\ reads'[k] \in keeps[k]
  /\ keeps'[k] \subseteq keeps[k]

(* Erased with all others, or passed over in that. *)
Erase(k) ==
  \/ Delete(k)
  \/ told'[k] = Absent /\ reads'[k] \in keeps[k] /\ keeps'[k] = {reads'[k]}

(* Erased, but reported as an error. *)
EraseUntold(k) ==
  /\ told'[k] = told[k]
  /\ reads'[k] = Absent
  /\ keeps'[k] \subseteq keeps[k] \union {Absent}

-----------------------------------------------------------------------------
(* Whatever else storage does in a step, it gives up one value at most. *)
Settle(S) ==
  \/ \A k \in S : WriteBack(k)
  \/ \E k \in S : GiveUp(k) /\ \A j \in S \ {k} : WriteBack(j)

Call == \E k \in Key : (Put(k) \/ Delete(k)) /\ Settle(Key \ {k})

Flush == Settle(Key)

EraseAll == \A k \in Key : Erase(k)

EraseFails == \A k \in Key : EraseUntold(k) \/ GiveUp(k)

(* A restart finds one of the values storage may keep, or storage has to   *)
(* be erased.                                                              *)
Restart ==
  /\ (\A k \in Key : reads'[k] \in keeps[k]) \/ (\A k \in Key : reads'[k] = Absent)
  /\ \A k \in Key : /\ keeps'[k] = {reads'[k]}
                    /\ told'[k] = IF reads'[k] = Spoilt THEN Absent ELSE reads'[k]

Next ==
  /\ Call \/ Flush \/ EraseAll \/ EraseFails \/ Restart
  /\ \A k \in Key : keeps'[k] # {}

Spec == Init /\ [][Next]_<<told, reads, keeps>>

=============================================================================

----------------------------- MODULE MCEventBus -----------------------------
(* A ring of three, two subscriber entries, two event types. *)
EXTENDS EventBus

MCFilters == {[lo |-> 0, hi |-> 1], [lo |-> 1, hi |-> 1]}

=============================================================================

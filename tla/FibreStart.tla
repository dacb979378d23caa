----------------------------- MODULE FibreStart -----------------------------
(***************************************************************************)
(* How the ESP32-C6 build starts its fibres (the second half of            *)
(* os/src/os_fibre.c).  Each fibre is a FreeRTOS task of the priority of   *)
(* app_main's, so that a new task runs when app_main's time slice ends or  *)
(* it blocks, and not at once.  The task suspends itself, and the loop of  *)
(* os_fibre_start resumes it.  Resuming a task that is not suspended does  *)
(* nothing: FreeRTOS counts neither suspensions nor resumptions.           *)
(***************************************************************************)
EXTENDS Naturals, Sequences, FiniteSets

CONSTANTS
  Fibre,      \* the fibres, the idle one among them
  MaxFibres   \* OS_MAX_FIBRES

VARIABLES
  list,   \* the control blocks linked from sched.head
  next,   \* the list's remainder that os_fibre_start has yet to resume
  main,   \* where app_main is: "create", "resume" or "tick"
  task    \* of each fibre: "none", "new", "suspended", "running" or "deleted"

vars == <<list, next, main, task>>

Init ==
  /\ list = << >> /\ next = << >> /\ main = "create"
  /\ task = [f \in Fibre |-> "none"]

(* os_fibre_create. *)
Create(f) ==
  /\ main = "create" /\ task[f] = "none"
  /\ Len(list) < MaxFibres
  /\ list' = <<f>> \o list
  /\ task' = [task EXCEPT ![f] = "new"]
  /\ UNCHANGED <<next, main>>

(* os_fibre_start. *)
Start ==
  /\ main = "create"
  /\ main' = "resume" /\ next' = list
  /\ UNCHANGED <<list, task>>

Resume ==
  /\ main = "resume" /\ next # << >>
  /\ next' = Tail(next)
  /\ task' = [task EXCEPT ![Head(next)] = IF @ = "suspended" THEN "running" ELSE @]
  /\ UNCHANGED <<list, main>>

Ticking ==
  /\ main = "resume" /\ next = << >>
  /\ main' = "tick"
  /\ UNCHANGED <<list, next, task>>

(* fibre_wrapper. *)
Suspend(f) ==
  /\ task[f] = "new"
  /\ task' = [task EXCEPT ![f] = "suspended"]
  /\ UNCHANGED <<list, next, main>>

EntryReturns(f) ==
  /\ task[f] = "running"
  /\ task' = [task EXCEPT ![f] = "deleted"]
  /\ UNCHANGED <<list, next, main>>

Next ==
  \/ Start \/ Resume \/ Ticking
  \/ \E f \in Fibre : Create(f) \/ Suspend(f) \/ EntryReturns(f)

Spec == Init /\ [][Next]_vars

(* os_fibre_create and os_fibre_start in os/src/os_fibre.c: a task is      *)
(* created suspended and "will be resumed when os_fibre_start() is         *)
(* called".  Once the loop is over nobody resumes a task any more.         *)
NoneLeftSuspended ==
  main = "tick" => \A f \in Fibre : task[f] # "suspended"

=============================================================================

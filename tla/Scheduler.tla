----------------------------- MODULE Scheduler -----------------------------
(***************************************************************************)
(* The cooperative fibre scheduler of the host build (the first half of    *)
(* os/src/os_fibre.c).  One thread runs the scheduler loop and, between    *)
(* os_yield, os_sleep and return, one fibre; a second thread advances the  *)
(* tick counter at any time.                                               *)
(*                                                                         *)
(* The counter is unsigned and wraps; the loop compares it with a fibre's  *)
(* wake_tick through the sign of the difference.  A context switch is      *)
(* taken at its word: what setjmp and longjmp do to the common stack is    *)
(* not modelled.                                                           *)
(***************************************************************************)
EXTENDS Integers, Sequences, FiniteSets

CONSTANTS
  Fibre,       \* the fibre control blocks, Idle among them
  Idle,        \* sched.idle
  NoFibre,     \* NULL
  MaxFibres,   \* OS_MAX_FIBRES
  TickMod,     \* the tick counter wraps at this value (2^32)
  MaxSleep,    \* the longest os_sleep, in ticks
  MaxGap       \* bound on the ticks between two turns of the loop

ASSUME IdleAssumption    == Idle \in Fibre /\ NoFibre \notin Fibre
ASSUME MaxAssumption     == MaxFibres \in Nat \ {0}
(* A sleeper is recognised as long as its lateness stays in the positive   *)
(* half of the counter's range.                                            *)
ASSUME TickModAssumption ==
  /\ TickMod \in Nat /\ MaxSleep \in Nat \ {0} /\ MaxGap \in Nat \ {0}
  /\ 2 * MaxSleep < TickMod /\ 2 * MaxGap < TickMod

VARIABLES
  list,      \* the control blocks linked from sched.head; count is its length
  state,     \* their state; "NONE" if not created
  wakeTick,
  current,   \* sched.current
  ticks,     \* sched.ticks
  pc,        \* what the thread runs: "boot", "scheduler" or "fibre"
  gap,       \* ticks since the loop last looked at the sleepers
  toSleep,   \* history: ticks that a sleeper still has to sleep
  passed     \* history: the fibres that ran since a fibre became READY

schedVars == <<list, state, wakeTick, current, pc>>
vars      == <<schedVars, ticks, gap, toSleep, passed>>

States == {"NONE", "READY", "RUNNING", "SLEEPING", "DEAD"}

Init ==
  /\ list = <<Idle>>
  /\ state = [f \in Fibre |-> IF f = Idle THEN "READY" ELSE "NONE"]
  /\ wakeTick = [f \in Fibre |-> 0]
  /\ current = NoFibre
  /\ ticks = 0 /\ pc = "boot" /\ gap = 0
  /\ toSleep = [f \in Fibre |-> 0]
  /\ passed = [f \in Fibre |-> {}]

-----------------------------------------------------------------------------
(* os_fibre_create, before the start or from a fibre.                      *)
Create(f) ==
  /\ pc \in {"boot", "fibre"}
  /\ state[f] = "NONE"
  /\ Len(list) < MaxFibres
  /\ list' = <<f>> \o list
  /\ state' = [state EXCEPT ![f] = "READY"]
  /\ UNCHANGED <<wakeTick, current, ticks, pc, gap, toSleep, passed>>

Start ==
  /\ pc = "boot"
  /\ pc' = "scheduler" /\ gap' = 0
  /\ UNCHANGED <<list, state, wakeTick, current, ticks, toSleep, passed>>

-----------------------------------------------------------------------------
(* find_next_ready.                                                        *)

(* Faulty variants: the tick counts are compared as they are, or a fibre   *)
(* is woken at the very tick only.                                         *)
DueUnsigned(f) == state[f] = "SLEEPING" /\ ticks >= wakeTick[f]
DueExactly(f)  == state[f] = "SLEEPING" /\ ticks = wakeTick[f]

(* (int32_t)(wake_tick - now) <= 0.                                        *)
Due(f) ==
  LET diff == (wakeTick[f] - ticks) % TickMod
  IN  state[f] = "SLEEPING" /\ (diff = 0 \/ 2 * diff >= TickMod)

Woken == [f \in Fibre |-> IF Due(f) THEN "READY" ELSE state[f]]

(* The search goes round the list, from the fibre after the current one.   *)
Here == IF current = NoFibre THEN 0
        ELSE CHOOSE i \in DOMAIN list : list[i] = current

(* Faulty variant: the search always starts at the head.                   *)
FromHead(i) == i

Steps(i) == (i - Here - 1) % Len(list)

Candidates(st) == {i \in DOMAIN list : st[list[i]] = "READY" /\ list[i] # Idle}

NextReady(st) ==
  IF Candidates(st) = {} THEN Idle
  ELSE list[CHOOSE i \in Candidates(st) :
              \A j \in Candidates(st) : Steps(i) <= Steps(j)]

(* One turn of the loop in os_fibre_start.                                 *)
Run(f, st) ==
  /\ st[f] = "READY"
  /\ current' = f
  /\ state' = [st EXCEPT ![f] = "RUNNING"]
  /\ passed' = [g \in Fibre |-> IF g # f /\ st[g] = "READY"
                                THEN passed[g] \union {f} ELSE {}]

Schedule ==
  /\ pc = "scheduler"
  /\ Run(NextReady(Woken), Woken)
  /\ pc' = "fibre" /\ gap' = 0
  /\ UNCHANGED <<list, wakeTick, ticks, toSleep>>

-----------------------------------------------------------------------------
(* What a running fibre does.                                              *)

Yield ==
  /\ pc = "fibre"
  /\ state' = [state EXCEPT ![current] = "READY"]
  /\ pc' = "scheduler"
  /\ UNCHANGED <<list, wakeTick, current, ticks, gap, toSleep, passed>>

(* Faulty variant: the wake tick does not wrap with the counter.           *)
SleepUnwrapped(ms) ==
  /\ pc = "fibre" /\ current # Idle
  /\ state' = [state EXCEPT ![current] = "SLEEPING"]
  /\ wakeTick' = [wakeTick EXCEPT ![current] = ticks + ms]
  /\ toSleep' = [toSleep EXCEPT ![current] = ms]
  /\ pc' = "scheduler"
  /\ UNCHANGED <<list, current, ticks, gap, passed>>

Sleep(ms) ==
  /\ pc = "fibre" /\ current # Idle
  /\ state' = [state EXCEPT ![current] = "SLEEPING"]
  /\ wakeTick' = [wakeTick EXCEPT ![current] = (ticks + ms) % TickMod]
  /\ toSleep' = [toSleep EXCEPT ![current] = ms]
  /\ pc' = "scheduler"
  /\ UNCHANGED <<list, current, ticks, gap, passed>>

Return ==
  /\ pc = "fibre" /\ current # Idle
  /\ state' = [state EXCEPT ![current] = "DEAD"]
  /\ pc' = "scheduler"
  /\ UNCHANGED <<list, wakeTick, current, ticks, gap, toSleep, passed>>

(* os_tick_advance, in the tick thread.                                    *)
Tick ==
  /\ pc # "boot" /\ gap < MaxGap
  /\ ticks' = (ticks + 1) % TickMod
  /\ gap' = gap + 1
  /\ toSleep' = [f \in Fibre |-> IF toSleep[f] > 0 THEN toSleep[f] - 1 ELSE 0]
  /\ UNCHANGED <<schedVars, passed>>

-----------------------------------------------------------------------------
GiveUp == Yield \/ Return \/ \E ms \in 1 .. MaxSleep : Sleep(ms)

Next ==
  \/ \E f \in Fibre : Create(f)
  \/ Start \/ Schedule \/ GiveUp \/ Tick

(* The loop goes on, a fibre gives the processor up sooner or later, as    *)
(* cooperative fibres must, and time passes.                               *)
Fairness == WF_vars(Schedule) /\ WF_vars(GiveUp) /\ WF_vars(Tick)

Spec == Init /\ [][Next]_vars /\ Fairness

-----------------------------------------------------------------------------
(* Types of the state. *)
TypeOK ==
  /\ list \in Seq(Fibre) /\ Len(list) <= MaxFibres
  /\ state \in [Fibre -> States]
  /\ wakeTick \in [Fibre -> 0 .. TickMod - 1] /\ ticks \in 0 .. TickMod - 1
  /\ current \in Fibre \union {NoFibre}
  /\ pc \in {"boot", "scheduler", "fibre"}
  /\ gap \in 0 .. MaxGap /\ toSleep \in [Fibre -> 0 .. MaxSleep]
  /\ passed \in [Fibre -> SUBSET Fibre]

(* Exactly the current fibre is RUNNING, and none while the loop runs: a   *)
(* fibre left in that state would never be found again.                    *)
OneRunning ==
  \A f \in Fibre : state[f] = "RUNNING" <=> pc = "fibre" /\ f = current

(* Fibres take turns: while one waits, no other runs twice, whatever is    *)
(* created, woken or ends in between.                                      *)
TakeTurns ==
  [][\A f, g \in Fibre \ {Idle} :
       /\ state[f] = "READY" /\ f # g
       /\ state[g] # "RUNNING" /\ state'[g] = "RUNNING"
       => g \notin passed[f]]_vars

(* os_sleep never returns early, across the wrap of the counter.           *)
SleepsEnough ==
  [][\A f \in Fibre : state[f] = "SLEEPING" /\ state'[f] # "SLEEPING"
                        => toSleep[f] = 0]_vars

(* A fibre that sleeps gets to run again.                                  *)
SleepEnds ==
  \A f \in Fibre : state[f] = "SLEEPING" ~> state[f] = "RUNNING"

=============================================================================

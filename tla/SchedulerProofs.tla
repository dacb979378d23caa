-------------------------- MODULE SchedulerProofs --------------------------
(***************************************************************************)
(* Proofs of the safety properties of Scheduler, for any fibres, any width *)
(* of the tick counter and any sleeps and delays below half its range.     *)
(***************************************************************************)
EXTENDS Scheduler, WellFoundedInduction, SequenceTheorems, TLAPS

Safety == Init /\ [][Next]_vars

(* The search starts from the current fibre, which is in the list. *)
Linked ==
  /\ \E i \in DOMAIN list : list[i] = Idle
  /\ current # NoFibre => \E i \in DOMAIN list : list[i] = current
  /\ pc = "fibre" => current # NoFibre

(* While there is time left to sleep, the difference that the loop looks   *)
(* at is that time, whether or not the counter wraps in between.           *)
TimeLeft ==
  \A f \in Fibre : state[f] = "SLEEPING" /\ toSleep[f] > 0
                     => (wakeTick[f] - ticks) % TickMod = toSleep[f]

IInv == TypeOK /\ Linked /\ OneRunning /\ TimeLeft

-----------------------------------------------------------------------------
(* The arithmetic of the wrapping counter. *)

LEMMA ModType ==
  ASSUME NEW m \in Nat \ {0}, NEW x \in Int
  PROVE  x % m \in 0 .. m - 1
BY SMT

LEMMA WakeTickAhead ==
  ASSUME NEW m \in Nat \ {0}, NEW t \in 0 .. m - 1, NEW d \in 1 .. m - 1
  PROVE  (((t + d) % m) - t) % m = d
<1>1. CASE t + d < m
  <2>1. (t + d) % m = t + d
    BY <1>1, SMT
  <2>2. d % m = d /\ (t + d) - t = d
    BY SMT
  <2> QED
    BY <2>1, <2>2
<1>2. CASE m <= t + d
  <2>1. (t + d) % m = t + d - m
    BY <1>2, SMT
  <2>2. (t + d - m) - t = d - m /\ (d - m) % m = d
    BY SMT
  <2> QED
    BY <2>1, <2>2
<1> QED
  BY <1>1, <1>2, SMT

LEMMA OneTickLess ==
  ASSUME NEW m \in Nat \ {0}, NEW w \in 0 .. m - 1, NEW t \in 0 .. m - 1,
         (w - t) % m > 0
  PROVE  (w - ((t + 1) % m)) % m = ((w - t) % m) - 1
<1>1. CASE t < w
  <2>1. (w - t) % m = w - t
    BY <1>1, SMT
  <2>2. (t + 1) % m = t + 1
    BY <1>1, SMT
  <2>3. (w - (t + 1)) % m = w - (t + 1)
    BY <1>1, SMT
  <2> QED
    BY <2>1, <2>2, <2>3, SMT
<1>2. CASE w < t
  <2>1. (w - t) % m = w - t + m
    BY <1>2, SMT
  <2>2. CASE t + 1 < m
    <3>1. (t + 1) % m = t + 1
      BY <2>2, SMT
    <3>2. (w - (t + 1)) % m = w - (t + 1) + m
      BY <1>2, <2>2, SMT
    <3> QED
      BY <2>1, <3>1, <3>2, SMT
  <2>3. CASE t + 1 = m
    <3>1. (t + 1) % m = 0
      BY <2>3, SMT
    <3>2. (w - 0) % m = w
      BY SMT
    <3> QED
      BY <2>1, <2>3, <3>1, <3>2, SMT
  <2> QED
    BY <2>2, <2>3, SMT
<1>3. CASE w = t
  BY <1>3, SMT
<1> QED
  BY <1>1, <1>2, <1>3, SMT

LEMMA TickModPositive == TickMod \in Nat \ {0} /\ MaxSleep < TickMod
BY TickModAssumption, SMT

-----------------------------------------------------------------------------
(* find_next_ready returns a fibre: there is a candidate that is nearest.  *)

LEMMA NearestExists ==
  ASSUME NEW C, C # {}, \A i \in C : Steps(i) \in Nat
  PROVE  \E i \in C : \A j \in C : Steps(i) <= Steps(j)
<1> DEFINE R == OpToRel(<, Nat)
           D == {Steps(i) : i \in C}
<1>1. D # {} /\ D \subseteq Nat
  OBVIOUS
<1>2. PICK n \in D : \A m \in D : ~ (<<m, n>> \in R)
  <2> HIDE DEF R, D
  <2>1. IsWellFoundedOn(R, Nat)
    BY NatLessThanWellFounded DEF R
  <2> QED
    BY <1>1, <2>1, WFMin
<1>3. \A m \in D : ~ (m < n)
  <2> HIDE DEF D
  <2> QED
    BY <1>1, <1>2 DEF OpToRel
<1>4. PICK i \in C : Steps(i) = n
  BY <1>2
<1>5. \A j \in C : ~ (Steps(j) < Steps(i)) /\ Steps(j) \in Nat
  BY <1>3, <1>4
<1> HIDE DEF D, R
<1>6. \A j \in C : Steps(i) <= Steps(j)
  <2> SUFFICES ASSUME NEW j \in C PROVE Steps(i) <= Steps(j)
    OBVIOUS
  <2> DEFINE x == Steps(i)
             y == Steps(j)
  <2>1. ~ (y < x) /\ x \in Nat /\ y \in Nat
    BY <1>5
  <2> HIDE DEF x, y
  <2>2. x <= y
    BY <2>1, SMT
  <2> QED
    BY <2>2 DEF x, y
<1> QED
  BY <1>6

LEMMA NextReadyType ==
  ASSUME IInv, NEW st
  PROVE  /\ NextReady(st) \in Fibre
         /\ \E i \in DOMAIN list : list[i] = NextReady(st)
<1> USE DEF IInv
<1>1. list \in Seq(Fibre) /\ DOMAIN list = 1 .. Len(list) /\ Len(list) \in Nat
      /\ \A i \in DOMAIN list : list[i] \in Fibre
  BY LenProperties DEF TypeOK
<1>2. CASE Candidates(st) = {}
  BY <1>2, IdleAssumption DEF NextReady, Linked
<1>3. CASE Candidates(st) # {}
  <2>1. Here \in Int
    BY <1>1 DEF Here, Linked
  <2>2. Len(list) \in Nat \ {0}
    BY <1>1, <1>3, SMT DEF Candidates
  <2>3. \A i \in Candidates(st) : Steps(i) \in Nat
    <3> SUFFICES ASSUME NEW i \in Candidates(st) PROVE Steps(i) \in Nat
      OBVIOUS
    <3>1. i \in Int
      BY <1>1 DEF Candidates
    <3>2. i - Here - 1 \in Int
      BY <2>1, <3>1, SMT
    <3>3. (i - Here - 1) % Len(list) \in 0 .. Len(list) - 1
      BY <2>2, <3>2, ModType
    <3> QED
      BY <2>2, <3>3, SMT DEF Steps
  <2>4. \E i \in Candidates(st) : \A j \in Candidates(st) : Steps(i) <= Steps(j)
    BY <1>3, <2>3, NearestExists
  <2>5. \E i \in Candidates(st) : NextReady(st) = list[i]
    BY <1>3, <2>4 DEF NextReady
  <2> QED
    BY <1>1, <2>5 DEF Candidates
<1> QED
  BY <1>2, <1>3

(* A fibre that has time left to sleep is not due: the difference is below *)
(* half the counter's range.                                               *)
LEMMA NotDueEarly ==
  ASSUME IInv, NEW f \in Fibre, Due(f)
  PROVE  toSleep[f] = 0
<1>1. SUFFICES ASSUME toSleep[f] # 0 PROVE FALSE
  OBVIOUS
<1>2. toSleep[f] \in 1 .. MaxSleep
  BY <1>1, TickModAssumption, SMT DEF IInv, TypeOK
<1>3. (wakeTick[f] - ticks) % TickMod = toSleep[f]
  BY <1>2, SMT DEF Due, IInv, TimeLeft
<1>4. toSleep[f] = 0 \/ 2 * toSleep[f] >= TickMod
  BY <1>3 DEF Due
<1> QED
  BY <1>2, <1>4, TickModAssumption, SMT

-----------------------------------------------------------------------------
LEMMA InitIInv == Init => IInv
<1> SUFFICES ASSUME Init PROVE IInv
  OBVIOUS
<1> USE DEF Init
<1>1. /\ list \in Seq(Fibre) /\ Len(list) = 1 /\ 1 \in DOMAIN list /\ list[1] = Idle
  BY IdleAssumption, SMT
<1>2. /\ 0 \in 0 .. TickMod - 1 /\ 0 \in 0 .. MaxGap /\ 0 \in 0 .. MaxSleep
      /\ Len(list) <= MaxFibres
  BY <1>1, TickModAssumption, MaxAssumption, SMT
<1>3. TypeOK
  BY <1>1, <1>2 DEF TypeOK, States
<1>4. Linked /\ OneRunning /\ TimeLeft
  BY <1>1 DEF Linked, OneRunning, TimeLeft
<1> QED
  BY <1>3, <1>4 DEF IInv

LEMMA CreateInv ==
  ASSUME IInv, NEW f \in Fibre, Create(f)
  PROVE  IInv'
<1> USE DEF IInv, Create
<1>1. /\ list \in Seq(Fibre) /\ Len(list) \in Nat /\ DOMAIN list = 1 .. Len(list)
  BY LenProperties DEF TypeOK
<1>2. /\ list' \in Seq(Fibre) /\ Len(list') = Len(list) + 1
      /\ DOMAIN list' = 1 .. Len(list) + 1
      /\ \A i \in DOMAIN list : i + 1 \in DOMAIN list' /\ list'[i + 1] = list[i]
  BY <1>1, SMT
<1>3. Len(list') <= MaxFibres
  BY <1>1, <1>2, MaxAssumption, SMT
<1>4. TypeOK'
  BY <1>2, <1>3 DEF TypeOK, States
<1>5. Linked'
  BY <1>2 DEF Linked
<1>6. OneRunning' /\ TimeLeft'
  BY DEF OneRunning, TimeLeft, TypeOK
<1> QED
  BY <1>4, <1>5, <1>6

LEMMA StartInv ==
  ASSUME IInv, Start
  PROVE  IInv'
<1> USE DEF IInv, Start
<1>1. 0 \in 0 .. MaxGap
  BY TickModAssumption, SMT
<1>2. TypeOK'
  BY <1>1 DEF TypeOK
<1>3. Linked' /\ OneRunning' /\ TimeLeft'
  BY DEF Linked, OneRunning, TimeLeft
<1> QED
  BY <1>2, <1>3

LEMMA ScheduleInv ==
  ASSUME IInv, Schedule
  PROVE  IInv'
<1> USE DEF IInv, Schedule
<1> DEFINE n == NextReady(Woken)
<1>1. n \in Fibre /\ n # NoFibre /\ \E i \in DOMAIN list : list[i] = n
  BY NextReadyType, IdleAssumption
<1> HIDE DEF n
<1>2. /\ current' = n /\ state' = [Woken EXCEPT ![n] = "RUNNING"]
      /\ passed' \in [Fibre -> SUBSET Fibre]
  BY <1>1 DEF Run, n, TypeOK
<1>3. Woken \in [Fibre -> States] /\ \A f \in Fibre : Woken[f] # "RUNNING"
  BY DEF Woken, Due, TypeOK, States, OneRunning
<1>4. TypeOK'
  <2>1. 0 \in 0 .. MaxGap
    BY TickModAssumption, SMT
  <2>2. state' \in [Fibre -> States]
    BY <1>2, <1>3 DEF States
  <2> QED
    BY <1>1, <1>2, <2>1, <2>2 DEF TypeOK
<1>5. Linked'
  BY <1>1, <1>2 DEF Linked
<1>6. OneRunning'
  BY <1>1, <1>2, <1>3 DEF OneRunning
<1>7. TimeLeft'
  <2>1. \A f \in Fibre : state'[f] = "SLEEPING" => state[f] = "SLEEPING"
    BY <1>1, <1>2, <1>3 DEF Woken, Due
  <2> QED
    BY <2>1 DEF TimeLeft
<1> QED
  BY <1>4, <1>5, <1>6, <1>7

(* A running fibre gives up: it alone changes its state. *)
LEMMA GivenUp ==
  ASSUME IInv, pc = "fibre", pc' = "scheduler", NEW s \in States, s # "RUNNING",
         state' = [state EXCEPT ![current] = s],
         UNCHANGED <<list, current, ticks, gap, passed>>,
         wakeTick' \in [Fibre -> 0 .. TickMod - 1], toSleep' \in [Fibre -> 0 .. MaxSleep]
  PROVE  current \in Fibre /\ TypeOK' /\ Linked' /\ OneRunning'
<1> USE DEF IInv
<1>1. current \in Fibre
  BY DEF Linked, TypeOK
<1>2. TypeOK'
  BY <1>1 DEF TypeOK
<1>3. Linked'
  BY DEF Linked
<1>4. OneRunning'
  BY <1>1 DEF OneRunning, TypeOK
<1> QED
  BY <1>1, <1>2, <1>3, <1>4

LEMMA YieldInv ==
  ASSUME IInv, Yield \/ Return
  PROVE  IInv'
<1> USE DEF IInv
<1>1. PICK s \in {"READY", "DEAD"} :
        /\ pc = "fibre" /\ pc' = "scheduler" /\ state' = [state EXCEPT ![current] = s]
        /\ UNCHANGED <<list, wakeTick, current, ticks, gap, toSleep, passed>>
  BY DEF Yield, Return
<1>2. s \in States /\ s # "RUNNING" /\ s # "SLEEPING"
  BY DEF States
<1>3. current \in Fibre /\ TypeOK' /\ Linked' /\ OneRunning'
  BY <1>1, <1>2, GivenUp DEF TypeOK
<1>4. TimeLeft'
  BY <1>1, <1>2, <1>3 DEF TimeLeft, TypeOK
<1> QED
  BY <1>3, <1>4

LEMMA SleepInv ==
  ASSUME IInv, NEW ms \in 1 .. MaxSleep, Sleep(ms)
  PROVE  IInv'
<1> USE DEF IInv, Sleep
<1>1. /\ TickMod \in Nat \ {0} /\ ticks \in 0 .. TickMod - 1 /\ ms \in 1 .. TickMod - 1
      /\ ms \in 0 .. MaxSleep
  BY TickModAssumption, SMT DEF TypeOK
<1>2. (ticks + ms) % TickMod \in 0 .. TickMod - 1
  <2>1. ticks + ms \in Int
    BY <1>1, SMT
  <2> QED
    BY <1>1, <2>1, ModType
<1>3. /\ wakeTick' \in [Fibre -> 0 .. TickMod - 1]
      /\ toSleep' \in [Fibre -> 0 .. MaxSleep]
  BY <1>1, <1>2 DEF TypeOK
<1>4. current \in Fibre /\ TypeOK' /\ Linked' /\ OneRunning'
  BY <1>3, GivenUp DEF States
<1>5. TimeLeft'
  <2> SUFFICES ASSUME NEW f \in Fibre, state'[f] = "SLEEPING", toSleep'[f] > 0
               PROVE  (wakeTick'[f] - ticks') % TickMod = toSleep'[f]
    BY DEF TimeLeft
  <2>1. CASE f = current
    <3>1. wakeTick'[f] = (ticks + ms) % TickMod /\ toSleep'[f] = ms /\ ticks' = ticks
      BY <1>4, <2>1 DEF TypeOK
    <3> QED
      BY <1>1, <3>1, WakeTickAhead
  <2>2. CASE f # current
    <3>1. state'[f] = state[f] /\ wakeTick'[f] = wakeTick[f] /\ toSleep'[f] = toSleep[f]
          /\ ticks' = ticks
      BY <2>2 DEF TypeOK
    <3> QED
      BY <3>1 DEF TimeLeft
  <2> QED
    BY <2>1, <2>2
<1> QED
  BY <1>4, <1>5

LEMMA TickInv ==
  ASSUME IInv, Tick
  PROVE  IInv'
<1> USE DEF IInv, Tick
<1>1. TickMod \in Nat \ {0} /\ ticks \in 0 .. TickMod - 1
  BY TickModPositive DEF TypeOK
<1>2. ticks' \in 0 .. TickMod - 1
  <2>1. ticks + 1 \in Int
    BY <1>1, SMT
  <2> QED
    BY <1>1, <2>1, ModType
<1>3. gap' \in 0 .. MaxGap
  BY TickModAssumption, SMT DEF TypeOK
<1>4. \A f \in Fibre : /\ toSleep[f] \in 0 .. MaxSleep
                       /\ toSleep'[f] \in 0 .. MaxSleep
                       /\ toSleep'[f] > 0 => toSleep[f] > 0 /\ toSleep'[f] = toSleep[f] - 1
  <2> SUFFICES ASSUME NEW f \in Fibre
               PROVE  /\ toSleep[f] \in 0 .. MaxSleep
                      /\ toSleep'[f] \in 0 .. MaxSleep
                      /\ toSleep'[f] > 0 => toSleep[f] > 0 /\ toSleep'[f] = toSleep[f] - 1
    OBVIOUS
  <2>1. toSleep[f] \in 0 .. MaxSleep
    BY DEF TypeOK
  <2>2. toSleep'[f] = IF toSleep[f] > 0 THEN toSleep[f] - 1 ELSE 0
    OBVIOUS
  <2> QED
    BY <2>1, <2>2, TickModAssumption, SMT
<1>5. toSleep' \in [Fibre -> 0 .. MaxSleep]
  BY <1>4
<1>6. TypeOK'
  BY <1>2, <1>3, <1>5 DEF TypeOK, schedVars
<1>7. Linked' /\ OneRunning'
  BY DEF Linked, OneRunning, schedVars
<1>8. TimeLeft'
  <2> SUFFICES ASSUME NEW f \in Fibre, state[f] = "SLEEPING", toSleep'[f] > 0
               PROVE  (wakeTick[f] - ticks') % TickMod = toSleep'[f]
    BY DEF TimeLeft, schedVars
  <2>1. (wakeTick[f] - ticks) % TickMod = toSleep[f] /\ toSleep[f] > 0
    BY <1>4 DEF TimeLeft
  <2>2. wakeTick[f] \in 0 .. TickMod - 1
    BY DEF TypeOK
  <2>3. (wakeTick[f] - ((ticks + 1) % TickMod)) % TickMod = toSleep[f] - 1
    BY <1>1, <2>1, <2>2, OneTickLess
  <2> QED
    BY <1>4, <2>3
<1> QED
  BY <1>6, <1>7, <1>8

LEMMA StepIInv == IInv /\ [Next]_vars => IInv'
<1> SUFFICES ASSUME IInv, [Next]_vars PROVE IInv'
  OBVIOUS
<1>1. ASSUME NEW f \in Fibre, Create(f) PROVE IInv'
  BY <1>1, CreateInv
<1>2. CASE Start
  BY <1>2, StartInv
<1>3. CASE Schedule
  BY <1>3, ScheduleInv
<1>4. CASE Yield \/ Return
  BY <1>4, YieldInv
<1>5. ASSUME NEW ms \in 1 .. MaxSleep, Sleep(ms) PROVE IInv'
  BY <1>5, SleepInv
<1>6. CASE Tick
  BY <1>6, TickInv
<1>7. CASE UNCHANGED vars
  BY <1>7 DEF vars, schedVars, IInv, TypeOK, Linked, OneRunning, TimeLeft
<1> QED
  BY <1>1, <1>2, <1>3, <1>4, <1>5, <1>6, <1>7 DEF Next, GiveUp

THEOREM Invariance == Safety => []IInv
BY InitIInv, StepIInv, PTL DEF Safety

(* Every variable keeps its type: ticks and wake ticks stay within the     *)
(* counter's range, and find_next_ready returns a fibre that exists.       *)
THEOREM TypeCorrect == Safety => []TypeOK
BY Invariance, PTL DEF IInv

(* The fibre that the loop of os_fibre_start switched to is RUNNING, alone, *)
(* and whatever gives the processor up leaves that state.                   *)
THEOREM RunningCorrect == Safety => []OneRunning
BY Invariance, PTL DEF IInv

(* find_next_ready wakes nobody early: the sign of a wrapped difference is *)
(* right as long as sleeps are shorter than half the counter's range.      *)
THEOREM SleepCorrect == Safety => SleepsEnough
<1>1. ASSUME IInv, [Next]_vars, NEW f \in Fibre, state[f] = "SLEEPING", state'[f] # "SLEEPING"
      PROVE  toSleep[f] = 0
  <2>1. CASE Schedule
    <3>1. Due(f)
      <4>1. SUFFICES ASSUME ~Due(f) PROVE FALSE
        OBVIOUS
      <4>2. Woken[f] = "SLEEPING"
        BY <1>1, <4>1 DEF Woken
      <4>3. /\ Woken[NextReady(Woken)] = "READY"
            /\ state'[f] = [Woken EXCEPT ![NextReady(Woken)] = "RUNNING"][f]
        BY <2>1 DEF Schedule, Run
      <4>4. f # NextReady(Woken)
        BY <4>2, <4>3
      <4> QED
        BY <1>1, <4>2, <4>3, <4>4 DEF Woken
    <3> QED
      BY <1>1, <3>1, NotDueEarly
  <2>2. CASE \E g \in Fibre : Create(g)
    BY <1>1, <2>2 DEF Create, IInv, TypeOK
  <2>3. CASE GiveUp
    <3>1. pc = "fibre" /\ \E s : state' = [state EXCEPT ![current] = s]
      BY <2>3 DEF GiveUp, Yield, Return, Sleep
    <3>2. f # current
      BY <1>1, <3>1 DEF IInv, OneRunning
    <3> QED
      BY <1>1, <3>1, <3>2 DEF IInv, TypeOK
  <2>4. CASE Start \/ Tick \/ UNCHANGED vars
    BY <1>1, <2>4 DEF Start, Tick, vars, schedVars
  <2> QED
    BY <1>1, <2>1, <2>2, <2>3, <2>4 DEF Next
<1>2. IInv /\ [Next]_vars =>
        [\A f \in Fibre : state[f] = "SLEEPING" /\ state'[f] # "SLEEPING" => toSleep[f] = 0]_vars
  BY <1>1
<1> QED
  BY <1>2, Invariance, PTL DEF Safety, SleepsEnough

-----------------------------------------------------------------------------
(* TakeTurns: a fibre that waits is nearer to the current one, in the      *)
(* order of the search, than any that ran while it waited.                 *)

At(i, f) == i \in DOMAIN list /\ list[i] = f

Order ==
  /\ \A i, j \in DOMAIN list : list[i] = list[j] => i = j
  /\ \A f \in Fibre : state[f] # "NONE" <=> \E i \in DOMAIN list : list[i] = f
  /\ \A f \in Fibre : state[f] # "READY" => passed[f] = {}
  /\ \A f \in Fibre : current = NoFibre => passed[f] = {}
  /\ \A f, g \in Fibre : g \in passed[f] => state[g] # "NONE"

Nearer ==
  \A f \in Fibre \ {Idle}, g \in Fibre :
    state[f] = "READY" /\ g \in passed[f] =>
      \A i, j \in DOMAIN list : list[i] = f /\ list[j] = g => Steps(i) < Steps(j)

Turns == Order /\ Nearer

(* How far i is after h, round a list of n.                                *)
Away(n, h, i) == IF i > h THEN i - h - 1 ELSE i - h - 1 + n

LEMMA AwayIs ==
  ASSUME NEW n \in Nat \ {0}, NEW h \in 0 .. n, NEW i \in 1 .. n
  PROVE  (i - h - 1) % n = Away(n, h, i)
<1>1. CASE i > h
  BY <1>1, SMT DEF Away
<1>2. CASE ~ (i > h)
  <2>1. i - h - 1 + n \in 0 .. n - 1
    BY <1>2, SMT
  <2> QED
    BY <1>2, <2>1, SMT DEF Away
<1> QED
  BY <1>1, <1>2

(* The search moves to k, or the list grows at its head.                   *)
LEMMA AwayMoves ==
  ASSUME NEW n \in Nat \ {0}, NEW h \in 0 .. n, NEW k \in 1 .. n, NEW i \in 1 .. n,
         NEW j \in 1 .. n
  PROVE  /\ i # k => Away(n, h, i) # Away(n, h, k) /\ Away(n, k, i) < Away(n, k, k)
         /\ Away(n, h, k) < Away(n, h, i) /\ Away(n, h, i) < Away(n, h, j)
              => Away(n, k, i) < Away(n, k, j)
BY SMT DEF Away

LEMMA AwayGrows ==
  ASSUME NEW n \in Nat \ {0}, NEW h \in 1 .. n, NEW i \in 1 .. n, NEW j \in 1 .. n,
         Away(n, h, i) < Away(n, h, j)
  PROVE  Away(n + 1, h + 1, i + 1) < Away(n + 1, h + 1, j + 1)
BY SMT DEF Away

LEMMA OneIsFound ==
  ASSUME NEW l, NEW c, NEW k \in DOMAIN l, l[k] = c,
         \A i, j \in DOMAIN l : l[i] = l[j] => i = j
  PROVE  (CHOOSE i \in DOMAIN l : l[i] = c) = k
OBVIOUS

LEMMA StrictOrder ==
  ASSUME NEW x \in Nat, NEW y \in Nat, x <= y
  PROVE  ~ (y < x)
BY SMT

LEMMA HereIs ==
  ASSUME IInv, Order
  PROVE  /\ list \in Seq(Fibre) /\ Len(list) \in Nat \ {0} /\ DOMAIN list = 1 .. Len(list)
         /\ current = NoFibre => Here = 0
         /\ current # NoFibre => At(Here, current)
         /\ Here \in 0 .. Len(list)
         /\ \A i \in DOMAIN list : Steps(i) = Away(Len(list), Here, i)
<1>1. list \in Seq(Fibre) /\ DOMAIN list = 1 .. Len(list) /\ Len(list) \in Nat
  BY LenProperties DEF IInv, TypeOK
<1>2. Len(list) \in Nat \ {0}
  BY <1>1, SMT DEF IInv, Linked
<1>3. /\ current = NoFibre => Here = 0
      /\ current # NoFibre => At(Here, current)
  BY DEF IInv, Linked, Here, At
<1>4. Here \in 0 .. Len(list)
  <2>1. Here = 0 \/ Here \in 1 .. Len(list)
    BY <1>1, <1>3 DEF At
  <2> QED
    BY <1>2, <2>1, SMT
<1>5. \A i \in DOMAIN list : Steps(i) = Away(Len(list), Here, i)
  BY <1>1, <1>2, <1>4, AwayIs DEF Steps
<1> QED
  BY <1>1, <1>2, <1>3, <1>4, <1>5

LEMMA StepsType ==
  ASSUME IInv, Order, NEW i \in DOMAIN list
  PROVE  Steps(i) \in Nat
<1> DEFINE n == Len(list)
           h == Here
<1>1. n \in Nat \ {0} /\ h \in 0 .. n /\ i \in 1 .. n /\ Steps(i) = Away(n, h, i)
  BY HereIs
<1> HIDE DEF n, h
<1>2. Away(n, h, i) \in Nat
  BY <1>1, SMT DEF Away
<1> QED
  BY <1>1, <1>2

(* The loop's choice.                                                      *)
LEMMA NextReadyIs ==
  ASSUME IInv, Order, NEW st, Candidates(st) # {}
  PROVE  \E k \in Candidates(st) :
           /\ NextReady(st) = list[k] /\ list[k] # Idle
           /\ \A j \in Candidates(st) : Steps(k) <= Steps(j)
<1>1. \A i \in Candidates(st) : Steps(i) \in Nat
  BY StepsType DEF Candidates
<1>2. \E k \in Candidates(st) : \A j \in Candidates(st) : Steps(k) <= Steps(j)
  BY <1>1, NearestExists
<1> DEFINE k == CHOOSE i \in Candidates(st) : \A j \in Candidates(st) : Steps(i) <= Steps(j)
<1>3. k \in Candidates(st) /\ \A j \in Candidates(st) : Steps(k) <= Steps(j)
  BY <1>2
<1>4. NextReady(st) = list[k]
  BY DEF NextReady
<1> HIDE DEF k
<1> QED
  BY <1>3, <1>4 DEF Candidates

LEMMA CreateTurns ==
  ASSUME IInv, Turns, NEW f \in Fibre, Create(f)
  PROVE  Turns'
<1> DEFINE n == Len(list)
<1>1. /\ list \in Seq(Fibre) /\ n \in Nat \ {0} /\ DOMAIN list = 1 .. n
      /\ state \in [Fibre -> States] /\ Order /\ Nearer
  BY HereIs DEF IInv, TypeOK, Turns
<1>2. /\ list' \in Seq(Fibre) /\ Len(list') = n + 1 /\ DOMAIN list' = 1 .. n + 1
      /\ list'[1] = f
      /\ \A i \in 1 .. n : i + 1 \in DOMAIN list' /\ list'[i + 1] = list[i]
      /\ \A i \in DOMAIN list' : i = 1 \/ (i - 1 \in 1 .. n /\ list'[i] = list[i - 1])
  BY <1>1 DEF Create
<1>3. /\ state[f] = "NONE" /\ state' = [state EXCEPT ![f] = "READY"]
      /\ UNCHANGED <<current, passed>> /\ passed[f] = {}
  BY <1>1 DEF Create, Order
<1>4. \A i \in DOMAIN list : list[i] # f
  BY <1>1, <1>3 DEF Order
<1>5. Order'
  <2>1. \A i, j \in DOMAIN list' : list'[i] = list'[j] => i = j
    <3> SUFFICES ASSUME NEW i \in DOMAIN list', NEW j \in DOMAIN list', list'[i] = list'[j]
                 PROVE  i = j
      OBVIOUS
    <3>1. CASE i = 1 \/ j = 1
      BY <1>1, <1>2, <1>4, <3>1
    <3>2. CASE i # 1 /\ j # 1
      <4>1. /\ i - 1 \in DOMAIN list /\ j - 1 \in DOMAIN list
            /\ list[i - 1] = list[j - 1] /\ i \in Int /\ j \in Int
        BY <1>1, <1>2, <3>2
      <4>2. i - 1 = j - 1
        BY <1>1, <4>1 DEF Order
      <4> QED
        BY <4>1, <4>2
    <3> QED
      BY <3>1, <3>2
  <2>2. ASSUME NEW g \in Fibre
        PROVE  state'[g] # "NONE" <=> \E i \in DOMAIN list' : list'[i] = g
    <3>1. CASE g = f
      BY <1>1, <1>2, <1>3, <3>1
    <3>2. CASE g # f
      <4>1. state'[g] = state[g]
        BY <1>1, <1>3, <3>2
      <4>2. ASSUME NEW i \in DOMAIN list, list[i] = g PROVE \E k \in DOMAIN list' : list'[k] = g
        <5>1. i + 1 \in DOMAIN list' /\ list'[i + 1] = g
          BY <1>1, <1>2, <4>2
        <5> QED
          BY <5>1
      <4>3. ASSUME NEW i \in DOMAIN list', list'[i] = g PROVE \E k \in DOMAIN list : list[k] = g
        <5>1. i - 1 \in DOMAIN list /\ list[i - 1] = g
          BY <1>1, <1>2, <3>2, <4>3
        <5> QED
          BY <5>1
      <4> QED
        BY <1>1, <4>1, <4>2, <4>3 DEF Order
    <3> QED
      BY <3>1, <3>2
  <2>3. \A g \in Fibre : /\ state'[g] # "READY" => passed'[g] = {}
                         /\ current' = NoFibre => passed'[g] = {}
    BY <1>1, <1>3 DEF Order
  <2>4. \A e, g \in Fibre : g \in passed'[e] => state'[g] # "NONE"
    BY <1>1, <1>3 DEF Order
  <2> QED
    BY <2>1, <2>2, <2>3, <2>4 DEF Order
<1>6. Nearer'
  <2> SUFFICES ASSUME NEW e \in Fibre \ {Idle}, NEW g \in Fibre,
                      state'[e] = "READY", g \in passed'[e],
                      NEW i \in DOMAIN list', NEW j \in DOMAIN list',
                      list'[i] = e, list'[j] = g
               PROVE  Steps(i)' < Steps(j)'
    BY DEF Nearer
  <2>1. e # f /\ state[e] = "READY" /\ g \in passed[e] /\ current # NoFibre
    BY <1>1, <1>3 DEF Order
  <2>2. g # f
    BY <1>1, <1>3, <2>1 DEF Order
  <2>3. /\ i - 1 \in 1 .. n /\ list[i - 1] = e
        /\ j - 1 \in 1 .. n /\ list[j - 1] = g
    BY <1>2, <2>1, <2>2
  <2>4. Steps(i - 1) < Steps(j - 1)
    BY <1>1, <2>1, <2>3 DEF Nearer
  <2> DEFINE h == Here
  <2>5. h \in 1 .. n /\ list[h] = current
        /\ \A k \in DOMAIN list : Steps(k) = Away(n, h, k)
    BY <1>1, <2>1, HereIs DEF At
  <2>6. Here' = h + 1
    <3>1. h + 1 \in DOMAIN list' /\ list'[h + 1] = current' /\ current' # NoFibre
      BY <1>2, <1>3, <2>1, <2>5
    <3> HIDE DEF h
    <3>2. (CHOOSE k \in DOMAIN list' : list'[k] = current') = h + 1
      BY <1>5, <3>1, OneIsFound DEF Order
    <3> QED
      BY <3>1, <3>2 DEF Here
  <2> HIDE DEF h, n
  <2>7. Away(n, h, i - 1) < Away(n, h, j - 1)
    BY <1>1, <2>3, <2>4, <2>5
  <2>8. Away(n + 1, h + 1, i) < Away(n + 1, h + 1, j)
    <3>1. Away(n + 1, h + 1, (i - 1) + 1) < Away(n + 1, h + 1, (j - 1) + 1)
      BY <1>1, <2>3, <2>5, <2>7, AwayGrows
    <3>2. (i - 1) + 1 = i /\ (j - 1) + 1 = j
      BY <1>2, SMT
    <3> QED
      BY <3>1, <3>2
  <2>9. Steps(i)' = (i - (h + 1) - 1) % (n + 1) /\ Steps(j)' = (j - (h + 1) - 1) % (n + 1)
    BY <1>2, <2>6 DEF Steps
  <2>10. /\ n + 1 \in Nat \ {0} /\ h + 1 \in 0 .. n + 1
         /\ i \in 1 .. n + 1 /\ j \in 1 .. n + 1
    BY <1>1, <1>2, <2>5, SMT
  <2> QED
    BY <2>8, <2>9, <2>10, AwayIs
<1> QED
  BY <1>5, <1>6 DEF Turns

LEMMA ScheduleTurns ==
  ASSUME IInv, Turns, Schedule
  PROVE  Turns'
<1> DEFINE x == NextReady(Woken)
           n == Len(list)
<1>1. /\ Order /\ Nearer /\ n \in Nat \ {0} /\ DOMAIN list = 1 .. n
      /\ state \in [Fibre -> States] /\ passed \in [Fibre -> SUBSET Fibre]
      /\ x \in Fibre /\ x # NoFibre
  BY HereIs, NextReadyType, IdleAssumption DEF IInv, TypeOK, Turns
<1> HIDE DEF x
<1>2. /\ Woken[x] = "READY" /\ current' = x /\ state' = [Woken EXCEPT ![x] = "RUNNING"]
      /\ passed' = [g \in Fibre |-> IF g # x /\ Woken[g] = "READY"
                                    THEN passed[g] \union {x} ELSE {}]
      /\ UNCHANGED list
  BY DEF Schedule, Run, x
<1>3. \A f \in Fibre : /\ Woken[f] = "NONE" <=> state[f] = "NONE"
                       /\ state[f] = "READY" => Woken[f] = "READY"
                       /\ state'[f] = IF f = x THEN "RUNNING" ELSE Woken[f]
  BY <1>2 DEF Woken, Due
<1>4. Order'
  <2>1. \A f \in Fibre : state'[f] # "NONE" <=> \E i \in DOMAIN list' : list'[i] = f
    BY <1>1, <1>2, <1>3 DEF Order
  <2>2. \A f \in Fibre : state'[f] # "READY" => passed'[f] = {}
    BY <1>2, <1>3
  <2>3. \A f, g \in Fibre : g \in passed'[f] => state'[g] # "NONE"
    BY <1>1, <1>2, <1>3 DEF Order
  <2> QED
    BY <1>1, <1>2, <2>1, <2>2, <2>3 DEF Order
<1>5. Nearer'
  <2> SUFFICES ASSUME NEW f \in Fibre \ {Idle}, NEW g \in Fibre,
                      state'[f] = "READY", g \in passed'[f],
                      NEW i \in DOMAIN list, NEW j \in DOMAIN list,
                      list[i] = f, list[j] = g
               PROVE  Steps(i)' < Steps(j)'
    BY <1>2 DEF Nearer
  <2>1. f # x /\ Woken[f] = "READY" /\ i \in Candidates(Woken)
    BY <1>2, <1>3 DEF Candidates
  <2>2. PICK k \in Candidates(Woken) :
          x = list[k] /\ \A m \in Candidates(Woken) : Steps(k) <= Steps(m)
    BY <1>1, <2>1, NextReadyIs DEF x
  <2> DEFINE h == Here
  <2>3. /\ h \in 0 .. n /\ k \in 1 .. n /\ i \in 1 .. n /\ j \in 1 .. n
        /\ \A m \in 1 .. n : Steps(m) = Away(n, h, m)
    BY <1>1, HereIs DEF Candidates
  <2>4. Here' = k
    <3>1. (CHOOSE m \in DOMAIN list : list[m] = x) = k
      BY <1>1, <2>2, <2>3, OneIsFound DEF Order
    <3> QED
      BY <1>1, <1>2, <3>1 DEF Here
  <2>5. i # k
    BY <2>1, <2>2
  <2>6. Away(n, h, k) <= Away(n, h, i)
    BY <2>1, <2>2, <2>3
  <2>7. Steps(i)' = (i - k - 1) % n /\ Steps(j)' = (j - k - 1) % n
    BY <1>2, <2>4 DEF Steps
  <2>8. g = x \/ Steps(i) < Steps(j)
    <3>1. g = x \/ g \in passed[f]
      BY <1>2, <2>1
    <3>2. g \in passed[f] => state[f] = "READY"
      BY <1>1 DEF Order
    <3> QED
      BY <1>1, <3>1, <3>2 DEF Nearer
  <2> HIDE DEF h, n
  <2>9. Away(n, k, i) < Away(n, k, j)
    <3>0. /\ Away(n, h, i) # Away(n, h, k) /\ Away(n, k, i) < Away(n, k, k)
          /\ Away(n, h, k) < Away(n, h, i) /\ Away(n, h, i) < Away(n, h, j)
               => Away(n, k, i) < Away(n, k, j)
      BY <1>1, <2>3, <2>5, AwayMoves
    <3>1. CASE g = x
      <4>1. j = k
        BY <1>1, <2>2, <2>3, <3>1 DEF Order
      <4> QED
        BY <3>0, <4>1
    <3>2. CASE Steps(i) < Steps(j)
      <4>1. Away(n, h, i) < Away(n, h, j)
        BY <2>3, <3>2
      <4>2. Away(n, h, k) < Away(n, h, i)
        BY <1>1, <2>3, <2>6, <3>0, SMT DEF Away
      <4> QED
        BY <3>0, <4>1, <4>2
    <3> QED
      BY <2>8, <3>1, <3>2
  <2>10. k \in 0 .. n
    BY <1>1, <2>3, SMT
  <2> QED
    BY <1>1, <2>3, <2>7, <2>9, <2>10, AwayIs
<1> QED
  BY <1>4, <1>5 DEF Turns

(* A running fibre gives up, or time passes: nobody comes nearer.          *)
LEMMA OthersTurn ==
  ASSUME IInv, Turns, UNCHANGED <<list, current, passed>>,
         \/ UNCHANGED state
         \/ /\ pc = "fibre"
            /\ \E s \in States \ {"NONE"} : state' = [state EXCEPT ![current] = s]
  PROVE  Turns'
<1>1. Order /\ Nearer /\ state \in [Fibre -> States]
  BY DEF Turns, IInv, TypeOK
<1>2. \A i : Steps(i)' = Steps(i)
  BY DEF Steps, Here
<1>3. CASE UNCHANGED state
  <2>1. Order'
    BY <1>1, <1>3 DEF Order
  <2>2. Nearer'
    BY <1>1, <1>2, <1>3 DEF Nearer
  <2> QED
    BY <2>1, <2>2 DEF Turns
<1>4. CASE pc = "fibre" /\ \E s \in States \ {"NONE"} : state' = [state EXCEPT ![current] = s]
  <2>1. current \in Fibre /\ state[current] = "RUNNING" /\ passed[current] = {}
    BY <1>1, <1>4 DEF IInv, OneRunning, Linked, TypeOK, Order
  <2>2. \A f \in Fibre : /\ f # current => state'[f] = state[f]
                         /\ state'[f] = "NONE" <=> state[f] = "NONE"
    BY <1>1, <1>4, <2>1
  <2>3. Order'
    <3>1. \A f \in Fibre : state'[f] # "NONE" <=> \E i \in DOMAIN list' : list'[i] = f
      BY <1>1, <2>2 DEF Order
    <3>2. \A f \in Fibre : state'[f] # "READY" => passed'[f] = {}
      BY <1>1, <2>1, <2>2 DEF Order
    <3>3. \A f, g \in Fibre : g \in passed'[f] => state'[g] # "NONE"
      BY <1>1, <2>2 DEF Order
    <3> QED
      BY <1>1, <3>1, <3>2, <3>3 DEF Order
  <2>4. Nearer'
    BY <1>1, <1>2, <2>1, <2>2 DEF Nearer
  <2> QED
    BY <2>3, <2>4 DEF Turns
<1> QED
  BY <1>3, <1>4

(* find_next_ready goes round: while a fibre waits, no other runs twice,   *)
(* whatever is created, woken or ends in between.                          *)
THEOREM TurnsCorrect == Safety => TakeTurns
<1>1. Init => Turns
  <2> SUFFICES ASSUME Init PROVE Turns
    OBVIOUS
  <2>1. DOMAIN list = {1} /\ list[1] = Idle
    BY DEF Init
  <2>2. Order
    BY <2>1 DEF Init, Order
  <2>3. Nearer
    BY DEF Init, Nearer
  <2> QED
    BY <2>2, <2>3 DEF Turns
<1>2. ASSUME IInv, Turns, [Next]_vars PROVE Turns'
  <2>1. CASE \E f \in Fibre : Create(f)
    BY <1>2, <2>1, CreateTurns
  <2>2. CASE Schedule
    BY <1>2, <2>2, ScheduleTurns
  <2>3. CASE Start \/ Tick \/ UNCHANGED vars
    BY <1>2, <2>3, OthersTurn DEF Start, Tick, vars, schedVars
  <2>4. CASE GiveUp
    <3>1. \E s \in States \ {"NONE"} : state' = [state EXCEPT ![current] = s]
      BY <2>4 DEF GiveUp, Yield, Return, Sleep, States
    <3> QED
      BY <1>2, <2>4, <3>1, OthersTurn DEF GiveUp, Yield, Return, Sleep
  <2> QED
    BY <1>2, <2>1, <2>2, <2>3, <2>4 DEF Next
<1>3. ASSUME IInv, Turns, [Next]_vars, NEW f \in Fibre \ {Idle}, NEW g \in Fibre \ {Idle},
             state[f] = "READY", f # g, state[g] # "RUNNING", state'[g] = "RUNNING"
      PROVE  g \notin passed[f]
  <2>0. state \in [Fibre -> States] /\ Order /\ Nearer
    BY <1>3 DEF IInv, TypeOK, Turns
  <2>1. Schedule
    <3>1. CASE \E e \in Fibre : Create(e)
      BY <1>3, <2>0, <3>1 DEF Create
    <3>2. CASE GiveUp
      <4>1. \E s \in States \ {"RUNNING"} : state' = [state EXCEPT ![current] = s]
        BY <3>2 DEF GiveUp, Yield, Return, Sleep, States
      <4> QED
        BY <1>3, <2>0, <4>1
    <3>3. CASE Start \/ Tick \/ UNCHANGED vars
      BY <1>3, <3>3 DEF Start, Tick, vars, schedVars
    <3> QED
      BY <1>3, <3>1, <3>2, <3>3 DEF Next
  <2>2. Woken[f] = "READY" /\ g = NextReady(Woken)
    <3>1. state' = [Woken EXCEPT ![NextReady(Woken)] = "RUNNING"]
      BY <2>1 DEF Schedule, Run
    <3>2. Woken[f] = "READY" /\ Woken[g] # "RUNNING"
      BY <1>3 DEF Woken, Due
    <3> QED
      BY <1>3, <3>1, <3>2 DEF Woken
  <2>3. PICK i \in DOMAIN list : list[i] = f
    BY <1>3, <2>0 DEF Order
  <2>4. i \in Candidates(Woken)
    BY <2>2, <2>3 DEF Candidates
  <2>5. PICK k \in Candidates(Woken) :
          g = list[k] /\ Steps(k) <= Steps(i)
    BY <1>3, <2>0, <2>2, <2>4, NextReadyIs
  <2>6. Steps(i) \in Nat /\ Steps(k) \in Nat
    BY <1>3, <2>0, <2>4, <2>5, StepsType DEF Candidates
  <2>7. g \in passed[f] => Steps(i) < Steps(k)
    BY <1>3, <2>0, <2>3, <2>5 DEF Nearer, Candidates
  <2> QED
    BY <2>5, <2>6, <2>7, StrictOrder
<1>4. IInv /\ Turns /\ [Next]_vars =>
        [\A f, g \in Fibre \ {Idle} :
           /\ state[f] = "READY" /\ f # g
           /\ state[g] # "RUNNING" /\ state'[g] = "RUNNING"
           => g \notin passed[f]]_vars
  BY <1>3
<1>5. Safety => []Turns
  BY <1>1, <1>2, Invariance, PTL DEF Safety
<1> QED
  BY <1>4, <1>5, Invariance, PTL DEF Safety, TakeTurns

-----------------------------------------------------------------------------
(* The other direction of SleepsEnough, and what SleepEnds rests on: whose *)
(* time is up is woken at once.                                            *)

(* A sleeper is late by no more ticks than passed since the loop looked.   *)
Lateness ==
  \A f \in Fibre : state[f] = "SLEEPING" =>
    /\ pc # "boot"
    /\ toSleep[f] = 0 => (ticks - wakeTick[f]) % TickMod <= gap

WokenInTime ==
  [][Schedule => \A f \in Fibre : state[f] = "SLEEPING" /\ toSleep[f] = 0
                                    => state'[f] # "SLEEPING"]_vars

LEMMA OneTickMore ==
  ASSUME NEW m \in Nat \ {0}, NEW w \in 0 .. m - 1, NEW t \in 0 .. m - 1
  PROVE  (((t + 1) % m) - w) % m <= ((t - w) % m) + 1
<1>1. (t + 1) % m = IF t + 1 = m THEN 0 ELSE t + 1
  <2>1. CASE t + 1 = m
    BY <2>1, SMT
  <2>2. CASE t + 1 # m
    BY <2>2, SMT
  <2> QED
    BY <2>1, <2>2
<1>2. (t - w) % m = IF t < w THEN t - w + m ELSE t - w
  <2>1. CASE t < w
    BY <2>1, SMT
  <2>2. CASE w <= t
    BY <2>2, SMT
  <2> QED
    BY <2>1, <2>2
<1>3. CASE t + 1 = m
  <2>1. (0 - w) % m <= m - w
    <3>1. CASE w = 0
      BY <3>1, SMT
    <3>2. CASE w > 0
      BY <3>2, SMT
    <3> QED
      BY <3>1, <3>2, SMT
  <2> QED
    BY <1>1, <1>2, <1>3, <2>1, SMT
<1>4. CASE t + 1 < w
  <2>1. ((t + 1) - w) % m = (t + 1) - w + m
    BY <1>4, SMT
  <2> QED
    BY <1>1, <1>2, <1>4, <2>1, SMT
<1>5. CASE t + 1 # m /\ w <= t + 1
  <2>1. ((t + 1) - w) % m = (t + 1) - w
    BY <1>5, SMT
  <2>2. (t + 1) % m = t + 1
    BY <1>1, <1>5
  <2>3. CASE w <= t
    BY <1>2, <2>1, <2>2, <2>3, SMT
  <2>4. CASE w = t + 1
    <3>1. (t + 1) - w = 0 /\ (t - w) % m = m - 1
      BY <1>2, <2>4, SMT
    <3> QED
      BY <2>1, <2>2, <3>1, SMT
  <2> QED
    BY <1>5, <2>3, <2>4, SMT
<1> QED
  BY <1>3, <1>4, <1>5, SMT

(* A difference that is negative by less than half the range looks so.     *)
LEMMA LateLooksNegative ==
  ASSUME NEW m \in Nat \ {0}, NEW w \in 0 .. m - 1, NEW t \in 0 .. m - 1,
         NEW g \in Nat, 2 * g < m, (t - w) % m <= g
  PROVE  (w - t) % m = 0 \/ 2 * ((w - t) % m) >= m
<1>1. CASE w = t
  BY <1>1, SMT
<1>2. CASE w < t
  <2>1. (t - w) % m = t - w /\ (w - t) % m = w - t + m
    BY <1>2, SMT
  <2> QED
    BY <2>1, SMT
<1>3. CASE t < w
  <2>1. (t - w) % m = t - w + m /\ (w - t) % m = w - t
    BY <1>3, SMT
  <2> QED
    BY <2>1, SMT
<1> QED
  BY <1>1, <1>2, <1>3, SMT

(* The tick that a sleeper waits for is that of its waking. *)
LEMMA NowDue ==
  ASSUME NEW m \in Nat \ {0}, NEW w \in 0 .. m - 1, NEW t \in 0 .. m - 1,
         (w - t) % m = 1
  PROVE  (((t + 1) % m) - w) % m = 0
<1>1. CASE t < w
  <2>1. w = t + 1 /\ (t + 1) % m = t + 1
    BY <1>1, SMT
  <2> QED
    BY <2>1, SMT
<1>2. CASE w < t
  <2>1. (w - t) % m = w - t + m
    BY <1>2, SMT
  <2>2. w = 0 /\ t + 1 = m
    BY <1>2, <2>1, SMT
  <2>3. (t + 1) % m = 0
    BY <2>2, SMT
  <2> QED
    BY <2>2, <2>3, SMT
<1>3. CASE w = t
  BY <1>3, SMT
<1> QED
  BY <1>1, <1>2, <1>3, SMT

LEMMA LateIsDue ==
  ASSUME IInv, Lateness, NEW f \in Fibre, state[f] = "SLEEPING", toSleep[f] = 0
  PROVE  Due(f)
<1>1. /\ TickMod \in Nat \ {0} /\ MaxGap \in Nat /\ 2 * MaxGap < TickMod
      /\ wakeTick[f] \in 0 .. TickMod - 1 /\ ticks \in 0 .. TickMod - 1 /\ gap \in 0 .. MaxGap
  BY TickModAssumption, SMT DEF IInv, TypeOK
<1>2. (ticks - wakeTick[f]) % TickMod <= gap
  BY DEF Lateness
<1>3. gap \in Nat /\ 2 * gap < TickMod
  BY <1>1, SMT
<1>4. \/ (wakeTick[f] - ticks) % TickMod = 0
      \/ 2 * ((wakeTick[f] - ticks) % TickMod) >= TickMod
  BY <1>1, <1>2, <1>3, LateLooksNegative
<1> QED
  BY <1>4 DEF Due

LEMMA WakesAll ==
  ASSUME IInv, Lateness, Schedule, NEW f \in Fibre, state[f] = "SLEEPING", toSleep[f] = 0
  PROVE  state'[f] # "SLEEPING"
<1>1. Woken[f] = "READY" /\ f \in DOMAIN Woken
  BY LateIsDue DEF Woken
<1>2. state' = [Woken EXCEPT ![NextReady(Woken)] = "RUNNING"]
  BY DEF Schedule, Run
<1> QED
  BY <1>1, <1>2

LEMMA TickLateness ==
  ASSUME IInv, Lateness, Tick
  PROVE  Lateness'
<1> USE DEF IInv, Tick, schedVars
<1>1. TickMod \in Nat \ {0} /\ ticks \in 0 .. TickMod - 1 /\ gap \in Nat
  BY TickModAssumption, SMT DEF TypeOK
<1>2. SUFFICES ASSUME NEW f \in Fibre, state[f] = "SLEEPING", toSleep'[f] = 0
               PROVE  (((ticks + 1) % TickMod) - wakeTick[f]) % TickMod <= gap + 1
  BY DEF Lateness
<1>3. wakeTick[f] \in 0 .. TickMod - 1 /\ toSleep[f] \in Nat
  BY TickModAssumption, SMT DEF TypeOK
<1>4. /\ (((ticks + 1) % TickMod) - wakeTick[f]) % TickMod
             <= ((ticks - wakeTick[f]) % TickMod) + 1
      /\ (ticks - wakeTick[f]) % TickMod \in Int
      /\ (((ticks + 1) % TickMod) - wakeTick[f]) % TickMod \in Int
  <2>1. ticks - wakeTick[f] \in Int /\ (ticks + 1) % TickMod \in Int
    BY <1>1, <1>3, SMT
  <2>2. ((ticks + 1) % TickMod) - wakeTick[f] \in Int
    BY <1>3, <2>1, SMT
  <2>3. /\ (ticks - wakeTick[f]) % TickMod \in 0 .. TickMod - 1
        /\ (((ticks + 1) % TickMod) - wakeTick[f]) % TickMod \in 0 .. TickMod - 1
    BY <1>1, <2>1, <2>2, ModType
  <2>4. (((ticks + 1) % TickMod) - wakeTick[f]) % TickMod
             <= ((ticks - wakeTick[f]) % TickMod) + 1
    BY <1>1, <1>3, OneTickMore
  <2>5. 0 .. TickMod - 1 \subseteq Int
    BY <1>1, SMT
  <2> QED
    BY <2>3, <2>4, <2>5
<1>5. CASE toSleep[f] = 0
  <2>1. (ticks - wakeTick[f]) % TickMod <= gap
    BY <1>2, <1>5 DEF Lateness
  <2> QED
    BY <1>1, <1>4, <2>1, SMT
<1>6. CASE toSleep[f] > 0
  <2>1. toSleep[f] = 1
    BY <1>2, <1>3, <1>6, SMT
  <2>2. (wakeTick[f] - ticks) % TickMod = 1
    BY <1>2, <2>1 DEF TimeLeft
  <2>3. (((ticks + 1) % TickMod) - wakeTick[f]) % TickMod = 0
    BY <1>1, <1>3, <2>2, NowDue
  <2> QED
    BY <1>1, <2>3, SMT
<1> QED
  BY <1>3, <1>5, <1>6, SMT

LEMMA StepLateness == IInv /\ Lateness /\ [Next]_vars => Lateness'
<1> SUFFICES ASSUME IInv, Lateness, [Next]_vars PROVE Lateness'
  OBVIOUS
<1>1. CASE \E f \in Fibre : Create(f)
  BY <1>1 DEF Create, Lateness, IInv, TypeOK
<1>2. CASE Start
  BY <1>2 DEF Start, Lateness
<1>3. CASE Schedule
  <2>1. ASSUME NEW f \in Fibre, state'[f] = "SLEEPING" PROVE state[f] = "SLEEPING"
    BY <1>3, <2>1 DEF Schedule, Run, Woken
  <2> QED
    BY <1>3, <2>1, WakesAll DEF Schedule, Lateness
<1>4. CASE GiveUp
  <2> SUFFICES ASSUME NEW f \in Fibre, state'[f] = "SLEEPING", toSleep'[f] = 0
               PROVE  (ticks - wakeTick'[f]) % TickMod <= gap
    BY <1>4 DEF GiveUp, Yield, Return, Sleep, Lateness
  <2>1. f # current
    BY <1>4, TickModAssumption, SMT DEF GiveUp, Yield, Return, Sleep, IInv, TypeOK
  <2>2. state'[f] = state[f] /\ toSleep'[f] = toSleep[f] /\ wakeTick'[f] = wakeTick[f]
    BY <1>4, <2>1 DEF GiveUp, Yield, Return, Sleep, IInv, TypeOK
  <2> QED
    BY <2>2 DEF Lateness
<1>5. CASE Tick
  BY <1>5, TickLateness
<1>6. CASE UNCHANGED vars
  BY <1>6 DEF vars, schedVars, Lateness
<1> QED
  BY <1>1, <1>2, <1>3, <1>4, <1>5, <1>6 DEF Next

(* find_next_ready wakes every fibre whose ticks have passed, at the next  *)
(* turn of the loop and across the wrap of the counter, as long as the     *)
(* loop is never away for half the counter's range.                        *)
THEOREM WakesInTime == Safety => WokenInTime
<1>1. Init => Lateness
  BY DEF Init, Lateness
<1>2. Safety => []Lateness
  BY <1>1, StepLateness, Invariance, PTL DEF Safety
<1>3. IInv /\ Lateness /\ [Next]_vars =>
        [Schedule => \A f \in Fibre : state[f] = "SLEEPING" /\ toSleep[f] = 0
                                        => state'[f] # "SLEEPING"]_vars
  BY WakesAll
<1> QED
  BY <1>2, <1>3, Invariance, PTL DEF Safety, WokenInTime

=============================================================================

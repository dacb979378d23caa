------------------------- MODULE LevelControlProofs -------------------------
(***************************************************************************)
(* Proofs of the properties of LevelControl, for any devices and any       *)
(* number typed.                                                           *)
(***************************************************************************)
EXTENDS LevelControl, TLAPS

(* What is shown of a lamp that was last sent p per cent. *)
ShownFor(d, p) == QuirkValue(d, "light.level", Percent(ZclLevel(p)))

(* A percentage that is shown and sent back settles after two rounds: the  *)
(* first may lose one to rounding, the second one more, a third none.      *)
Settling(d, p) == {p, ShownFor(d, p), ShownFor(d, ShownFor(d, p))}

SettleInv ==
  AskedPercent =>
    \E p \in Settling(device, asked) :
      level = ZclLevel(p) /\ shown \in {Nothing, ShownFor(device, p)}

-----------------------------------------------------------------------------
(* A device with one action: a report is changed by it if it is of the     *)
(* action's capability.  (The fold over a sequence of one.)                *)
LEMMA ReportOfOne ==
  ASSUME NEW d, NEW cap, NEW v, NEW a,
         Matching(d) # {}, QuirksFind(d).actions = <<a>>
  PROVE  QuirkValue(d, cap, v) = IF a.cap = cap THEN OnReport(v, a) ELSE v
<1> DEFINE acts == QuirksFind(d).actions
           Step(w, x) == IF acts[x].cap = cap THEN OnReport(w, acts[x]) ELSE w
           Folds(g) == g = [s \in SUBSET DOMAIN acts |->
                              IF s = {} THEN v ELSE LET x == Max(s) IN Step(g[s \ {x}], x)]
           fold == CHOOSE g : Folds(g)
           one == [s \in SUBSET DOMAIN acts |-> IF s = {} THEN v ELSE Step(v, 1)]
<1>1. QuirkValue(d, cap, v) = fold[DOMAIN acts]
  BY Zenon DEF QuirkValue, FoldLeft, MapThenFoldSet
<1>2. DOMAIN acts = {1} /\ acts[1] = a
  OBVIOUS
<1>3. Step(v, 1) = IF a.cap = cap THEN OnReport(v, a) ELSE v
  BY Zenon, <1>2
<1> HIDE DEF Step, acts
<1>4. ASSUME NEW s \in SUBSET {1}, s # {}
      PROVE  Max(s) = 1 /\ s \ {Max(s)} = {}
  <2>1. s = {1}
    BY <1>4
  <2>2. Max(s) = 1
    BY <2>1 DEF Max
  <2> QED
    BY <2>1, <2>2
<1>5. Folds(one)
  <2>1. one[{}] = v
    BY <1>2
  <2>2. ASSUME NEW s \in SUBSET DOMAIN acts
        PROVE  one[s] = IF s = {} THEN v ELSE LET x == Max(s) IN Step(one[s \ {x}], x)
    BY <1>2, <1>4, <2>1
  <2> QED
    BY <2>2
<1>6. Folds(fold)
  BY <1>5
<1> HIDE DEF fold
<1>7. fold[{}] = v /\ fold[{1}] = Step(v, 1)
  <2>1. fold[{}] = v
    BY <1>2, <1>6
  <2>2. fold[{1}] = LET x == Max({1}) IN Step(fold[{1} \ {x}], x)
    BY <1>2, <1>6
  <2> QED
    BY <1>4, <2>1, <2>2
<1> QED
  BY Zenon, <1>1, <1>2, <1>3, <1>7

(* A device with one action: a command is changed by it if it is of the    *)
(* action's capability.  (The fold over a sequence of one.)                *)
LEMMA CommandOfOne ==
  ASSUME NEW d, NEW cap, NEW v, NEW a,
         Matching(d) # {}, QuirksFind(d).actions = <<a>>
  PROVE  QuirkCommand(d, cap, v) = IF a.cap = cap THEN OnCommand(v, a) ELSE v
<1> DEFINE acts == QuirksFind(d).actions
           Step(w, x) == IF acts[x].cap = cap THEN OnCommand(w, acts[x]) ELSE w
           Folds(g) == g = [s \in SUBSET DOMAIN acts |->
                              IF s = {} THEN v ELSE LET x == Max(s) IN Step(g[s \ {x}], x)]
           fold == CHOOSE g : Folds(g)
           one == [s \in SUBSET DOMAIN acts |-> IF s = {} THEN v ELSE Step(v, 1)]
<1>1. QuirkCommand(d, cap, v) = fold[DOMAIN acts]
  BY Zenon DEF QuirkCommand, FoldLeft, MapThenFoldSet
<1>2. DOMAIN acts = {1} /\ acts[1] = a
  OBVIOUS
<1>3. Step(v, 1) = IF a.cap = cap THEN OnCommand(v, a) ELSE v
  BY Zenon, <1>2
<1> HIDE DEF Step, acts
<1>4. ASSUME NEW s \in SUBSET {1}, s # {}
      PROVE  Max(s) = 1 /\ s \ {Max(s)} = {}
  <2>1. s = {1}
    BY <1>4
  <2>2. Max(s) = 1
    BY <2>1 DEF Max
  <2> QED
    BY <2>1, <2>2
<1>5. Folds(one)
  <2>1. one[{}] = v
    BY <1>2
  <2>2. ASSUME NEW s \in SUBSET DOMAIN acts
        PROVE  one[s] = IF s = {} THEN v ELSE LET x == Max(s) IN Step(one[s \ {x}], x)
    BY <1>2, <1>4, <2>1
  <2> QED
    BY <2>2
<1>6. Folds(fold)
  BY <1>5
<1> HIDE DEF fold
<1>7. fold[{}] = v /\ fold[{1}] = Step(v, 1)
  <2>1. fold[{}] = v
    BY <1>2, <1>6
  <2>2. fold[{1}] = LET x == Max({1}) IN Step(fold[{1} \ {x}], x)
    BY <1>2, <1>6
  <2> QED
    BY <1>4, <2>1, <2>2
<1> QED
  BY Zenon, <1>1, <1>2, <1>3, <1>7

(* Every entry of the table has one action.                                *)
TableActions ==
  {Clamp("light.level", 1, 100), Invert("sensor.contact"), Scale("sensor.temperature", Tenth)}

LEMMA FourOf ==
  ASSUME NEW a, NEW b, NEW c, NEW d
  PROVE  /\ DOMAIN <<a, b, c, d>> = 1 .. 4
         /\ <<a, b, c, d>>[1] = a /\ <<a, b, c, d>>[2] = b
         /\ <<a, b, c, d>>[3] = c /\ <<a, b, c, d>>[4] = d
OBVIOUS

LEMMA OneAction ==
  ASSUME NEW d, Matching(d) # {}
  PROVE  \E a \in TableActions : QuirksFind(d).actions = <<a>>
<1>0. DOMAIN QuirksTable = 1 .. 4
  <2>1. \E a, b, c, e : QuirksTable = <<a, b, c, e>>
    BY Zenon DEF QuirksTable
  <2> QED
    BY <2>1, FourOf
<1>1. Matching(d) \subseteq 1 .. 4
  BY <1>0 DEF Matching
<1>2. \E i \in Matching(d) : \A j \in Matching(d) : i <= j
  BY <1>1, SMT
<1> DEFINE first == CHOOSE i \in Matching(d) : \A j \in Matching(d) : i <= j
<1>3. first \in 1 .. 4
  BY <1>1, <1>2
<1> HIDE DEF first
<1>4. \A i \in 1 .. 4 : \E a \in TableActions : QuirksTable[i].actions = <<a>>
  <2>1. QuirksTable[1].actions = << Clamp("light.level", 1, 100) >>
    BY FourOf, Zenon DEF QuirksTable, Entry
  <2>2. QuirksTable[2].actions = << Clamp("light.level", 1, 100) >>
    BY FourOf, Zenon DEF QuirksTable, Entry
  <2>3. QuirksTable[3].actions = << Invert("sensor.contact") >>
    BY FourOf, Zenon DEF QuirksTable, Entry
  <2>4. QuirksTable[4].actions = << Scale("sensor.temperature", Tenth) >>
    BY FourOf, Zenon DEF QuirksTable, Entry
  <2> QED
    BY <2>1, <2>2, <2>3, <2>4 DEF TableActions
<1> QED
  BY <1>3, <1>4 DEF QuirksFind, first

(* A quirk of a capability is one action, in both directions, or none.     *)
LEMMA QuirkIs ==
  ASSUME NEW d, NEW cap
  PROVE  \/ \A v : QuirkValue(d, cap, v) = v /\ QuirkCommand(d, cap, v) = v
         \/ \E a \in TableActions :
              /\ a.cap = cap
              /\ \A v : /\ QuirkValue(d, cap, v) = OnReport(v, a)
                        /\ QuirkCommand(d, cap, v) = OnCommand(v, a)
<1>1. CASE Matching(d) = {}
  BY Zenon, <1>1 DEF QuirkValue, QuirkCommand
<1>2. CASE Matching(d) # {}
  <2>1. PICK a \in TableActions : QuirksFind(d).actions = <<a>>
    BY <1>2, OneAction
  <2>2. ASSUME NEW v
        PROVE  /\ QuirkValue(d, cap, v) = IF a.cap = cap THEN OnReport(v, a) ELSE v
               /\ QuirkCommand(d, cap, v) = IF a.cap = cap THEN OnCommand(v, a) ELSE v
    <3>1. QuirkValue(d, cap, v) = IF a.cap = cap THEN OnReport(v, a) ELSE v
      BY <1>2, <2>1, ReportOfOne
    <3>2. QuirkCommand(d, cap, v) = IF a.cap = cap THEN OnCommand(v, a) ELSE v
      BY <1>2, <2>1, CommandOfOne
    <3> QED
      BY <3>1, <3>2
  <2>3. CASE a.cap = cap
    BY Zenon, <2>2, <2>3
  <2>4. CASE a.cap # cap
    BY Zenon, <2>2, <2>4
  <2> QED
    BY <2>3, <2>4
<1> QED
  BY <1>1, <1>2

(* A lamp's level is left alone, or kept within 1 to 100 in both           *)
(* directions.                                                             *)
Bounded(v) == IF v < 1 THEN 1 ELSE IF v > 100 THEN 100 ELSE v

LEMMA LevelQuirk ==
  ASSUME NEW d
  PROVE  \/ \A v : QuirkValue(d, "light.level", v) = v /\ QuirkCommand(d, "light.level", v) = v
         \/ \A v : /\ QuirkValue(d, "light.level", v) = Bounded(v)
                   /\ QuirkCommand(d, "light.level", v) = Bounded(v)
<1>1. ASSUME NEW a \in TableActions, a.cap = "light.level", NEW v
      PROVE  OnReport(v, a) = Bounded(v) /\ OnCommand(v, a) = Bounded(v)
  <2>1. a = Clamp("light.level", 1, 100)
    BY <1>1 DEF TableActions, Clamp, Invert, Scale
  <2> QED
    BY <2>1 DEF OnReport, OnCommand, Clamped, Clamp, Bounded
<1> QED
  BY <1>1, QuirkIs

-----------------------------------------------------------------------------
(* The two conversions, one after the other, keep a percentage or lose one *)
(* of it, and after two rounds they lose nothing more.                     *)
Round(p) == Percent(ZclLevel(p))

LEMMA RoundLoses ==
  ASSUME NEW p \in 0 .. 100
  PROVE  /\ Round(p) \in {p, p - 1} /\ Round(p) \in 0 .. 100
         /\ p >= 1 => Round(p) >= 1 /\ ZclLevel(p) >= 1
BY DEF Round, Percent, ZclLevel

LEMMA RoundSettles ==
  ASSUME NEW p \in 0 .. 100
  PROVE  Round(Round(Round(p))) = Round(Round(p))
BY DEF Round, Percent, ZclLevel

LEMMA ShownIs ==
  ASSUME NEW d
  PROVE  \/ \A p \in 0 .. 100 : ShownFor(d, p) = Round(p) /\ QuirkCommand(d, "light.level", p) = p
         \/ \A p \in 0 .. 100 : /\ ShownFor(d, p) = IF p = 0 THEN 1 ELSE Round(p)
                                /\ QuirkCommand(d, "light.level", p) = IF p = 0 THEN 1 ELSE p
<1>1. Round(0) = 0
  BY DEF Round, Percent, ZclLevel
<1>2. \A p \in 0 .. 100 : Bounded(p) = IF p = 0 THEN 1 ELSE p
  BY DEF Bounded
<1>3. \A p \in 0 .. 100 : Round(p) \in 0 .. 100 /\ (Round(p) = 0 => p = 0)
  BY RoundLoses
<1>4. \A p : ShownFor(d, p) = QuirkValue(d, "light.level", Round(p))
  BY DEF ShownFor, Round
<1>5. CASE \A v : /\ QuirkValue(d, "light.level", v) = v
                  /\ QuirkCommand(d, "light.level", v) = v
  BY <1>4, <1>5
<1>6. CASE \A v : /\ QuirkValue(d, "light.level", v) = Bounded(v)
                  /\ QuirkCommand(d, "light.level", v) = Bounded(v)
  <2>1. ASSUME NEW p \in 0 .. 100
        PROVE  ShownFor(d, p) = IF p = 0 THEN 1 ELSE Round(p)
    <3>1. ShownFor(d, p) = Bounded(Round(p))
      BY <1>4, <1>6
    <3>2. Round(p) \in 0 .. 100 /\ (Round(p) = 0 <=> p = 0)
      BY <1>1, <1>3
    <3> QED
      BY <1>2, <3>1, <3>2
  <2> QED
    BY <1>2, <1>6, <2>1
<1> QED
  BY <1>5, <1>6, LevelQuirk

(* What is shown is a percentage that a command leaves as it is, at most   *)
(* two below what is wanted, and from the second round on it stays.        *)
LEMMA ShownSettles ==
  ASSUME NEW d, NEW p \in 0 .. 100
  PROVE  /\ Settling(d, p) \subseteq 0 .. 100
         /\ \A q \in Settling(d, p) :
              /\ ShownFor(d, q) \in Settling(d, p)
              /\ ShownFor(d, q) \in QuirkCommand(d, "light.level", p) - 2
                                      .. QuirkCommand(d, "light.level", p)
              /\ QuirkCommand(d, "light.level", ShownFor(d, q)) = ShownFor(d, q)
              /\ p >= 1 => q >= 1
<1> DEFINE S(q) == ShownFor(d, q)
           C(q) == QuirkCommand(d, "light.level", q)
<1>1. \/ \A q \in 0 .. 100 : S(q) = Round(q) /\ C(q) = q
      \/ \A q \in 0 .. 100 : /\ S(q) = IF q = 0 THEN 1 ELSE Round(q)
                             /\ C(q) = IF q = 0 THEN 1 ELSE q
  BY ShownIs
<1>2. Settling(d, p) = {p, S(p), S(S(p))}
  BY DEF Settling
<1> HIDE DEF S, C
<1>3. \A q \in 0 .. 100 : /\ Round(q) \in {q, q - 1} /\ Round(q) \in 0 .. 100
                          /\ q >= 1 => Round(q) >= 1
  BY RoundLoses
<1>4. ASSUME NEW q \in 0 .. 100
      PROVE  /\ S(q) \in 0 .. 100 /\ C(S(q)) = S(q) /\ (q >= 1 => S(q) >= 1)
             /\ S(q) \in C(q) - 1 .. C(q)
             /\ C(q) \in 0 .. 100
  BY <1>1, <1>3
<1>5. S(S(S(p))) = S(S(p))
  <2>1. Round(1) = 1
    BY DEF Round, Percent, ZclLevel
  <2> QED
    BY <1>1, <1>3, <2>1, RoundSettles
<1>6. S(p) \in 0 .. 100 /\ S(S(p)) \in 0 .. 100
  BY <1>4
<1>7. S(S(p)) \in S(p) - 1 .. S(p) /\ S(p) \in C(p) - 1 .. C(p)
  BY <1>4, <1>6
<1>8. S(p) \in C(p) - 2 .. C(p) /\ S(S(p)) \in C(p) - 2 .. C(p)
  <2>1. ASSUME NEW a \in 0 .. 100, NEW b \in 0 .. 100, NEW c \in 0 .. 100,
               a \in b - 1 .. b, b \in c - 1 .. c
        PROVE  b \in c - 2 .. c /\ a \in c - 2 .. c
    BY <2>1
  <2> QED
    BY <1>4, <1>6, <1>7, <2>1
<1> QED
  <2>1. {p, S(p), S(S(p))} \subseteq 0 .. 100
    BY <1>6
  <2>2. ASSUME NEW q \in {p, S(p), S(S(p))}
        PROVE  /\ S(q) \in {p, S(p), S(S(p))}
               /\ S(q) \in C(p) - 2 .. C(p)
               /\ C(S(q)) = S(q)
               /\ p >= 1 => q >= 1
    BY <1>4, <1>5, <1>6, <1>8
  <2> QED
    BY <1>2, <2>1, <2>2 DEF S, C

-----------------------------------------------------------------------------
LEMMA InitSettle == Init => SettleInv
BY DEF Init, SettleInv, AskedPercent

LEMMA StepSettle == SettleInv /\ [Next]_vars => SettleInv'
<1> SUFFICES ASSUME SettleInv, [Next]_vars, AskedPercent'
             PROVE  \E p \in Settling(device', asked') :
                      level' = ZclLevel(p) /\ shown' \in {Nothing, ShownFor(device', p)}
  BY DEF SettleInv
<1> DEFINE Follows(p) == level = ZclLevel(p) /\ shown \in {Nothing, ShownFor(device, p)}
<1>1. CASE Report \/ SendBack \/ UNCHANGED vars
  <2>0. AskedPercent /\ asked' = asked /\ device' = device
    BY <1>1 DEF AskedPercent, Report, SendBack, vars
  <2>1. PICK p \in Settling(device, asked) : Follows(p)
    BY <2>0 DEF SettleInv
  <2>2. CASE Report
    BY <2>0, <2>1, <2>2 DEF Report, ShownFor
  <2>3. CASE SendBack
    <3>1. shown = ShownFor(device, p) /\ shown \in Settling(device, asked)
      BY <2>0, <2>1, <2>3, ShownSettles DEF SendBack, AskedPercent
    <3>2. level' = ZclLevel(shown) /\ shown' = Nothing
      BY <2>0, <2>1, <2>3, <3>1, ShownSettles DEF SendBack, AskedPercent
    <3> QED
      BY <2>0, <3>1, <3>2
  <2>4. CASE UNCHANGED vars
    BY <2>0, <2>1, <2>4 DEF vars
  <2> QED
    BY <1>1, <2>2, <2>3, <2>4
<1>2. ASSUME NEW n \in 0 .. MaxTyped, TypeLevel(n)
      PROVE  \E p \in Settling(device', asked') :
               level' = ZclLevel(p) /\ shown' \in {Nothing, ShownFor(device', p)}
  <2>1. n \in 0 .. 100 /\ asked' = n
    BY <1>2 DEF TypeLevel, AskedPercent
  <2>2. level' = ZclLevel(n) /\ shown' = Nothing
    BY <1>2, <2>1 DEF TypeLevel, ShellLevel
  <2> QED
    BY <2>1, <2>2 DEF Settling
<1>3. ASSUME NEW l \in Level, Dim(l) PROVE FALSE
  BY <1>3 DEF Dim, AskedPercent
<1> QED
  BY <1>1, <1>2, <1>3 DEF Next

(* Every round trip of a percentage typed has settled as it should. *)
THEOREM Invariance == Spec => []SettleInv
BY InitSettle, StepSettle, PTL DEF Spec

(* zba_send_level and cap_handle_attribute_report, each sending on what    *)
(* the other made of it: two per cent at most are lost, of any percentage, *)
(* after any number of rounds, with any quirk of the table.                *)
THEOREM LevelCorrect == Spec => []LevelHolds
<1>1. SettleInv => LevelHolds
  <2> SUFFICES ASSUME SettleInv, AskedPercent, shown # Nothing
               PROVE  shown \in QuirkCommand(device, "light.level", asked) - 2
                                  .. QuirkCommand(device, "light.level", asked)
    BY Zenon DEF LevelHolds
  <2>1. PICK p \in Settling(device, asked) : shown \in {Nothing, ShownFor(device, p)}
    BY DEF SettleInv
  <2>2. asked \in 0 .. 100 /\ shown = ShownFor(device, p)
    BY <2>1 DEF AskedPercent
  <2> QED
    BY <2>1, <2>2, ShownSettles
<1> QED
  BY <1>1, Invariance, PTL

(* No number of rounds turns off a lamp that was asked for some light.     *)
THEOREM LitCorrect == Spec => []StaysLit
<1>1. SettleInv => StaysLit
  <2> SUFFICES ASSUME SettleInv, AskedPercent, asked > 0 PROVE level > 0
    BY DEF StaysLit
  <2>1. asked \in 0 .. 100 /\ asked >= 1
    BY DEF AskedPercent
  <2>2. PICK p \in Settling(device, asked) : level = ZclLevel(p)
    BY DEF SettleInv
  <2>3. p \in 0 .. 100 /\ p >= 1
    BY <2>1, <2>2, ShownSettles
  <2>4. ZclLevel(p) \in Int /\ ZclLevel(p) >= 1
    BY <2>3, RoundLoses DEF ZclLevel
  <2> QED
    BY <2>2, <2>4
<1> QED
  BY <1>1, Invariance, PTL

(* quirks_apply_command undoes quirks_apply_value of every switch, contact *)
(* and level, for any device: a command that says what is shown is shown   *)
(* again, and gives the device back its own value unless a 0 was raised to *)
(* 1.  (The temperature's quirk is one of floats, which TLC checks.)       *)
THEOREM UndoCorrect ==
  ASSUME NEW d, NEW cap \in {"sensor.contact", "light.on", "light.level"},
         NEW v \in Reportable[cap]
  PROVE  Undone(d, cap, v)
<1> DEFINE s == QuirkValue(d, cap, v)
           c == QuirkCommand(d, cap, s)
<1>1. /\ cap # "light.level" => v \in BOOLEAN
      /\ cap = "light.level" => v \in 0 .. 100
  <2>1. \A l \in Level : Percent(l) \in 0 .. 100
    BY DEF Level, Percent
  <2> QED
    BY <2>1 DEF Reportable
<1>2. /\ cap # "light.level" => c = v
      /\ cap = "light.level" => c = v \/ (v = 0 /\ c = 1)
      /\ QuirkValue(d, cap, c) = s
  <2>1. CASE \A w : QuirkValue(d, cap, w) = w /\ QuirkCommand(d, cap, w) = w
    BY <2>1
  <2>2. ASSUME NEW a \in TableActions, a.cap = cap,
               \A w : /\ QuirkValue(d, cap, w) = OnReport(w, a)
                      /\ QuirkCommand(d, cap, w) = OnCommand(w, a)
        PROVE  /\ cap # "light.level" => c = v
               /\ cap = "light.level" => c = v \/ (v = 0 /\ c = 1)
               /\ QuirkValue(d, cap, c) = s
    <3>1. CASE a = Clamp("light.level", 1, 100)
      <4>1. cap = "light.level" /\ v \in 0 .. 100
        BY <1>1, <2>2, <3>1 DEF Clamp
      <4>2. \A w : OnReport(w, a) = Bounded(w) /\ OnCommand(w, a) = Bounded(w)
        BY <3>1 DEF OnReport, OnCommand, Clamped, Clamp, Bounded
      <4>3. /\ Bounded(Bounded(v)) = v \/ (v = 0 /\ Bounded(Bounded(v)) = 1)
            /\ Bounded(Bounded(Bounded(v))) = Bounded(v)
        BY <4>1 DEF Bounded
      <4> QED
        BY <2>2, <4>1, <4>2, <4>3
    <3>2. CASE a = Invert("sensor.contact")
      <4>1. cap = "sensor.contact" /\ v \in BOOLEAN
        BY <1>1, <2>2, <3>2, Zenon DEF Invert
      <4>2. a.type = "invert_boolean"
        BY <3>2 DEF Invert
      <4>3. ASSUME NEW w PROVE OnReport(w, a) = ~w /\ OnCommand(w, a) = ~w
        BY <4>2, Zenon DEF OnReport, OnCommand
      <4>4. s = ~v /\ c = ~s
        BY Zenon, <2>2, <4>3
      <4>5. c = v
        BY <4>1, <4>4
      <4> QED
        BY Zenon, <4>1, <4>5
    <3>3. CASE a = Scale("sensor.temperature", Tenth)
      BY <2>2, <3>3 DEF Scale
    <3> QED
      BY <2>2, <3>1, <3>2, <3>3 DEF TableActions
  <2> QED
    BY <2>1, <2>2, QuirkIs
<1> QED
  BY <1>2, Zenon DEF Undone, Same

=============================================================================

-------------------------- MODULE CapabilityProofs --------------------------
(***************************************************************************)
(* Proofs of the safety properties of Capability, for any devices and      *)
(* what they offer, any values, and tables, cache and bus of any size.     *)
(***************************************************************************)
EXTENDS Capability, FiniteSetTheorems, SequenceTheorems, TLAPS

Safety == Init /\ [][Next]_vars

Entries == UNION {[addr : Addr, caps : [C -> Known]] : C \in SUBSET Caps}
Events  == {Other} \union [kind : {"state"}, topic : Topics, val : Known]

(* What emitting an event, or a report, changes.                           *)
States == [cache : Seq(Entries), bus : Seq(Events), missed : SUBSET Topics]

Fits(s) == Len(s.cache) <= MaxCache /\ Len(s.bus) <= BusSize

Unique(c) == \A i, j \in DOMAIN c : c[i].addr = c[j].addr => i = j

(* The newest of the values of a topic that are on their way, or the one   *)
(* that the broker shows when none is, is v.                               *)
WaitingIn(q, topic) == {k \in DOMAIN q : q[k].kind = "state" /\ q[k].topic = topic}

Shows(q, b, topic, v) ==
  /\ WaitingIn(q, topic) = {} => b[topic] = v
  /\ \A k \in WaitingIn(q, topic) :
       (\A j \in WaitingIn(q, topic) : j <= k) => q[k].val = v

(* ... and it is what the cache says, of all topics that are not missed.   *)
Latest(s, b) ==
  \A i \in DOMAIN s.cache : \A cap \in DOMAIN s.cache[i].caps :
    /\ s.cache[i].caps[cap] # NoValue
    /\ <<s.cache[i].addr, cap>> \notin s.missed
    => Shows(s.bus, b, <<s.cache[i].addr, cap>>, s.cache[i].caps[cap])

Good(s, b) == s \in States /\ Fits(s) /\ Unique(s.cache) /\ Latest(s, b)

-----------------------------------------------------------------------------
(* The queue of events, and what it and the broker show together.          *)

LEMMA SizesArePositive ==
  /\ MaxNodes \in Nat \ {0} /\ MaxEndpoints \in Nat \ {0}
  /\ MaxCache \in Nat \ {0} /\ BusSize \in Nat \ {0}
  /\ MaxClusters \in Nat \ {0, 1} /\ MaxNodeCaps \in Nat \ {0, 1}
BY SizesAssumption

LEMMA EventIs ==
  ASSUME NEW e \in Events
  PROVE  /\ e.kind = "state" => e.topic \in Topics /\ e.val \in Known
         /\ e.kind = "state" <=> e # Other
         /\ TopicOf(e) = IF e.kind = "state" THEN {e.topic} ELSE {}
         /\ TopicOf(e) \subseteq Topics
<1>1. CASE e = Other
  BY <1>1 DEF Other, TopicOf
<1>2. CASE e \in [kind : {"state"}, topic : Topics, val : Known]
  BY <1>2 DEF Other, TopicOf
<1> QED
  BY <1>1, <1>2 DEF Events

(* A new event of a topic is the one that counts.                          *)
LEMMA AppendShows ==
  ASSUME NEW q \in Seq(Events), NEW b, NEW e \in Events, e.kind = "state"
  PROVE  Shows(Append(q, e), b, e.topic, e.val)
<1> DEFINE n == Len(q) + 1
<1>1. /\ Len(q) \in Nat /\ DOMAIN Append(q, e) = 1 .. n
      /\ Append(q, e)[n] = e
  BY AppendProperties, LenProperties
<1>2. n \in WaitingIn(Append(q, e), e.topic)
  BY <1>1 DEF WaitingIn
<1>3. \A k \in WaitingIn(Append(q, e), e.topic) :
        (\A j \in WaitingIn(Append(q, e), e.topic) : j <= k) => k = n
  BY <1>1, <1>2 DEF WaitingIn
<1> QED
  BY <1>1, <1>2, <1>3 DEF Shows

(* An event of another kind or topic changes nothing.                      *)
LEMMA AppendOtherWaiting ==
  ASSUME NEW q \in Seq(Events), NEW e \in Events, NEW topic, topic \notin TopicOf(e)
  PROVE  /\ WaitingIn(Append(q, e), topic) = WaitingIn(q, topic)
         /\ \A k \in WaitingIn(q, topic) : Append(q, e)[k] = q[k]
<1>1. /\ Len(q) \in Nat /\ DOMAIN Append(q, e) = 1 .. Len(q) + 1
      /\ DOMAIN q = 1 .. Len(q)
      /\ Append(q, e)[Len(q) + 1] = e
      /\ \A k \in 1 .. Len(q) : Append(q, e)[k] = q[k]
  BY AppendProperties, LenProperties
<1>2. ~(e.kind = "state" /\ e.topic = topic)
  BY EventIs
<1>3. WaitingIn(Append(q, e), topic) = WaitingIn(q, topic)
  BY <1>1, <1>2 DEF WaitingIn
<1>4. \A k \in WaitingIn(q, topic) : Append(q, e)[k] = q[k]
  BY <1>1 DEF WaitingIn
<1> QED
  BY <1>3, <1>4

LEMMA AppendOtherShows ==
  ASSUME NEW q \in Seq(Events), NEW b, NEW e \in Events,
         NEW topic, topic \notin TopicOf(e), NEW v, Shows(q, b, topic, v)
  PROVE  Shows(Append(q, e), b, topic, v)
<1>1. /\ WaitingIn(Append(q, e), topic) = WaitingIn(q, topic)
      /\ \A k \in WaitingIn(q, topic) : Append(q, e)[k] = q[k]
  BY AppendOtherWaiting
<1> QED
  BY <1>1 DEF Shows

(* What the dispatcher leaves of a topic's events.                         *)
LEMMA TailWaiting ==
  ASSUME NEW q \in Seq(Events), q # << >>, NEW topic
  PROVE  /\ WaitingIn(Tail(q), topic) = {k \in 1 .. Len(q) - 1 : k + 1 \in WaitingIn(q, topic)}
         /\ \A k \in WaitingIn(Tail(q), topic) : Tail(q)[k] = q[k + 1]
         /\ 1 \in WaitingIn(q, topic) <=> Head(q).kind = "state" /\ Head(q).topic = topic
         /\ Head(q) = q[1] /\ 1 \in DOMAIN q /\ DOMAIN q = 1 .. Len(q) /\ Len(q) \in Nat
<1>1. /\ Len(q) \in Nat /\ DOMAIN q = 1 .. Len(q) /\ Len(q) # 0
      /\ Tail(q) \in Seq(Events) /\ Len(Tail(q)) = Len(q) - 1
      /\ \A i \in 1 .. Len(Tail(q)) : Tail(q)[i] = q[i + 1]
  BY HeadTailProperties, LenProperties, EmptySeq
<1>2. DOMAIN Tail(q) = 1 .. Len(q) - 1
  BY <1>1, LenProperties
<1>3. Head(q) = q[1]
  BY <1>1
<1> QED
  BY <1>1, <1>2, <1>3 DEF WaitingIn

LEMMA TailOtherShows ==
  ASSUME NEW q \in Seq(Events), q # << >>, NEW topic, NEW v, NEW b, NEW d,
         Shows(q, b, topic, v),
         d[topic] = b[topic] \/ 1 \in WaitingIn(q, topic),
         WaitingIn(q, topic) # {1}
  PROVE  Shows(Tail(q), d, topic, v)
<1> DEFINE W == WaitingIn(q, topic)
           T == WaitingIn(Tail(q), topic)
<1>1. /\ T = {k \in 1 .. Len(q) - 1 : k + 1 \in W}
      /\ \A k \in T : Tail(q)[k] = q[k + 1]
      /\ W \subseteq 1 .. Len(q) /\ Len(q) \in Nat
  BY TailWaiting DEF WaitingIn
<1>2. ASSUME T = {} PROVE d[topic] = v
  <2>1. W = {}
    <3>1. \A k \in W : k = 1
      <4> SUFFICES ASSUME NEW k \in W, k # 1 PROVE FALSE
        OBVIOUS
      <4>1. k - 1 \in T
        BY <1>1
      <4> QED
        BY <4>1, <1>2
    <3> QED
      BY <3>1
  <2> QED
    BY <2>1 DEF Shows
<1>3. ASSUME NEW k \in T, \A j \in T : j <= k PROVE Tail(q)[k].val = v
  <2>1. \A j \in W : j <= k + 1
    <3> SUFFICES ASSUME NEW j \in W, j > k + 1 PROVE FALSE
      BY <1>1
    <3>1. j - 1 \in T
      BY <1>1
    <3> QED
      BY <3>1, <1>1, <1>3
  <2>2. k + 1 \in W
    BY <1>1
  <2> QED
    BY <1>1, <1>3, <2>1, <2>2 DEF Shows
<1> QED
  BY <1>2, <1>3 DEF Shows

(* The last event of a topic is published: the broker shows its value.     *)
LEMMA TailLastShows ==
  ASSUME NEW q \in Seq(Events), q # << >>, NEW topic, NEW v, NEW b, NEW d,
         Shows(q, b, topic, v),
         d[topic] = Head(q).val,
         WaitingIn(q, topic) = {1}
  PROVE  Shows(Tail(q), d, topic, v)
<1>1. WaitingIn(Tail(q), topic) = {}
  BY TailWaiting
<1>2. Head(q).val = v
  BY TailWaiting DEF Shows
<1> QED
  BY <1>1, <1>2 DEF Shows

-----------------------------------------------------------------------------
(* Emitting.                                                               *)

LEMMA EmittedIs ==
  ASSUME NEW s \in States, NEW e \in Events
  PROVE  /\ Emitted(s, e) \in States
         /\ Emitted(s, e).cache = s.cache
         /\ \/ /\ Len(s.bus) < BusSize
               /\ Emitted(s, e).bus = Append(s.bus, e)
               /\ Len(Append(s.bus, e)) = Len(s.bus) + 1
               /\ Emitted(s, e).missed = s.missed \ TopicOf(e)
            \/ /\ ~(Len(s.bus) < BusSize)
               /\ Emitted(s, e).bus = s.bus
               /\ Emitted(s, e).missed = s.missed \union TopicOf(e)
<1>1. TopicOf(e) \subseteq Topics
  BY EventIs
<1>2. Append(s.bus, e) \in Seq(Events) /\ Len(Append(s.bus, e)) = Len(s.bus) + 1
  BY AppendProperties DEF States
<1> QED
  BY <1>1, <1>2 DEF Emitted, States

(* An event of no concern keeps what is good.                              *)
LEMMA OtherGood ==
  ASSUME NEW s, NEW b, Good(s, b)
  PROVE  Good(Emitted(s, Other), b) /\ Emitted(s, Other).cache = s.cache
<1> DEFINE n == Emitted(s, Other)
<1>1. Other \in Events /\ TopicOf(Other) = {} /\ s \in States /\ BusSize \in Nat
  BY EventIs, SizesArePositive DEF Events, Other, TopicOf, Good
<1>2. n \in States /\ n.cache = s.cache /\ n.missed = s.missed
  <2>1. Other \in Events /\ s \in States
    BY <1>1
  <2>2. n \in States /\ n.cache = s.cache
        /\ (n.missed = s.missed \ TopicOf(Other) \/ n.missed = s.missed \union TopicOf(Other))
    BY <2>1, EmittedIs
  <2> HIDE DEF n
  <2> QED
    BY <1>1, <2>2
<1>3. \/ Len(s.bus) < BusSize /\ n.bus = Append(s.bus, Other) /\ Len(n.bus) = Len(s.bus) + 1
      \/ n.bus = s.bus
  BY <1>1, EmittedIs
<1>4. ASSUME NEW topic, NEW v, Shows(s.bus, b, topic, v)
      PROVE  Shows(n.bus, b, topic, v)
  <2>1. s.bus \in Seq(Events) /\ topic \notin TopicOf(Other)
    BY <1>1 DEF States
  <2>2. Shows(Append(s.bus, Other), b, topic, v)
    BY <1>1, <1>4, <2>1, AppendOtherShows
  <2> QED
    BY <1>3, <1>4, <2>2
<1>6. Fits(n)
  <2>1. Len(s.bus) \in Nat /\ Fits(s)
    BY <1>1, LenProperties DEF Good, States
  <2> QED
    BY <1>1, <1>2, <1>3, <2>1 DEF Fits
<1>5. Latest(n, b)
  BY <1>2, <1>4 DEF Good, Latest
<1> QED
  BY <1>2, <1>5, <1>6 DEF Good

-----------------------------------------------------------------------------
(* The cache.                                                              *)

LEMMA EntryIs ==
  ASSUME NEW c \in Seq(Entries), NEW i \in DOMAIN c
  PROVE  /\ c[i] \in Entries
         /\ c[i].addr \in Addr /\ DOMAIN c[i].caps \subseteq Caps
         /\ c[i].caps \in [DOMAIN c[i].caps -> Known]
         /\ c[i] = [addr |-> c[i].addr, caps |-> c[i].caps]
         /\ i \in 1 .. Len(c) /\ Len(c) \in Nat
<1>1. c[i] \in Entries /\ i \in 1 .. Len(c) /\ Len(c) \in Nat
  BY ElementOfSeq, LenProperties
<1>2. PICK C \in SUBSET Caps : c[i] \in [addr : Addr, caps : [C -> Known]]
  BY <1>1 DEF Entries
<1> QED
  BY <1>1, <1>2

LEMMA FindCacheIs ==
  ASSUME NEW c, Unique(c), NEW i \in DOMAIN c
  PROVE  FindCache(c, c[i].addr) = i
<1>1. CacheOf(c, c[i].addr) = {i}
  BY DEF CacheOf, Unique
<1> QED
  BY <1>1 DEF FindCache

LEMMA FoundIs ==
  ASSUME NEW c \in Seq(Entries), Unique(c), NEW a, CacheOf(c, a) # {}
  PROVE  /\ FindCache(c, a) \in DOMAIN c
         /\ c[FindCache(c, a)].addr = a
<1>1. PICK i \in DOMAIN c : c[i].addr = a
  BY DEF CacheOf
<1> QED
  BY <1>1, FindCacheIs

(* What a report notes: one value, in the first entry of the address.      *)
OneValueNoted(s, n, a, cap, v) ==
  LET f == FindCache(s.cache, a)
  IN  /\ f \in DOMAIN s.cache /\ s.cache[f].addr = a
      /\ cap \in DOMAIN s.cache[f].caps
      /\ n \in States /\ n.bus = s.bus /\ n.missed = s.missed
      /\ Len(n.cache) = Len(s.cache) /\ DOMAIN n.cache = DOMAIN s.cache
      /\ \A i \in DOMAIN s.cache :
           /\ n.cache[i].addr = s.cache[i].addr
           /\ DOMAIN n.cache[i].caps = DOMAIN s.cache[i].caps
           /\ \A d \in DOMAIN s.cache[i].caps :
                n.cache[i].caps[d] = IF i = f /\ d = cap THEN v
                                     ELSE s.cache[i].caps[d]

LEMMA NotedIs ==
  ASSUME NEW s \in States, Unique(s.cache), NEW a, NEW cap,
         HasCap(s.cache, a, cap), NEW v \in Known
  PROVE  OneValueNoted(s, Noted(s, a, cap, v), a, cap, v)
<1> DEFINE f == FindCache(s.cache, a)
           old == s.cache[f]
           new == [addr |-> a, caps |-> [old.caps EXCEPT ![cap] = v]]
           n == Noted(s, a, cap, v)
<1>1. s.cache \in Seq(Entries) /\ s.bus \in Seq(Events) /\ s.missed \in SUBSET Topics
  BY DEF States
<1>2. f \in DOMAIN s.cache /\ old.addr = a /\ cap \in DOMAIN old.caps
  BY <1>1, FoundIs DEF HasCap
<1>3. /\ DOMAIN old.caps \subseteq Caps /\ old.caps \in [DOMAIN old.caps -> Known]
      /\ old = [addr |-> a, caps |-> old.caps] /\ a \in Addr
      /\ f \in 1 .. Len(s.cache) /\ Len(s.cache) \in Nat
      /\ DOMAIN s.cache = 1 .. Len(s.cache)
  BY <1>1, <1>2, EntryIs, LenProperties
<1>4. new \in Entries
  <2>1. new.caps \in [DOMAIN old.caps -> Known]
    BY <1>2, <1>3
  <2> QED
    BY <1>3, <2>1 DEF Entries
<1>5. n = [s EXCEPT !.cache = [s.cache EXCEPT ![f] = new]]
  <2>1. [old EXCEPT !.caps[cap] = v] = new
    BY <1>3
  <2> QED
    BY <2>1 DEF Noted
<1>6. /\ [s.cache EXCEPT ![f] = new] \in Seq(Entries)
      /\ Len([s.cache EXCEPT ![f] = new]) = Len(s.cache)
  BY <1>1, <1>3, <1>4, ExceptSeq
<1>7. /\ n \in States /\ n.bus = s.bus /\ n.missed = s.missed
      /\ n.cache = [s.cache EXCEPT ![f] = new]
  BY <1>1, <1>5, <1>6 DEF States
<1>8. ASSUME NEW i \in DOMAIN s.cache
      PROVE  /\ n.cache[i].addr = s.cache[i].addr
             /\ DOMAIN n.cache[i].caps = DOMAIN s.cache[i].caps
             /\ \A d \in DOMAIN s.cache[i].caps :
                  n.cache[i].caps[d] = IF i = f /\ d = cap THEN v
                                       ELSE s.cache[i].caps[d]
  <2>1. CASE i = f
    BY <1>2, <1>3, <1>7, <2>1
  <2>2. CASE i # f
    BY <1>7, <2>2
  <2> QED
    BY <2>1, <2>2
<1> QED
  BY <1>2, <1>6, <1>7, <1>8 DEF OneValueNoted

(* A cache with other values in the same entries.                          *)
SameShape(c, d) ==
  /\ Len(d) = Len(c) /\ DOMAIN d = DOMAIN c
  /\ \A i \in DOMAIN c : d[i].addr = c[i].addr /\ DOMAIN d[i].caps = DOMAIN c[i].caps

LEMMA ShapeFinds ==
  ASSUME NEW c \in Seq(Entries), Unique(c), NEW d, SameShape(c, d)
  PROVE  /\ Unique(d)
         /\ \A a : CacheOf(d, a) = CacheOf(c, a) /\ FindCache(d, a) = FindCache(c, a)
         /\ \A a, cap : HasCap(d, a, cap) <=> HasCap(c, a, cap)
<1>1. \A a : CacheOf(d, a) = CacheOf(c, a)
  BY DEF CacheOf, SameShape
<1>2. \A a : FindCache(d, a) = FindCache(c, a)
  BY <1>1 DEF FindCache
<1>3. \A a, cap : HasCap(d, a, cap) <=> HasCap(c, a, cap)
  <2> SUFFICES ASSUME NEW a, CacheOf(c, a) # {}
               PROVE  DOMAIN d[FindCache(d, a)].caps = DOMAIN c[FindCache(c, a)].caps
    BY <1>1 DEF HasCap
  <2>1. FindCache(c, a) \in DOMAIN c
    BY FoundIs
  <2> QED
    BY <1>2, <2>1 DEF SameShape
<1>4. Unique(d)
  BY DEF Unique, SameShape
<1> QED
  BY <1>1, <1>2, <1>3, <1>4

LEMMA ValueIsKnown ==
  ASSUME NEW cap, NEW raw \in Int
  PROVE  Value(cap, raw) \in Known /\ Value(cap, raw) # NoValue
<1>1. Percent(raw) \in Int
  BY DEF Percent
<1> QED
  BY <1>1, RawAssumption DEF Value, Known

(* After a report all is as good as before, and one value is a new one.    *)
OnlyReported(s, n, b, a, cap, v) ==
  /\ Good(n, b)
  /\ SameShape(s.cache, n.cache)
  /\ \A x, d : HasCap(s.cache, x, d) =>
       CapState(n.cache, x, d) = IF x = a /\ d = cap THEN v ELSE CapState(s.cache, x, d)

(* A report of a capability that is in the cache.                          *)
LEMMA ReportedGood ==
  ASSUME NEW s, NEW b, Good(s, b), NEW a \in Addr, NEW cap \in Caps,
         NEW raw \in Int, HasCap(s.cache, a, cap)
  PROVE  OnlyReported(s, Reported(s, a, cap, raw), b, a, cap, Value(cap, raw))
<1> DEFINE f == FindCache(s.cache, a)
           v == Value(cap, raw)
           m == Noted(s, a, cap, v)
           e == State(<<a, cap>>, v)
           n == Reported(s, a, cap, raw)
<1>1. v \in Known /\ v # NoValue /\ s \in States /\ Unique(s.cache)
      /\ Len(s.cache) <= MaxCache /\ Len(s.bus) <= BusSize /\ Latest(s, b)
  BY ValueIsKnown DEF Good, Fits
<1>2. /\ f \in DOMAIN s.cache /\ s.cache[f].addr = a /\ cap \in DOMAIN s.cache[f].caps
      /\ m \in States /\ m.bus = s.bus /\ m.missed = s.missed
      /\ Len(m.cache) = Len(s.cache) /\ DOMAIN m.cache = DOMAIN s.cache
      /\ \A i \in DOMAIN s.cache :
           /\ m.cache[i].addr = s.cache[i].addr
           /\ DOMAIN m.cache[i].caps = DOMAIN s.cache[i].caps
           /\ \A d \in DOMAIN s.cache[i].caps :
                m.cache[i].caps[d] = IF i = f /\ d = cap THEN v
                                     ELSE s.cache[i].caps[d]
  <2>1. OneValueNoted(s, m, a, cap, v)
    BY <1>1, NotedIs
  <2> QED
    BY <2>1 DEF OneValueNoted
<1>3. /\ e \in Events /\ e.kind = "state" /\ e.topic = <<a, cap>> /\ e.val = v
      /\ TopicOf(e) = {<<a, cap>>}
  BY <1>1 DEF Events, State, Topics, TopicOf
<1>4. n = Emitted(m, e)
  BY DEF Reported
<1>5. /\ n \in States /\ n.cache = m.cache
      /\ \/ /\ Len(s.bus) < BusSize /\ n.bus = Append(s.bus, e)
            /\ Len(n.bus) = Len(s.bus) + 1
            /\ n.missed = s.missed \ {<<a, cap>>}
         \/ n.bus = s.bus /\ n.missed = s.missed \union {<<a, cap>>}
  BY <1>2, <1>3, <1>4, EmittedIs
<1>6. SameShape(s.cache, n.cache) /\ Unique(n.cache)
  BY <1>1, <1>2, <1>5 DEF SameShape, Unique
<1>7. Fits(n)
  <2>1. Len(s.bus) \in Nat /\ BusSize \in Nat
    BY <1>1, LenProperties, SizesArePositive DEF States
  <2> QED
    BY <1>1, <1>2, <1>5, <2>1 DEF Fits
<1>8. Latest(n, b)
  <2> SUFFICES ASSUME NEW i \in DOMAIN n.cache, NEW d \in DOMAIN n.cache[i].caps,
                      n.cache[i].caps[d] # NoValue,
                      <<n.cache[i].addr, d>> \notin n.missed
               PROVE  Shows(n.bus, b, <<n.cache[i].addr, d>>, n.cache[i].caps[d])
    BY DEF Latest
  <2> DEFINE topic == <<s.cache[i].addr, d>>
  <2>1. /\ i \in DOMAIN s.cache /\ n.cache[i].addr = s.cache[i].addr
        /\ d \in DOMAIN s.cache[i].caps
        /\ n.cache[i].caps[d] = IF i = f /\ d = cap THEN v ELSE s.cache[i].caps[d]
    BY <1>2, <1>5
  <2>2. s.bus \in Seq(Events)
    BY <1>1 DEF States
  <2>3. CASE i = f /\ d = cap
    <3>1. topic = <<a, cap>> /\ n.cache[i].caps[d] = v
      BY <1>2, <2>1, <2>3
    <3>2. n.bus = Append(s.bus, e)
      <4>1. <<a, cap>> \notin n.missed
        BY <1>2, <2>1, <2>3
      <4> QED
        BY <1>5, <4>1
    <3>3. Shows(Append(s.bus, e), b, <<a, cap>>, v)
      <4>1. e \in Events /\ e.kind = "state"
        BY <1>3
      <4> HIDE DEF e
      <4>2. Shows(Append(s.bus, e), b, e.topic, e.val)
        BY <2>2, <4>1, AppendShows
      <4> QED
        BY <1>3, <4>2
    <3> QED
      BY <2>1, <3>1, <3>2, <3>3
  <2>4. CASE ~(i = f /\ d = cap)
    <3>1. topic # <<a, cap>>
      BY <1>1, <1>2, <2>1, <2>4 DEF Unique
    <3>2. topic \notin s.missed
      BY <1>5, <2>1, <3>1
    <3>3. Shows(s.bus, b, topic, s.cache[i].caps[d])
      BY <1>1, <2>1, <2>4, <3>2 DEF Latest
    <3>4. Shows(Append(s.bus, e), b, topic, s.cache[i].caps[d])
      BY <1>3, <2>2, <3>1, <3>3, AppendOtherShows
    <3>5. n.cache[i].caps[d] = s.cache[i].caps[d]
      BY <2>1, <2>4
    <3> QED
      BY <1>5, <2>1, <3>3, <3>4, <3>5
  <2> QED
    BY <2>3, <2>4
<1>9. ASSUME NEW x, NEW d, HasCap(s.cache, x, d)
      PROVE  CapState(n.cache, x, d) = IF x = a /\ d = cap THEN v
                                       ELSE CapState(s.cache, x, d)
  <2> DEFINE g == FindCache(s.cache, x)
  <2>1. g \in DOMAIN s.cache /\ s.cache[g].addr = x /\ d \in DOMAIN s.cache[g].caps
    BY <1>1, <1>9, FoundIs DEF HasCap, States
  <2>2. FindCache(n.cache, x) = g
    BY <1>1, <1>6, ShapeFinds DEF States
  <2>3. n.cache[g].caps[d] = IF g = f /\ d = cap THEN v ELSE s.cache[g].caps[d]
    BY <1>2, <1>5, <2>1
  <2>4. g = f <=> x = a
    BY <1>2, <2>1
  <2> QED
    BY <2>2, <2>3, <2>4 DEF CapState
<1> QED
  BY <1>1, <1>5, <1>6, <1>7, <1>8, <1>9 DEF Good, OnlyReported

(* Any report.                                                             *)
LEMMA ReportedIs ==
  ASSUME NEW s, NEW b, Good(s, b), NEW a \in Addr, NEW cap \in Caps, NEW raw \in Int
  PROVE  OnlyReported(s, Reported(s, a, cap, raw), b, a, cap, Value(cap, raw))
<1>1. CASE HasCap(s.cache, a, cap)
  BY <1>1, ReportedGood
<1>2. CASE ~HasCap(s.cache, a, cap)
  <2>1. Reported(s, a, cap, raw) = s
    BY <1>2 DEF Reported
  <2>2. SameShape(s.cache, s.cache)
    BY DEF SameShape
  <2> QED
    BY <1>2, <2>1, <2>2 DEF OnlyReported
<1> QED
  BY <1>1, <1>2

-----------------------------------------------------------------------------
(* Computing the capabilities of a node.                                   *)

LEMMA CapsOfType ==
  ASSUME NEW eps
  PROVE  CapsOf(eps) \subseteq Caps
BY DEF CapsOf, Places, Caps

LEMMA BlankIs ==
  ASSUME NEW a \in Addr, NEW eps
  PROVE  /\ Blank(a, eps) \in Entries
         /\ Blank(a, eps).addr = a
         /\ DOMAIN Blank(a, eps).caps = CapsOf(eps)
         /\ \A cap \in CapsOf(eps) : Blank(a, eps).caps[cap] = NoValue
<1>1. CapsOf(eps) \in SUBSET Caps
  BY CapsOfType
<1>2. [cap \in CapsOf(eps) |-> NoValue] \in [CapsOf(eps) -> Known]
  BY DEF Known
<1> QED
  BY <1>1, <1>2 DEF Blank, Entries

(* n is c with e as the entry of its address, if there is room.            *)
EntrySet(c, n, e) ==
  /\ n \in Seq(Entries) /\ Unique(n) /\ Len(n) <= MaxCache
  /\ Len(c) = MaxCache => Len(n) = MaxCache
  /\ \A i \in DOMAIN n : n[i] = e \/ (i \in DOMAIN c /\ n[i] = c[i])
  /\ \A i \in DOMAIN c : c[i].addr # e.addr => i \in DOMAIN n /\ n[i] = c[i]
  /\ \A i \in DOMAIN n : n[i].addr = e.addr => n[i] = e
  /\ CacheOf(n, e.addr) = {} => Len(n) = MaxCache

LEMMA AllocatedIs ==
  ASSUME NEW c \in Seq(Entries), Unique(c), Len(c) <= MaxCache,
         NEW e \in Entries, CacheOf(c, e.addr) = {}
  PROVE  EntrySet(c, Allocated(c, e), e)
<1>1. Len(c) \in Nat /\ DOMAIN c = 1 .. Len(c) /\ MaxCache \in Nat
  BY LenProperties, SizesArePositive
<1>a. /\ Len(c) < MaxCache => Len(c) + 1 <= MaxCache /\ Len(c) # MaxCache
      /\ ~(Len(c) < MaxCache) => Len(c) = MaxCache
  <2> SUFFICES ASSUME NEW l \in Nat, NEW m \in Nat, l <= m
               PROVE  (l < m => l + 1 <= m /\ l # m) /\ (~(l < m) => l = m)
    BY <1>1
  <2> QED
    OBVIOUS
<1>2. \A i \in DOMAIN c : c[i].addr # e.addr
  BY DEF CacheOf
<1>3. CASE Len(c) < MaxCache
  <2> DEFINE n == Append(c, e)
  <2>1. /\ n \in Seq(Entries) /\ Len(n) = Len(c) + 1 /\ n[Len(c) + 1] = e
        /\ \A i \in 1 .. Len(c) : n[i] = c[i]
    BY AppendProperties
  <2>2. DOMAIN n = 1 .. Len(c) + 1
    BY <2>1, LenProperties
  <2>3. Unique(n)
    BY <1>1, <1>2, <2>1, <2>2 DEF Unique
  <2>4. Len(c) + 1 \in CacheOf(n, e.addr)
    BY <1>1, <2>1, <2>2 DEF CacheOf
  <2>5. Allocated(c, e) = n
    BY <1>3 DEF Allocated
  <2>6. /\ \A i \in DOMAIN n : n[i] = e \/ (i \in DOMAIN c /\ n[i] = c[i])
        /\ \A i \in DOMAIN c : i \in DOMAIN n /\ n[i] = c[i]
        /\ \A i \in DOMAIN n : n[i].addr = e.addr => n[i] = e
    BY <1>1, <1>2, <2>1, <2>2
  <2>7. Len(n) <= MaxCache /\ Len(c) # MaxCache /\ CacheOf(n, e.addr) # {}
    BY <1>a, <1>3, <2>1, <2>4
  <2> HIDE DEF n
  <2> QED
    BY <2>1, <2>3, <2>5, <2>6, <2>7 DEF EntrySet
<1>4. CASE ~(Len(c) < MaxCache)
  <2>1. Allocated(c, e) = c
    BY <1>4 DEF Allocated
  <2>2. Len(c) = MaxCache
    BY <1>a, <1>4
  <2> QED
    BY <1>1, <1>2, <2>1, <2>2 DEF EntrySet
<1> QED
  BY <1>3, <1>4

LEMMA ComputedIs ==
  ASSUME NEW c \in Seq(Entries), Unique(c), Len(c) <= MaxCache,
         NEW a \in Addr, NEW eps
  PROVE  EntrySet(c, Computed(c, a, eps), Blank(a, eps))
<1> DEFINE e == Blank(a, eps)
           f == FindCache(c, a)
           n == [c EXCEPT ![f] = e]
<1>1. e \in Entries /\ e.addr = a
  BY BlankIs
<1>2. CASE CacheOf(c, a) # {}
  <2>1. f \in DOMAIN c /\ c[f].addr = a
    BY <1>2, FoundIs
  <2>2. Len(c) \in Nat /\ DOMAIN c = 1 .. Len(c)
    BY LenProperties
  <2>3. n \in Seq(Entries) /\ Len(n) = Len(c)
    BY <1>1, <2>1, <2>2, ExceptSeq
  <2>4. DOMAIN n = DOMAIN c /\ \A i \in DOMAIN c : n[i] = IF i = f THEN e ELSE c[i]
    OBVIOUS
  <2>5. Unique(n)
    BY <1>1, <2>1, <2>4 DEF Unique
  <2>6. f \in CacheOf(n, a)
    BY <1>1, <2>1, <2>4 DEF CacheOf
  <2>7. Computed(c, a, eps) = n
    BY <1>2 DEF Computed
  <2>8. \A i \in DOMAIN c : c[i].addr = a => i = f
    BY <2>1 DEF Unique
  <2> HIDE DEF n, e, f
  <2> QED
    BY <1>1, <2>1, <2>3, <2>4, <2>5, <2>6, <2>7, <2>8 DEF EntrySet, e
<1>3. CASE CacheOf(c, a) = {}
  BY <1>1, <1>3, AllocatedIs DEF Computed
<1> QED
  BY <1>2, <1>3

-----------------------------------------------------------------------------
(* The inductive invariant.                                                *)

Nodes ==
  /\ registered \subseteq Addr /\ computed \subseteq registered /\ Local \in computed
  /\ polled \in Polls
  /\ mqtt \in {"CONNECTED", "DISCONNECTED"}
  /\ broker \in [Topics -> Known]

(* What an interview has found is the beginning of what the device offers. *)
Endpoint == [id : Int, clusters : Seq(Clusters)]

Tables ==
  /\ endpoints \in [Addr -> Seq(Endpoint)]
  /\ \A a \in Addr :
       /\ Len(endpoints[a]) <= MaxEndpoints
       /\ \A i \in DOMAIN endpoints[a] : Len(endpoints[a][i].clusters) <= MaxClusters
  /\ \A a \in Devices : Len(endpoints[a]) <= Len(Offers[a])

Mirrors ==
  \A a \in computed :
    /\ CacheOf(cache, a) = {} => Len(cache) = MaxCache
    /\ \A i \in CacheOf(cache, a) : DOMAIN cache[i].caps = CapsOf(endpoints[a])

IInv == Nodes /\ Tables /\ Good(Now, broker) /\ Mirrors /\ LocalShown

(* What no step of the cache's owner may break.                            *)
LEMMA MirrorsKept ==
  ASSUME Mirrors, SameShape(cache, cache'), computed' \subseteq computed,
         \A a \in computed' : endpoints'[a] = endpoints[a]
  PROVE  Mirrors'
<1>1. \A a : CacheOf(cache', a) = CacheOf(cache, a)
  BY DEF CacheOf, SameShape
<1>2. \A a : CacheOf(cache, a) \subseteq DOMAIN cache
  BY DEF CacheOf
<1> QED
  BY <1>1, <1>2 DEF Mirrors, SameShape

LEMMA NowIs ==
  ASSUME Good(Now, broker)
  PROVE  /\ cache \in Seq(Entries) /\ bus \in Seq(Events) /\ missed \subseteq Topics
         /\ Len(cache) <= MaxCache /\ Len(bus) <= BusSize /\ Unique(cache)
         /\ Now.cache = cache /\ Now.bus = bus /\ Now.missed = missed
         /\ Now \in States
BY DEF Good, Now, States, Fits

LEMMA BecomeIs ==
  ASSUME NEW s \in States, Become(s)
  PROVE  Now' = s
BY DEF Become, Now, States

(* An event of no concern, or none, with whatever else keeps the tables.   *)
LEMMA CacheKept ==
  ASSUME Mirrors, LocalShown, cache' = cache, polled' = polled,
         computed' \subseteq computed,
         \A a \in computed' : endpoints'[a] = endpoints[a]
  PROVE  Mirrors' /\ LocalShown'
<1>1. SameShape(cache, cache')
  BY DEF SameShape
<1>2. Mirrors'
  BY <1>1, MirrorsKept
<1>3. LocalShown'
  BY DEF LocalShown, HasCap, CapState, First
<1> QED
  BY <1>2, <1>3

LEMMA EmitGood ==
  ASSUME Good(Now, broker), Emit(Other)
  PROVE  Good(Now, broker)' /\ cache' = cache
<1>1. Good(Emitted(Now, Other), broker) /\ Emitted(Now, Other).cache = cache
  BY OtherGood, NowIs
<1>2. Now' = Emitted(Now, Other)
  BY <1>1, BecomeIs DEF Emit, Good
<1>3. broker' = broker /\ cache' = cache
  BY <1>1 DEF Emit, brokerVars, Become
<1> QED
  BY <1>1, <1>2, <1>3

LEMMA CommandInv ==
  ASSUME IInv, Command
  PROVE  IInv'
<1>1. Good(Now, broker)' /\ cache' = cache
  BY EmitGood DEF IInv, Command
<1>2. UNCHANGED <<registered, endpoints, computed, polled, mqtt, broker>>
  BY DEF Command, Emit, registryVars, brokerVars
<1>3. Mirrors' /\ LocalShown'
  BY <1>1, <1>2, CacheKept DEF IInv
<1>4. Nodes' /\ Tables'
  BY <1>2 DEF IInv, Nodes, Tables
<1> QED
  BY <1>1, <1>3, <1>4 DEF IInv

LEMMA AddNodeInv ==
  ASSUME IInv, NEW a \in Devices, AddNode(a)
  PROVE  IInv'
<1>1. Good(Now, broker)' /\ cache' = cache
  BY EmitGood DEF IInv, AddNode
<1>2. UNCHANGED <<endpoints, computed, polled, mqtt, broker>>
  BY DEF AddNode, Emit, brokerVars
<1>3. Mirrors' /\ LocalShown'
  BY <1>1, <1>2, CacheKept DEF IInv
<1>4. Nodes' /\ Tables'
  BY <1>2 DEF IInv, Nodes, Tables, AddNode, Devices
<1> QED
  BY <1>1, <1>3, <1>4 DEF IInv

LEMMA RemoveNodeInv ==
  ASSUME IInv, NEW a \in Devices, RemoveNode(a)
  PROVE  IInv'
<1>1. Good(Now, broker)' /\ cache' = cache
  BY EmitGood DEF IInv, RemoveNode
<1>2. UNCHANGED <<polled, mqtt, broker>>
  BY DEF RemoveNode, Emit, brokerVars
<1>3. /\ registered' = registered \ {a} /\ computed' = computed \ {a}
      /\ endpoints' = [endpoints EXCEPT ![a] = << >>]
      /\ a \in Addr /\ a # Local
  BY DEF RemoveNode, Devices
<1>4. \A x \in computed' : endpoints'[x] = endpoints[x]
  BY <1>3 DEF IInv, Nodes, Tables
<1>5. Mirrors' /\ LocalShown'
  BY <1>1, <1>2, <1>3, <1>4, CacheKept DEF IInv
<1>6. Nodes'
  BY <1>2, <1>3 DEF IInv, Nodes
<1>7. Tables'
  <2>1. endpoints' \in [Addr -> Seq(Endpoint)]
    BY <1>3, EmptySeq DEF IInv, Tables
  <2>2. Len(<< >>) = 0 /\ DOMAIN << >> = {} /\ \A x \in Devices : Len(Offers[x]) \in Nat
    BY OffersAssumption, LenProperties
  <2>3. ASSUME NEW x \in Addr
        PROVE  /\ endpoints'[x] = IF x = a THEN << >> ELSE endpoints[x]
               /\ Len(endpoints'[x]) <= MaxEndpoints
               /\ \A i \in DOMAIN endpoints'[x] :
                    Len(endpoints'[x][i].clusters) <= MaxClusters
               /\ x \in Devices => Len(endpoints'[x]) <= Len(Offers[x])
    BY <1>3, <2>2, SizesArePositive DEF IInv, Tables
  <2> QED
    BY <2>1, <2>3 DEF Tables, Devices
<1> QED
  BY <1>1, <1>5, <1>6, <1>7 DEF IInv

(* The registry's tables are filled.                                       *)
LEMMA FunctionIsSeq ==
  ASSUME NEW n \in Nat, NEW S, NEW f \in [1 .. n -> S]
  PROVE  f \in Seq(S) /\ Len(f) = n
OBVIOUS

LEMMA UpToIs ==
  ASSUME NEW S, NEW seq \in Seq(S), NEW n \in Nat
  PROVE  /\ UpTo(seq, n) \in Seq(S)
         /\ Len(UpTo(seq, n)) <= n /\ Len(UpTo(seq, n)) <= Len(seq)
         /\ Len(UpTo(seq, n)) \in Nat /\ Len(seq) \in Nat
<1> DEFINE l == IF Len(seq) < n THEN Len(seq) ELSE n
<1>1. Len(seq) \in Nat /\ l \in Nat /\ l <= n /\ l <= Len(seq)
  BY LenProperties
<1>2. \A i \in 1 .. l : seq[i] \in S
  BY <1>1, ElementOfSeq
<1>3. SubSeq(seq, 1, l) \in Seq(S) /\ Len(SubSeq(seq, 1, l)) = l
  BY <1>1, <1>2, SubSeqProperties
<1> QED
  BY <1>1, <1>3 DEF UpTo

LEMMA DescribeInv ==
  ASSUME IInv, NEW a \in Devices, NEW eps \in Seq(Endpoint), Describe(a, eps),
         Len(eps) <= MaxEndpoints, Len(eps) <= Len(Offers[a]),
         \A i \in DOMAIN eps : Len(eps[i].clusters) <= MaxClusters
  PROVE  IInv'
<1>1. UNCHANGED <<registered, cache, polled, bus, missed, mqtt, broker>>
  BY DEF Describe, busVars, brokerVars
<1>2. /\ computed' \subseteq computed /\ Local \in computed'
      /\ endpoints' = [endpoints EXCEPT ![a] = eps]
      /\ a \in Addr /\ a # Local
  BY DEF Describe, Devices, IInv, Nodes
<1>3. ASSUME NEW x \in computed' PROVE endpoints'[x] = endpoints[x]
  <2>1. CASE x = a
    <3>1. endpoints[a] = eps
      BY <1>3, <2>1 DEF Describe
    <3> QED
      BY <1>2, <2>1, <3>1 DEF IInv, Tables
  <2>2. CASE x # a
    BY <1>2, <2>2 DEF IInv, Tables
  <2> QED
    BY <2>1, <2>2
<1>4. Mirrors' /\ LocalShown'
  BY <1>1, <1>2, <1>3, CacheKept DEF IInv
<1>5. Nodes'
  BY <1>1, <1>2 DEF IInv, Nodes
<1>6. Good(Now, broker)'
  <2>1. Now' = Now
    BY <1>1 DEF Now
  <2> QED
    BY <1>1, <2>1 DEF IInv
<1>7. Tables'
  <2>1. endpoints' \in [Addr -> Seq(Endpoint)]
    BY <1>2 DEF IInv, Tables
  <2>2. \A x \in Addr : endpoints'[x] = IF x = a THEN eps ELSE endpoints[x]
    BY <1>2 DEF IInv, Tables
  <2> QED
    BY <2>1, <2>2 DEF IInv, Tables, Devices
<1> QED
  BY <1>4, <1>5, <1>6, <1>7 DEF IInv

LEMMA OfferIs ==
  ASSUME NEW a \in Devices
  PROVE  /\ Offers[a] \in Seq([id : Nat, clusters : Seq(Clusters)])
         /\ Len(Offers[a]) \in Nat
         /\ \A i \in 1 .. Len(Offers[a]) : Offers[a][i].clusters \in Seq(Clusters)
<1>1. Offers[a] \in Seq([id : Nat, clusters : Seq(Clusters)])
  BY OffersAssumption
<1>2. \A i \in 1 .. Len(Offers[a]) : Offers[a][i] \in [id : Nat, clusters : Seq(Clusters)]
  BY <1>1, ElementOfSeq
<1> QED
  BY <1>1, <1>2, LenProperties

LEMMA ClustersReplaced ==
  ASSUME NEW r \in [id : Nat, clusters : Seq(Clusters)], NEW c \in Seq(Clusters)
  PROVE  [r EXCEPT !.clusters = c] \in Endpoint /\ [r EXCEPT !.clusters = c].clusters = c
BY DEF Endpoint

LEMMA ActiveEndpointsInv ==
  ASSUME IInv, NEW a \in Devices, ActiveEndpoints(a)
  PROVE  IInv'
<1>1. a \in Addr
  BY DEF Devices
<1>2. CASE endpoints[a] # << >>
  <2>1. EndpointsOf(a) = endpoints[a]
    BY <1>2 DEF EndpointsOf
  <2>2. /\ endpoints[a] \in Seq(Endpoint) /\ Len(endpoints[a]) <= MaxEndpoints
        /\ Len(endpoints[a]) <= Len(Offers[a])
        /\ \A i \in DOMAIN endpoints[a] : Len(endpoints[a][i].clusters) <= MaxClusters
    BY <1>1 DEF IInv, Tables
  <2> QED
    BY <2>1, <2>2, DescribeInv DEF ActiveEndpoints
<1>3. CASE endpoints[a] = << >>
  <2> DEFINE eps == UpTo(Offers[a], MaxEndpoints)
             new == [i \in DOMAIN eps |-> [eps[i] EXCEPT !.clusters = << >>]]
  <2>1. /\ eps \in Seq([id : Nat, clusters : Seq(Clusters)])
        /\ Len(eps) <= MaxEndpoints /\ Len(eps) <= Len(Offers[a]) /\ Len(eps) \in Nat
    BY OfferIs, UpToIs, SizesArePositive
  <2>2. DOMAIN eps = 1 .. Len(eps)
    BY <2>1, LenProperties
  <2>3. ASSUME NEW i \in 1 .. Len(eps)
        PROVE  /\ [eps[i] EXCEPT !.clusters = << >>] \in Endpoint
               /\ [eps[i] EXCEPT !.clusters = << >>].clusters = << >>
    <3> HIDE DEF eps
    <3>1. eps[i] \in [id : Nat, clusters : Seq(Clusters)]
      BY <2>1, <2>3, ElementOfSeq
    <3>2. << >> \in Seq(Clusters)
      BY EmptySeq
    <3> QED
      BY <3>1, <3>2, ClustersReplaced
  <2>4. new \in [1 .. Len(eps) -> Endpoint]
    BY <2>2, <2>3
  <2>5. new \in Seq(Endpoint) /\ Len(new) = Len(eps)
    BY <2>1, <2>4, FunctionIsSeq
  <2>6. \A i \in DOMAIN new : new[i].clusters = << >>
    BY <2>2, <2>3
  <2>7. Len(<< >>) <= MaxClusters
    BY EmptySeq, SizesArePositive
  <2>8. EndpointsOf(a) = new
    BY <1>3 DEF EndpointsOf
  <2> HIDE DEF new, eps
  <2>9. \A i \in DOMAIN new : Len(new[i].clusters) <= MaxClusters
    BY <2>6, <2>7
  <2>10. Describe(a, new)
    BY <2>8 DEF ActiveEndpoints
  <2> QED
    BY <2>1, <2>5, <2>9, <2>10, DescribeInv
<1> QED
  BY <1>2, <1>3

LEMMA SimpleDescriptorsInv ==
  ASSUME IInv, NEW a \in Devices, SimpleDescriptors(a)
  PROVE  IInv'
<1> DEFINE new == ClustersOf(a)
<1>1. /\ a \in Addr /\ endpoints[a] \in Seq(Endpoint)
      /\ Len(endpoints[a]) <= MaxEndpoints /\ Len(endpoints[a]) <= Len(Offers[a])
  BY DEF Devices, IInv, Tables
<1>2. Len(endpoints[a]) \in Nat /\ DOMAIN endpoints[a] = 1 .. Len(endpoints[a])
  BY <1>1, LenProperties
<1>3. ASSUME NEW i \in DOMAIN endpoints[a]
      PROVE  LET c == UpTo(Offers[a][i].clusters, MaxClusters)
             IN  /\ [endpoints[a][i] EXCEPT !.clusters = c] \in Endpoint
                 /\ [endpoints[a][i] EXCEPT !.clusters = c].clusters = c
                 /\ Len(c) <= MaxClusters
  <2> DEFINE c == UpTo(Offers[a][i].clusters, MaxClusters)
  <2>1. i \in 1 .. Len(Offers[a])
    BY <1>1, <1>2, OfferIs
  <2>2. c \in Seq(Clusters) /\ Len(c) <= MaxClusters
    BY <2>1, OfferIs, UpToIs, SizesArePositive
  <2>3. endpoints[a][i] \in Endpoint
    BY <1>1, <1>2, ElementOfSeq
  <2> HIDE DEF c
  <2>4. /\ [endpoints[a][i] EXCEPT !.clusters = c] \in Endpoint
        /\ [endpoints[a][i] EXCEPT !.clusters = c].clusters = c
    BY <2>2, <2>3 DEF Endpoint
  <2> QED
    BY <2>2, <2>4 DEF c
<1>4. new \in [1 .. Len(endpoints[a]) -> Endpoint]
  BY <1>2, <1>3 DEF ClustersOf
<1>5. new \in Seq(Endpoint) /\ Len(new) = Len(endpoints[a])
  BY <1>2, <1>4, FunctionIsSeq
<1>6. \A i \in DOMAIN new : Len(new[i].clusters) <= MaxClusters
  BY <1>3 DEF ClustersOf
<1>7. Describe(a, new)
  BY DEF SimpleDescriptors
<1> HIDE DEF new
<1> QED
  BY <1>1, <1>5, <1>6, <1>7, DescribeInv

-----------------------------------------------------------------------------
(* The steps of the cache and of the bus.                                  *)

(* A new blank entry has no value that could be missing on the broker.     *)
LEMMA BlankGood ==
  ASSUME Good(Now, broker), NEW e \in Entries,
         \A cap \in DOMAIN e.caps : e.caps[cap] = NoValue,
         EntrySet(cache, cache', e),
         bus' = bus, missed' = missed, broker' = broker
  PROVE  Good(Now, broker)'
<1>1. Now'.cache = cache' /\ Now'.bus = bus /\ Now'.missed = missed
  BY DEF Now
<1>2. Now' \in States /\ Fits(Now') /\ Unique(Now'.cache)
  BY NowIs, <1>1 DEF States, Now, Fits, EntrySet
<1>3. Latest(Now', broker)
  <2> SUFFICES ASSUME NEW i \in DOMAIN cache', NEW cap \in DOMAIN cache'[i].caps,
                      cache'[i].caps[cap] # NoValue,
                      <<cache'[i].addr, cap>> \notin missed
               PROVE  Shows(bus, broker, <<cache'[i].addr, cap>>, cache'[i].caps[cap])
    BY <1>1 DEF Latest
  <2>1. i \in DOMAIN cache /\ cache'[i] = cache[i]
    BY DEF EntrySet
  <2>2. Latest(Now, broker)
    BY DEF Good
  <2> QED
    BY <2>1, <2>2, NowIs DEF Latest
<1> QED
  BY <1>2, <1>3 DEF Good

LEMMA LocalKept ==
  ASSUME NEW c \in Seq(Entries), NEW d \in Seq(Entries), Unique(c), Unique(d),
         NEW a, \A i \in DOMAIN c : c[i].addr = a => i \in DOMAIN d /\ d[i] = c[i],
         NEW cap, HasCap(c, a, cap)
  PROVE  HasCap(d, a, cap) /\ CapState(d, a, cap) = CapState(c, a, cap)
<1> DEFINE f == FindCache(c, a)
<1>1. f \in DOMAIN c /\ c[f].addr = a
  BY FoundIs DEF HasCap
<1>2. f \in DOMAIN d /\ d[f] = c[f]
  BY <1>1
<1>3. FindCache(d, a) = f /\ CacheOf(d, a) # {}
  BY <1>1, <1>2, FindCacheIs DEF CacheOf
<1> QED
  BY <1>2, <1>3 DEF HasCap, CapState

LEMMA ComputeInv ==
  ASSUME IInv, NEW a \in Devices, Compute(a)
  PROVE  IInv'
<1> DEFINE e == Blank(a, endpoints[a])
<1>1. /\ UNCHANGED <<registered, endpoints, polled, bus, missed, mqtt, broker>>
      /\ cache' = Computed(cache, a, endpoints[a]) /\ computed' = computed \union {a}
      /\ a \in registered /\ a \in Addr /\ a # Local
  BY DEF Compute, Devices, busVars, brokerVars
<1>2. /\ e \in Entries /\ e.addr = a /\ DOMAIN e.caps = CapsOf(endpoints[a])
      /\ \A cap \in DOMAIN e.caps : e.caps[cap] = NoValue
  BY <1>1, BlankIs
<1>3. cache \in Seq(Entries) /\ Unique(cache) /\ Len(cache) <= MaxCache
  BY NowIs DEF IInv
<1>4. EntrySet(cache, cache', e)
  BY <1>1, <1>3, ComputedIs
<1> HIDE DEF e
<1>5. Good(Now, broker)'
  BY <1>1, <1>2, <1>4, BlankGood DEF IInv
<1>6. Mirrors'
  <2> SUFFICES ASSUME NEW x \in computed'
               PROVE  /\ CacheOf(cache', x) = {} => Len(cache') = MaxCache
                      /\ \A i \in CacheOf(cache', x) :
                           DOMAIN cache'[i].caps = CapsOf(endpoints[x])
    BY <1>1 DEF Mirrors
  <2>1. CASE x = a
    BY <1>2, <1>4, <2>1 DEF EntrySet, CacheOf
  <2>2. CASE x # a
    <3>1. x \in computed
      BY <1>1, <2>2
    <3>2. CacheOf(cache', x) = CacheOf(cache, x)
          /\ \A i \in CacheOf(cache, x) : cache'[i] = cache[i]
      BY <1>2, <1>4, <2>2 DEF EntrySet, CacheOf
    <3>3. Len(cache) = MaxCache => Len(cache') = MaxCache
      BY <1>4 DEF EntrySet
    <3> QED
      BY <3>1, <3>2, <3>3 DEF IInv, Mirrors
  <2> QED
    BY <2>1, <2>2
<1>7. LocalShown'
  <2>1. \A i \in DOMAIN cache : cache[i].addr = Local => i \in DOMAIN cache' /\ cache'[i] = cache[i]
    BY <1>1, <1>2, <1>4 DEF EntrySet
  <2>2. cache' \in Seq(Entries) /\ Unique(cache')
    BY <1>4 DEF EntrySet
  <2>3. \A cap \in LocalCaps : HasCap(cache', Local, cap)
                               /\ CapState(cache', Local, cap) = CapState(cache, Local, cap)
    BY <1>3, <2>1, <2>2, LocalKept DEF IInv, LocalShown
  <2> QED
    BY <1>1, <2>3 DEF IInv, LocalShown, First
<1>8. Nodes' /\ Tables'
  BY <1>1 DEF IInv, Nodes, Tables
<1> QED
  BY <1>5, <1>6, <1>7, <1>8 DEF IInv

LEMMA ReportInv ==
  ASSUME IInv, NEW a \in Devices, NEW cluster \in Mapped,
         NEW raw \in Raw[ClusterMap[cluster]], Report(a, cluster, raw)
  PROVE  IInv'
<1> DEFINE cap == ClusterMap[cluster]
           n == Reported(Now, a, cap, raw)
<1>1. cap \in Caps /\ raw \in Int /\ a \in Addr /\ a # Local
  BY RawAssumption DEF Caps, Devices
<1>2. /\ UNCHANGED <<registered, endpoints, computed, polled, mqtt, broker>>
      /\ Become(n)
  BY DEF Report, registryVars, brokerVars
<1>3. Good(Now, broker)
  BY DEF IInv
<1> HIDE DEF cap
<1>4. /\ Good(n, broker) /\ SameShape(cache, n.cache)
      /\ \A x, d : HasCap(cache, x, d) /\ x # a => CapState(n.cache, x, d) = CapState(cache, x, d)
  <2>1. OnlyReported(Now, n, broker, a, cap, Value(cap, raw))
    BY <1>1, <1>3, ReportedIs
  <2> HIDE DEF n
  <2> QED
    BY <1>3, <2>1, NowIs DEF OnlyReported
<1>5. Now' = n /\ cache' = n.cache
  BY <1>2, <1>4, BecomeIs DEF Good, Become
<1> HIDE DEF n
<1>6. Mirrors'
  BY <1>2, <1>4, <1>5, MirrorsKept DEF IInv
<1>7. LocalShown'
  <2>1. \A d : HasCap(cache', Local, d) <=> HasCap(cache, Local, d)
    BY <1>3, <1>4, <1>5, NowIs, ShapeFinds
  <2> QED
    BY <1>1, <1>2, <1>4, <1>5, <2>1 DEF IInv, LocalShown, First
<1>8. Nodes' /\ Tables'
  BY <1>2 DEF IInv, Nodes, Tables
<1> QED
  BY <1>2, <1>4, <1>5, <1>6, <1>7, <1>8 DEF IInv

(* One of the readings of the local node, if it has changed.               *)
LEMMA ChangedIs ==
  ASSUME NEW s, NEW b, Good(s, b), NEW r \in Polls, NEW cap \in LocalCaps, Local \in Addr
  PROVE  /\ Good(Changed(s, r, cap), b)
         /\ SameShape(s.cache, Changed(s, r, cap).cache)
         /\ \A d : HasCap(s.cache, Local, d) =>
              CapState(Changed(s, r, cap).cache, Local, d) =
                IF d = cap /\ r[cap] # polled[cap] THEN r[cap] ELSE CapState(s.cache, Local, d)
<1>1. cap \in Caps /\ r[cap] \in Int /\ Value(cap, r[cap]) = r[cap]
  BY RawAssumption DEF LocalCaps, Caps, ClusterMap, Mapped, Polls, Value
<1>2. CASE r[cap] # polled[cap]
  <2>1. Changed(s, r, cap) = Reported(s, Local, cap, r[cap])
    BY <1>2 DEF Changed
  <2>2. OnlyReported(s, Reported(s, Local, cap, r[cap]), b, Local, cap, r[cap])
    BY <1>1, ReportedIs
  <2> QED
    BY <1>2, <2>1, <2>2 DEF OnlyReported
<1>3. CASE r[cap] = polled[cap]
  <2>1. Changed(s, r, cap) = s
    BY <1>3 DEF Changed
  <2> QED
    BY <1>3, <2>1 DEF SameShape
<1> QED
  BY <1>2, <1>3

LEMMA PollInv ==
  ASSUME IInv, NEW r \in Polls, Poll(r)
  PROVE  IInv'
<1> DEFINE m == Changed(Now, r, "light.on")
           n == Changed(m, r, "sensor.temperature")
<1>1. /\ UNCHANGED <<registered, endpoints, computed, mqtt, broker>>
      /\ polled' = r /\ Become(n)
  BY DEF Poll, registryVars, brokerVars
<1>2. Good(Now, broker) /\ Local \in Addr
      /\ "light.on" \in LocalCaps /\ "sensor.temperature" \in LocalCaps
  BY LocalAssumption DEF IInv, LocalCaps
<1>3. /\ Good(m, broker) /\ SameShape(cache, m.cache)
      /\ \A d : HasCap(cache, Local, d) =>
           CapState(m.cache, Local, d) =
             IF d = "light.on" /\ r["light.on"] # polled["light.on"]
             THEN r["light.on"] ELSE CapState(cache, Local, d)
  <2>1. Now.cache = cache
    BY <1>2, NowIs
  <2>2. /\ Good(m, broker) /\ SameShape(Now.cache, m.cache)
        /\ \A d : HasCap(Now.cache, Local, d) =>
             CapState(m.cache, Local, d) =
               IF d = "light.on" /\ r["light.on"] # polled["light.on"]
               THEN r["light.on"] ELSE CapState(Now.cache, Local, d)
    BY <1>2, ChangedIs
  <2> HIDE DEF m
  <2> QED
    BY <2>1, <2>2
<1>4. /\ Good(n, broker) /\ SameShape(m.cache, n.cache)
      /\ \A d : HasCap(m.cache, Local, d) =>
           CapState(n.cache, Local, d) =
             IF d = "sensor.temperature" /\ r["sensor.temperature"] # polled["sensor.temperature"]
             THEN r["sensor.temperature"] ELSE CapState(m.cache, Local, d)
  BY <1>2, <1>3, ChangedIs
<1>5. Now' = n /\ cache' = n.cache
  BY <1>1, <1>4, BecomeIs DEF Good, Become
<1> HIDE DEF m, n
<1>6. SameShape(cache, cache')
  BY <1>3, <1>4, <1>5 DEF SameShape
<1>7. Mirrors'
  BY <1>1, <1>6, MirrorsKept DEF IInv
<1>8. \A d : (HasCap(cache', Local, d) <=> HasCap(cache, Local, d))
            /\ (HasCap(m.cache, Local, d) <=> HasCap(cache, Local, d))
  BY <1>2, <1>3, <1>6, NowIs, ShapeFinds
<1>9. LocalShown'
  <2> SUFFICES ASSUME NEW cap \in LocalCaps
               PROVE  /\ HasCap(cache', Local, cap)
                      /\ CapState(cache', Local, cap) \in {r[cap], First(r)[cap]}
    BY <1>1 DEF LocalShown, First
  <2>1. /\ HasCap(cache, Local, cap) /\ HasCap(cache', Local, cap)
        /\ CapState(cache, Local, cap) \in {polled[cap], First(polled)[cap]}
    BY <1>8 DEF IInv, LocalShown
  <2>2. CapState(cache', Local, cap) = IF r[cap] # polled[cap] THEN r[cap]
                                       ELSE CapState(cache, Local, cap)
    BY <1>3, <1>4, <1>5, <1>8, <2>1 DEF LocalCaps
  <2>3. r[cap] = polled[cap] => First(r)[cap] = First(polled)[cap]
    BY DEF First
  <2> QED
    BY <2>1, <2>2, <2>3
<1>10. Nodes' /\ Tables'
  BY <1>1 DEF IInv, Nodes, Tables
<1> QED
  BY <1>1, <1>4, <1>5, <1>7, <1>9, <1>10 DEF IInv

-----------------------------------------------------------------------------
(* The steps of the MQTT adapter.                                          *)

LEMMA ConnectionInv ==
  ASSUME IInv, Connect \/ Disconnect
  PROVE  IInv'
<1>1. /\ UNCHANGED <<registered, endpoints, computed, cache, polled, bus, missed, broker>>
      /\ mqtt' \in {"CONNECTED", "DISCONNECTED"}
  BY DEF Connect, Disconnect, registryVars, busVars
<1>2. Mirrors' /\ LocalShown'
  BY <1>1, CacheKept DEF IInv
<1>3. Nodes' /\ Tables' /\ Now' = Now
  BY <1>1 DEF IInv, Nodes, Tables, Now
<1> QED
  BY <1>1, <1>2, <1>3 DEF IInv

LEMMA DispatchInv ==
  ASSUME IInv, Dispatch
  PROVE  IInv'
<1> DEFINE e == Head(bus)
<1>1. /\ UNCHANGED <<registered, endpoints, computed, cache, polled, mqtt>>
      /\ bus # << >> /\ bus' = Tail(bus)
      /\ IF e.kind = "state" THEN PublishState(e) ELSE UNCHANGED <<broker, missed>>
  BY DEF Dispatch, registryVars
<1>2. /\ cache \in Seq(Entries) /\ bus \in Seq(Events) /\ missed \subseteq Topics
      /\ Len(cache) <= MaxCache /\ Len(bus) <= BusSize /\ Unique(cache)
      /\ Latest(Now, broker) /\ broker \in [Topics -> Known]
  BY NowIs DEF IInv, Good, Nodes
<1>3. Len(bus) \in Nat /\ Tail(bus) \in Seq(Events) /\ Len(Tail(bus)) = Len(bus) - 1
      /\ e \in Events
  BY <1>1, <1>2, HeadTailProperties, LenProperties
<1>4. e.kind = "state" => e.topic \in Topics /\ e.val \in Known
  BY <1>3, EventIs
<1> HIDE DEF e
<1>5. missed' \subseteq Topics /\ broker' \in [Topics -> Known]
  BY <1>1, <1>2, <1>4 DEF PublishState
<1>6. Fits(Now') /\ Now' \in States
  <2>1. Len(bus') <= BusSize
    BY <1>1, <1>2, <1>3, SizesArePositive
  <2> QED
    BY <1>1, <1>2, <1>3, <1>5, <2>1 DEF Fits, Now, States
<1>7. Latest(Now', broker')
  <2> SUFFICES ASSUME NEW i \in DOMAIN cache, NEW cap \in DOMAIN cache[i].caps,
                      cache[i].caps[cap] # NoValue,
                      <<cache[i].addr, cap>> \notin missed'
               PROVE  Shows(Tail(bus), broker', <<cache[i].addr, cap>>, cache[i].caps[cap])
    BY <1>1 DEF Latest, Now
  <2> DEFINE topic == <<cache[i].addr, cap>>
             W     == WaitingIn(bus, topic)
  <2>1. topic \in Topics
    BY <1>2, EntryIs DEF Topics
  <2>2. W = Waiting(topic)
    BY DEF Waiting, WaitingIn
  <2>3. 1 \in W <=> e.kind = "state" /\ e.topic = topic
    BY <1>1, <1>2, TailWaiting DEF e
  <2> HIDE DEF W
  <2>4. missed \subseteq missed' /\ topic \notin missed
    BY <1>1 DEF PublishState
  <2>5. Shows(bus, broker, topic, cache[i].caps[cap])
    BY <1>2, <2>4 DEF Latest, Now
  <2> HIDE DEF topic
  <2>6. CASE W = {1}
    <3>1. e.kind = "state" /\ e.topic = topic
      BY <2>3, <2>6
    <3>2. Connected
      BY <1>1, <2>2, <2>6, <3>1 DEF PublishState, topic
    <3>3. broker'[topic] = e.val
      BY <1>1, <1>2, <2>1, <3>1, <3>2 DEF PublishState
    <3> QED
      BY <1>1, <1>2, <2>5, <2>6, <3>3, TailLastShows DEF e, W, topic
  <2>7. CASE W # {1}
    <3>1. broker'[topic] = broker[topic] \/ 1 \in W
      BY <1>1, <1>2, <2>1, <2>3 DEF PublishState
    <3> QED
      BY <1>1, <1>2, <2>5, <2>7, <3>1, TailOtherShows DEF W, topic
  <2> QED
    BY <2>6, <2>7
<1>8. Good(Now', broker')
  BY <1>1, <1>2, <1>6, <1>7 DEF Good, Now
<1>9. Mirrors' /\ LocalShown'
  BY <1>1, CacheKept DEF IInv
<1>10. Nodes' /\ Tables'
  BY <1>1, <1>5 DEF IInv, Nodes, Tables
<1> QED
  BY <1>8, <1>9, <1>10 DEF IInv

-----------------------------------------------------------------------------
(* The start, and all steps.                                               *)

(* What the entry of the local node holds.                                 *)
LEMMA LocalCapsAre ==
  CapsOf(<<LocalEndpoint>>) = LocalCaps
<1> DEFINE eps == <<LocalEndpoint>>
           P == Places(eps)
<1>1. P = {<<1, 1>>, <<1, 2>>}
  <2>1. DOMAIN eps = {1} /\ eps[1].clusters = <<"onoff", "temperature">>
    BY DEF LocalEndpoint
  <2>2. DOMAIN <<"onoff", "temperature">> = {1, 2}
    OBVIOUS
  <2>3. 1 \in 1 .. MaxEndpoints /\ {1, 2} \subseteq 1 .. MaxClusters
    BY SizesArePositive
  <2>4. "onoff" \in Mapped /\ "temperature" \in Mapped
    BY DEF Mapped, ClusterMap
  <2> HIDE DEF eps
  <2> QED
    BY <2>1, <2>2, <2>3, <2>4 DEF Places
<1>2. \A p \in P : Cardinality({r \in P : Before(r, p)}) < MaxNodeCaps
  <2>1. {r \in P : Before(r, <<1, 1>>)} = {}
    BY <1>1 DEF Before
  <2>2. {r \in P : Before(r, <<1, 2>>)} = {<<1, 1>>}
    BY <1>1 DEF Before
  <2>3. Cardinality({}) = 0 /\ Cardinality({<<1, 1>>}) = 1
    BY FS_EmptySet, FS_Singleton
  <2> QED
    BY <1>1, <2>1, <2>2, <2>3, SizesArePositive
<1>3. CapsOf(eps) = {ClusterMap[eps[p[1]].clusters[p[2]]] : p \in P}
  BY <1>2 DEF CapsOf
<1>4. /\ ClusterMap[eps[1].clusters[1]] = "light.on"
      /\ ClusterMap[eps[1].clusters[2]] = "sensor.temperature"
  BY DEF ClusterMap, LocalEndpoint
<1> HIDE DEF P, eps
<1> QED
  BY <1>1, <1>3, <1>4 DEF LocalCaps, eps

LEMMA BootedIs ==
  ASSUME NEW r \in Polls, NEW b
  PROVE  LET n == Booted(r)
         IN  /\ Good(n, b)
             /\ Len(n.cache) = 1 /\ n.cache[1].addr = Local
             /\ DOMAIN n.cache[1].caps = LocalCaps
             /\ \A cap \in LocalCaps : CapState(n.cache, Local, cap) = First(r)[cap]
<1> DEFINE e  == Blank(Local, <<LocalEndpoint>>)
           c  == <<e>>
           t0 == [cache |-> c, bus |-> << >>, missed |-> {}]
           t1 == Emitted(t0, Other)
           s0 == Emitted(t1, Other)
           s1 == Reported(s0, Local, "light.on", First(r)["light.on"])
           s2 == Reported(s1, Local, "sensor.temperature", First(r)["sensor.temperature"])
<1>1. /\ e \in Entries /\ e.addr = Local /\ DOMAIN e.caps = LocalCaps
      /\ \A cap \in LocalCaps : e.caps[cap] = NoValue
  BY LocalAssumption, LocalCapsAre, BlankIs
<1> HIDE DEF e
<1>2. c \in Seq(Entries) /\ Len(c) = 1 /\ DOMAIN c = {1} /\ c[1] = e
  BY <1>1
<1> HIDE DEF c
<1>3. Good(t0, b)
  <2>1. << >> \in Seq(Events) /\ Len(<< >>) = 0
    BY EmptySeq
  <2>2. t0.cache = c /\ t0 \in States /\ Fits(t0)
    BY <1>2, <2>1, SizesArePositive DEF States, Fits
  <2>3. Unique(t0.cache)
    BY <1>2 DEF Unique
  <2>4. Latest(t0, b)
    BY <1>1, <1>2 DEF Latest
  <2> QED
    BY <2>2, <2>3, <2>4 DEF Good
<1>4. Good(s0, b) /\ s0.cache = c
  <2>1. t0.cache = c
    OBVIOUS
  <2> HIDE DEF t0
  <2>2. Good(t1, b) /\ t1.cache = c
    BY <1>3, <2>1, OtherGood
  <2> HIDE DEF t1
  <2> QED
    BY <2>2, OtherGood
<1>5. /\ {"light.on", "sensor.temperature"} \subseteq Caps
      /\ First(r)["light.on"] \in Int /\ First(r)["sensor.temperature"] \in Int
      /\ \A cap \in LocalCaps : Value(cap, First(r)[cap]) = First(r)[cap]
  BY RawAssumption DEF Caps, ClusterMap, Mapped, LocalCaps, Polls, First, Value
<1>6. \A cap \in LocalCaps : HasCap(c, Local, cap)
  <2>1. Unique(c) /\ CacheOf(c, Local) # {}
    BY <1>1, <1>2 DEF Unique, CacheOf
  <2>2. FindCache(c, Local) = 1
    BY <1>1, <1>2, <2>1, FindCacheIs
  <2> QED
    BY <1>1, <1>2, <2>1, <2>2 DEF HasCap
<1> HIDE DEF s0
<1>7. OnlyReported(s0, s1, b, Local, "light.on", First(r)["light.on"])
  <2>1. Value("light.on", First(r)["light.on"]) = First(r)["light.on"]
    BY <1>5 DEF LocalCaps
  <2>2. OnlyReported(s0, s1, b, Local, "light.on", Value("light.on", First(r)["light.on"]))
    BY <1>4, <1>5, LocalAssumption, ReportedIs
  <2> QED
    BY <2>1, <2>2
<1> HIDE DEF s1
<1>8. OnlyReported(s1, s2, b, Local, "sensor.temperature", First(r)["sensor.temperature"])
  <2>1. Value("sensor.temperature", First(r)["sensor.temperature"]) = First(r)["sensor.temperature"]
    BY <1>5 DEF LocalCaps
  <2>2. Good(s1, b)
    BY <1>7 DEF OnlyReported
  <2>3. OnlyReported(s1, s2, b, Local, "sensor.temperature",
                     Value("sensor.temperature", First(r)["sensor.temperature"]))
    BY <1>5, <2>2, LocalAssumption, ReportedIs
  <2> QED
    BY <2>1, <2>3
<1>9. Booted(r) = s2
  BY DEF Booted, s0, s1, e, c
<1> HIDE DEF s2
<1>10. SameShape(c, s1.cache) /\ SameShape(s1.cache, s2.cache) /\ Good(s2, b)
  BY <1>4, <1>7, <1>8 DEF OnlyReported
<1>11. SameShape(c, s2.cache)
  BY <1>10 DEF SameShape
<1>12. \A cap \in LocalCaps : HasCap(s1.cache, Local, cap)
  <2>1. Unique(c)
    BY <1>2 DEF Unique
  <2> QED
    BY <1>2, <1>6, <1>10, <2>1, ShapeFinds
<1>13. ASSUME NEW cap \in LocalCaps
       PROVE  CapState(s2.cache, Local, cap) = First(r)[cap]
  BY <1>4, <1>6, <1>7, <1>8, <1>12 DEF OnlyReported, LocalCaps
<1> QED
  BY <1>1, <1>2, <1>9, <1>10, <1>11, <1>13 DEF SameShape

LEMMA PairIsSeq ==
  ASSUME NEW S, NEW x \in S, NEW y \in S
  PROVE  <<x, y>> \in Seq(S)
OBVIOUS

LEMMA InitIInv ==
  ASSUME Init
  PROVE  IInv
<1>1. /\ registered = {Local} /\ computed = {Local} /\ polled \in Polls
      /\ endpoints = [a \in Addr |-> IF a = Local THEN <<LocalEndpoint>> ELSE << >>]
      /\ mqtt = "DISCONNECTED" /\ broker = [topic \in Topics |-> NoValue]
  BY DEF Init
<1>2. /\ Good(Booted(polled), broker)
      /\ Len(Booted(polled).cache) = 1 /\ Booted(polled).cache[1].addr = Local
      /\ DOMAIN Booted(polled).cache[1].caps = LocalCaps
      /\ \A cap \in LocalCaps : CapState(Booted(polled).cache, Local, cap) = First(polled)[cap]
  BY <1>1, BootedIs
<1>3. Now = Booted(polled) /\ cache = Booted(polled).cache
  BY <1>2 DEF Init, Now, Good, States
<1>4. /\ Good(Now, broker) /\ Len(cache) = 1 /\ cache[1].addr = Local
      /\ DOMAIN cache[1].caps = LocalCaps
      /\ \A cap \in LocalCaps : CapState(cache, Local, cap) = First(polled)[cap]
  BY <1>2, <1>3
<1>5. DOMAIN cache = {1} /\ CacheOf(cache, Local) = {1} /\ FindCache(cache, Local) = 1
  <2>1. DOMAIN cache = {1} /\ Unique(cache)
    BY <1>4, NowIs, LenProperties
  <2> QED
    BY <1>4, <2>1, FindCacheIs DEF CacheOf
<1>6. LocalShown
  BY <1>4, <1>5 DEF LocalShown, HasCap
<1>7. Mirrors
  BY <1>1, <1>4, <1>5, LocalCapsAre, LocalAssumption DEF Mirrors
<1>8. Nodes
  BY <1>1, LocalAssumption DEF Nodes, Known
<1>9. Tables
  <2>1. <<LocalEndpoint>> \in Seq(Endpoint) /\ Len(<<LocalEndpoint>>) = 1
        /\ DOMAIN <<LocalEndpoint>> = {1} /\ <<LocalEndpoint>>[1] = LocalEndpoint
    <3>1. LocalEndpoint \in Endpoint
      <4>1. <<"onoff", "temperature">> \in Seq(Clusters)
        <5>1. "onoff" \in Clusters /\ "temperature" \in Clusters
          BY ClustersAssumption DEF Mapped, ClusterMap
        <5> QED
          BY <5>1, PairIsSeq
      <4> DEFINE c == <<"onoff", "temperature">>
      <4> HIDE DEF c
      <4>2. [id |-> 1, clusters |-> c] \in Endpoint
        BY <4>1 DEF Endpoint, c
      <4> QED
        BY <4>2 DEF LocalEndpoint, c
    <3> QED
      BY <3>1
  <2>2. << >> \in Seq(Endpoint) /\ Len(<< >>) = 0 /\ DOMAIN << >> = {}
    BY EmptySeq
  <2>3. Len(LocalEndpoint.clusters) = 2
    BY DEF LocalEndpoint
  <2>4. \A a \in Devices : Len(Offers[a]) \in Nat
    BY OfferIs
  <2> DEFINE one == <<LocalEndpoint>>
  <2> HIDE DEF one
  <2>5. endpoints = [a \in Addr |-> IF a = Local THEN one ELSE << >>]
    BY <1>1 DEF one
  <2>6. endpoints \in [Addr -> Seq(Endpoint)]
    BY <2>1, <2>2, <2>5 DEF one
  <2>7. ASSUME NEW a \in Addr
        PROVE  /\ Len(endpoints[a]) <= MaxEndpoints
               /\ \A i \in DOMAIN endpoints[a] : Len(endpoints[a][i].clusters) <= MaxClusters
               /\ a \in Devices => Len(endpoints[a]) <= Len(Offers[a])
    <3>1. CASE a = Local
      <4>1. endpoints[a] = one /\ a \notin Devices
        BY <2>5, <3>1 DEF Devices
      <4>2. Len(one) = 1 /\ DOMAIN one = {1} /\ one[1] = LocalEndpoint
        BY <2>1 DEF one
      <4>3. 1 <= MaxEndpoints /\ Len(LocalEndpoint.clusters) <= MaxClusters
        BY <2>3, SizesArePositive
      <4>4. \A i \in DOMAIN one : one[i] = LocalEndpoint
        BY <4>2
      <4> QED
        BY <4>1, <4>2, <4>3, <4>4
    <3>2. CASE a # Local
      <4>1. endpoints[a] = << >>
        BY <2>5, <3>2
      <4> QED
        BY <2>2, <2>4, <4>1, SizesArePositive
    <3> QED
      BY <3>1, <3>2
  <2> QED
    BY <2>6, <2>7 DEF Tables, Devices
<1> QED
  BY <1>4, <1>6, <1>7, <1>8, <1>9 DEF IInv

LEMMA StepIInv ==
  ASSUME IInv, [Next]_vars
  PROVE  IInv'
<1>1. CASE UNCHANGED vars
  BY <1>1 DEF IInv, Nodes, Tables, Mirrors, LocalShown, Good, Now, HasCap, CapState, First,
              FindCache, CacheOf, vars, registryVars, busVars, brokerVars
<1>2. ASSUME NEW a \in Devices,
             \/ AddNode(a) \/ RemoveNode(a) \/ Compute(a)
             \/ ActiveEndpoints(a) \/ SimpleDescriptors(a)
      PROVE  IInv'
  BY <1>2, AddNodeInv, RemoveNodeInv, ComputeInv, ActiveEndpointsInv, SimpleDescriptorsInv
<1>3. ASSUME NEW a \in Devices, NEW cluster \in Mapped,
             NEW raw \in Raw[ClusterMap[cluster]], Report(a, cluster, raw)
      PROVE  IInv'
  BY <1>3, ReportInv
<1>4. ASSUME NEW r \in Polls, Poll(r)
      PROVE  IInv'
  BY <1>4, PollInv
<1>5. CASE Command \/ Connect \/ Disconnect \/ Dispatch
  BY <1>5, CommandInv, ConnectionInv, DispatchInv
<1> QED
  BY <1>1, <1>2, <1>3, <1>4, <1>5 DEF Next

-----------------------------------------------------------------------------
(* The theorems.                                                           *)

LEMMA Invariance ==
  Safety => []IInv
<1>1. Init => IInv
  BY InitIInv
<1>2. IInv /\ [Next]_vars => IInv'
  BY StepIInv
<1> QED
  BY <1>1, <1>2, PTL DEF Safety

LEMMA SpecIsSafe ==
  Spec => []IInv
BY Invariance, PTL DEF Spec, Safety

(* The tables, the cache and the queue keep their types, and none of them  *)
(* grows beyond its size.                                                  *)
THEOREM Types ==
  Spec => []TypeOK
<1>1. IInv => TypeOK
  <2> SUFFICES ASSUME IInv PROVE TypeOK
    OBVIOUS
  <2>1. /\ cache \in Seq(Entries) /\ bus \in Seq(Events) /\ missed \subseteq Topics
        /\ Len(cache) <= MaxCache /\ Len(bus) <= BusSize
    BY NowIs DEF IInv
  <2>2. \A i \in DOMAIN cache : IsEntry(cache[i])
    <3> SUFFICES ASSUME NEW i \in DOMAIN cache PROVE IsEntry(cache[i])
      OBVIOUS
    <3>1. cache[i] \in Entries
      BY <2>1, EntryIs
    <3> QED
      BY <3>1 DEF IsEntry, Entries
  <2>3. \A i \in DOMAIN bus : IsEvent(bus[i])
    <3> SUFFICES ASSUME NEW i \in DOMAIN bus PROVE IsEvent(bus[i])
      OBVIOUS
    <3>1. bus[i] \in Events
      BY <2>1, ElementOfSeq, LenProperties
    <3> QED
      BY <3>1 DEF IsEvent, Events
  <2> QED
    BY <2>1, <2>2, <2>3 DEF IInv, Nodes, Tables, Endpoint, TypeOK
<1> QED
  BY <1>1, SpecIsSafe, PTL

(* However often nodes come, change, are computed again and leave, a node  *)
(* has one entry at most, with the capabilities of its clusters, and none  *)
(* only when the cache is full.                                            *)
THEOREM CacheHasNodes ==
  Spec => []CacheMirrors
<1>1. IInv => CacheMirrors
  <2> SUFFICES ASSUME IInv PROVE CacheMirrors
    OBVIOUS
  <2>1. cache \in Seq(Entries) /\ Unique(cache)
    BY NowIs DEF IInv
  <2>2. OneEntry
    <3> SUFFICES ASSUME NEW a \in Addr PROVE Cardinality(CacheOf(cache, a)) <= 1
      BY DEF OneEntry
    <3>1. CASE CacheOf(cache, a) = {}
      BY <3>1, FS_EmptySet
    <3>2. CASE CacheOf(cache, a) # {}
      <4>1. PICK i \in DOMAIN cache : cache[i].addr = a
        BY <3>2 DEF CacheOf
      <4>2. CacheOf(cache, a) = {i}
        BY <2>1, <4>1 DEF CacheOf, Unique
      <4>3. Cardinality({i}) = 1
        BY FS_Singleton
      <4> QED
        BY <4>2, <4>3
    <3> QED
      BY <3>1, <3>2
  <2>3. ASSUME NEW a \in computed
        PROVE  IF CacheOf(cache, a) = {} THEN Len(cache) = MaxCache
               ELSE DOMAIN cache[FindCache(cache, a)].caps = CapsOf(endpoints[a])
    <3>1. CASE CacheOf(cache, a) # {}
      <4>1. FindCache(cache, a) \in CacheOf(cache, a)
        BY <2>1, <3>1, FoundIs DEF CacheOf
      <4> QED
        BY <3>1, <4>1 DEF IInv, Mirrors
    <3> QED
      BY <3>1 DEF IInv, Mirrors
  <2> QED
    BY <2>2, <2>3 DEF CacheMirrors
<1> QED
  BY <1>1, SpecIsSafe, PTL

LEMMA CacheIsShown ==
  ASSUME IInv
  PROVE  BrokerCurrent
<1> SUFFICES ASSUME NEW a \in Addr, NEW cap \in Caps,
                    HasCap(cache, a, cap), CapState(cache, a, cap) # NoValue,
                    Waiting(<<a, cap>>) = {}, <<a, cap>> \notin missed
             PROVE  broker[<<a, cap>>] = CapState(cache, a, cap)
  BY DEF BrokerCurrent
<1> DEFINE f == FindCache(cache, a)
<1>1. cache \in Seq(Entries) /\ Unique(cache) /\ Latest(Now, broker)
  BY NowIs DEF IInv, Good
<1>2. f \in DOMAIN cache /\ cache[f].addr = a /\ cap \in DOMAIN cache[f].caps
  BY <1>1, FoundIs DEF HasCap
<1>3. cache[f].caps[cap] = CapState(cache, a, cap)
  BY DEF CapState
<1> HIDE DEF f
<1>4. Shows(bus, broker, <<a, cap>>, cache[f].caps[cap])
  BY <1>1, <1>2, <1>3 DEF Latest, Now
<1>5. WaitingIn(bus, <<a, cap>>) = {}
  BY DEF Waiting, WaitingIn
<1> QED
  BY <1>3, <1>4, <1>5 DEF Shows

(* When no event of a capability waits, the broker shows what the cache    *)
(* says, unless the newest value met a full bus or a lost connection.      *)
THEOREM BrokerShowsCache ==
  Spec => []BrokerCurrent
<1>1. IInv => BrokerCurrent
  BY CacheIsShown
<1> QED
  BY <1>1, SpecIsSafe, PTL

(* The local node's capabilities are what was last polled, but for a       *)
(* temperature that has not changed since the start.                       *)
THEOREM LocalNodeShown ==
  Spec => []LocalShown
<1>1. IInv => LocalShown
  BY DEF IInv
<1> QED
  BY <1>1, SpecIsSafe, PTL

-----------------------------------------------------------------------------
(* What SensorShown rests on besides the dispatcher's fairness.            *)

(* When none of its events waits or was lost, a local reading is what the  *)
(* broker shows.                                                           *)
SensorSettled ==
  \A cap \in LocalCaps :
    Waiting(<<Local, cap>>) = {} /\ <<Local, cap>> \notin missed
    => broker[<<Local, cap>>] \in {polled[cap], First(polled)[cap]}

(* While a reading stays as it is, its events only move to the front:      *)
(* every dispatch brings each of them one place further, the first one to  *)
(* the broker, and no other step adds one, whatever others put on the bus. *)
NextPlaces(W) == {k \in 1 .. BusSize : k + 1 \in W}

ReadingsMoveOn ==
  [][\A cap \in LocalCaps : polled'[cap] = polled[cap] =>
       WaitingIn(bus', <<Local, cap>>) =
         IF Dispatch THEN NextPlaces(WaitingIn(bus, <<Local, cap>>))
                     ELSE WaitingIn(bus, <<Local, cap>>)]_vars

LEMMA EmittedWaiting ==
  ASSUME NEW s, s.bus \in Seq(Events), NEW e \in Events, NEW topic, topic \notin TopicOf(e)
  PROVE  WaitingIn(Emitted(s, e).bus, topic) = WaitingIn(s.bus, topic)
<1>1. Emitted(s, e).bus = Append(s.bus, e) \/ Emitted(s, e).bus = s.bus
  BY DEF Emitted
<1>2. WaitingIn(Append(s.bus, e), topic) = WaitingIn(s.bus, topic)
  <2> DEFINE q == s.bus
  <2>1. q \in Seq(Events)
    OBVIOUS
  <2> HIDE DEF q
  <2>2. WaitingIn(Append(q, e), topic) = WaitingIn(q, topic)
    BY <2>1, AppendOtherWaiting
  <2> QED
    BY <2>2 DEF q
<1> QED
  BY <1>1, <1>2

LEMMA ReportedWaiting ==
  ASSUME NEW s, s.bus \in Seq(Events), NEW a \in Addr, NEW cap \in Caps, NEW raw \in Int,
         NEW topic, topic # <<a, cap>>
  PROVE  WaitingIn(Reported(s, a, cap, raw).bus, topic) = WaitingIn(s.bus, topic)
<1> DEFINE v == Value(cap, raw)
           m == Noted(s, a, cap, v)
           e == State(<<a, cap>>, v)
<1>1. CASE HasCap(s.cache, a, cap)
  <2>1. Reported(s, a, cap, raw) = Emitted(m, e)
    BY <1>1 DEF Reported
  <2>2. m.bus = s.bus
    BY DEF Noted
  <2>3. e \in Events /\ TopicOf(e) = {<<a, cap>>}
    BY ValueIsKnown DEF Events, State, Topics, TopicOf
  <2> HIDE DEF m, e
  <2>4. WaitingIn(Emitted(m, e).bus, topic) = WaitingIn(m.bus, topic)
    BY <2>2, <2>3, EmittedWaiting
  <2> QED
    BY <2>1, <2>2, <2>4
<1>2. CASE ~HasCap(s.cache, a, cap)
  BY <1>2 DEF Reported
<1> QED
  BY <1>1, <1>2

LEMMA ChangedWaiting ==
  ASSUME NEW s, s.bus \in Seq(Events), NEW r \in Polls, NEW cap \in LocalCaps,
         NEW other \in LocalCaps, cap = other => r[cap] = polled[cap]
  PROVE  WaitingIn(Changed(s, r, cap).bus, <<Local, other>>) = WaitingIn(s.bus, <<Local, other>>)
<1>1. CASE r[cap] = polled[cap]
  BY <1>1 DEF Changed
<1>2. CASE r[cap] # polled[cap]
  <2>1. Changed(s, r, cap) = Reported(s, Local, cap, r[cap])
    BY <1>2 DEF Changed
  <2>2. cap \in Caps /\ r[cap] \in Int
    BY RawAssumption DEF LocalCaps, Caps, ClusterMap, Mapped, Polls
  <2>3. <<Local, other>> # <<Local, cap>>
    BY <1>2
  <2> QED
    BY <2>1, <2>2, <2>3, LocalAssumption, ReportedWaiting
<1> QED
  BY <1>1, <1>2

LEMMA ReadingMovesOn ==
  ASSUME IInv, [Next]_vars, NEW cap \in LocalCaps, polled'[cap] = polled[cap]
  PROVE  WaitingIn(bus', <<Local, cap>>) =
           IF Dispatch THEN NextPlaces(WaitingIn(bus, <<Local, cap>>))
                       ELSE WaitingIn(bus, <<Local, cap>>)
<1> DEFINE W == WaitingIn(bus, <<Local, cap>>)
<1>0. bus \in Seq(Events) /\ Len(bus) <= BusSize /\ Good(Now, broker) /\ Now.bus = bus
  BY NowIs DEF IInv
<1>1. CASE Dispatch
  <2>1. WaitingIn(bus', <<Local, cap>>) = {k \in 1 .. Len(bus) - 1 : k + 1 \in W}
    BY <1>0, <1>1, TailWaiting DEF Dispatch
  <2>2. W \subseteq 1 .. Len(bus) /\ Len(bus) \in Nat
    BY <1>0, LenProperties DEF WaitingIn
  <2>3. BusSize \in Nat
    BY SizesArePositive
  <2> HIDE DEF W
  <2>4. {k \in 1 .. Len(bus) - 1 : k + 1 \in W} = NextPlaces(W)
    BY <1>0, <2>2, <2>3, SMT DEF NextPlaces
  <2> QED
    BY <1>1, <2>1, <2>4 DEF W
<1>2. CASE ~Dispatch
  <2> SUFFICES WaitingIn(bus', <<Local, cap>>) = W
    BY <1>2
  <2>1. CASE bus' = bus
    BY <2>1
  <2>2. ASSUME Emit(Other) PROVE WaitingIn(bus', <<Local, cap>>) = W
    <3>1. bus' = Emitted(Now, Other).bus
      BY <2>2 DEF Emit, Become
    <3>2. Other \in Events /\ TopicOf(Other) = {}
      BY DEF Events, Other, TopicOf
    <3> QED
      BY <1>0, <3>1, <3>2, EmittedWaiting
  <2>3. ASSUME NEW a \in Devices, NEW cluster \in Mapped,
               NEW raw \in Raw[ClusterMap[cluster]], Report(a, cluster, raw)
        PROVE  WaitingIn(bus', <<Local, cap>>) = W
    <3>1. bus' = Reported(Now, a, ClusterMap[cluster], raw).bus
      BY <2>3 DEF Report, Become
    <3>2. /\ ClusterMap[cluster] \in Caps /\ raw \in Int /\ a \in Addr
          /\ <<Local, cap>> # <<a, ClusterMap[cluster]>>
      BY RawAssumption DEF Caps, Devices
    <3> QED
      BY <1>0, <3>1, <3>2, ReportedWaiting
  <2>4. ASSUME NEW r \in Polls, Poll(r) PROVE WaitingIn(bus', <<Local, cap>>) = W
    <3> DEFINE m == Changed(Now, r, "light.on")
    <3>1. bus' = Changed(m, r, "sensor.temperature").bus /\ r[cap] = polled[cap]
      BY <2>4 DEF Poll, Become
    <3>2. "light.on" \in LocalCaps /\ "sensor.temperature" \in LocalCaps
      BY DEF LocalCaps
    <3>3. WaitingIn(m.bus, <<Local, cap>>) = W
      BY <1>0, <3>1, <3>2, ChangedWaiting
    <3>4. m.bus \in Seq(Events)
      BY <1>0, <3>2, LocalAssumption, ChangedIs DEF Good, States
    <3> HIDE DEF m
    <3>5. WaitingIn(Changed(m, r, "sensor.temperature").bus, <<Local, cap>>)
            = WaitingIn(m.bus, <<Local, cap>>)
      BY <3>1, <3>2, <3>4, ChangedWaiting
    <3> QED
      BY <3>1, <3>3, <3>5
  <2> QED
    BY <1>2, <2>1, <2>2, <2>3, <2>4
       DEF Next, vars, busVars, AddNode, RemoveNode, Compute, ActiveEndpoints,
           SimpleDescriptors, Describe, Command, Connect, Disconnect
<1> QED
  BY <1>1, <1>2

(* A reading of the local node that stays is at the broker after as many   *)
(* dispatches as events wait, unless it is lost.                           *)
THEOREM ReadingsArrive == Spec => []SensorSettled /\ ReadingsMoveOn
<1>1. IInv => SensorSettled
  <2> SUFFICES ASSUME IInv, NEW cap \in LocalCaps,
                      Waiting(<<Local, cap>>) = {}, <<Local, cap>> \notin missed
               PROVE  broker[<<Local, cap>>] \in {polled[cap], First(polled)[cap]}
    BY DEF SensorSettled
  <2>1. /\ HasCap(cache, Local, cap)
        /\ CapState(cache, Local, cap) \in {polled[cap], First(polled)[cap]}
    BY DEF IInv, LocalShown
  <2>2. CapState(cache, Local, cap) # NoValue
    <3>1. polled[cap] \in Int
      BY RawAssumption DEF IInv, Nodes, Polls, LocalCaps, Caps, ClusterMap, Mapped
    <3>2. First(polled)[cap] \in Int
      BY <3>1 DEF First
    <3> QED
      BY <2>1, <3>1, <3>2, RawAssumption
  <2>3. Local \in Addr /\ cap \in Caps
    BY LocalAssumption DEF LocalCaps, Caps, ClusterMap, Mapped
  <2> QED
    BY <2>1, <2>2, <2>3, CacheIsShown DEF BrokerCurrent
<1>2. IInv /\ [Next]_vars =>
        [\A cap \in LocalCaps : polled'[cap] = polled[cap] =>
           WaitingIn(bus', <<Local, cap>>) =
             IF Dispatch THEN NextPlaces(WaitingIn(bus, <<Local, cap>>))
                         ELSE WaitingIn(bus, <<Local, cap>>)]_vars
  BY ReadingMovesOn
<1> QED
  BY <1>1, <1>2, SpecIsSafe, PTL DEF Spec, ReadingsMoveOn

=============================================================================

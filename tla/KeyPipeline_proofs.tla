-------------------------- MODULE KeyPipeline_proofs --------------------------
(***************************************************************************)
(* Proofs about KeyPipeline, for any keys, any buffer, any scanner and     *)
(* whatever macros do: every variable keeps its type, the postponer's      *)
(* buffer never holds more than POSTPONER_BUFFER_SIZE events, and no event *)
(* of an ordinary key is lost, overtaken or swallowed.                     *)
(***************************************************************************)
EXTENDS KeyPipeline, FiniteSetTheorems, SequenceTheorems, TLAPS

-----------------------------------------------------------------------------
(* The inductive invariant.                                                *)

\* Events of keys that are not dual-role keys are what NothingLost is about.
Ordinary == Keys \ DualKeys
Same(s, t) == \A k \in Ordinary: Eventually(t, k) <=> Eventually(s, k)

\* A key state may be committed directly only past a queue without key events:
\* eventsShouldBeQueued is computed before the cycle, and what is queued during
\* the cycle is queued because somebody postpones, but for the mouse event.
Direct ==
    /\ pc = "input" => "NativePostponing" \in kb.vector
    /\ pc = "keys" /\ ~ShouldQueue(kb) => OnlyMouse(kb)

Inv == TypeOK /\ Direct /\ NothingLost

-----------------------------------------------------------------------------
(* Keys, queues and the fate of a key.                                     *)

\* The first key is 1, keys are numbers and the mouse is not one of them.
LEMMA KeyFacts == 1 \in Keys /\ Keys \subseteq Nat /\ Mouse \notin Keys /\ NoKey \notin Keys
<1>1. PICK n: n = Cardinality(Keys)
    OBVIOUS
<1>2. n \in Nat /\ Keys = 1..n /\ Mouse = n + 1
    BY <1>1, KeyAssumption, FS_CardinalityType DEF Mouse
<1>3. PICK k: k \in 1..n
    BY <1>2, KeyAssumption
<1> QED BY <1>2, <1>3 DEF NoKey

\* The main loop starts with key 1, the first.
LEMMA FirstKey == \A k \in Keys: ~(k < 1)
<1>1. PICK n: n = Cardinality(Keys)
    OBVIOUS
<1>2. n \in Nat /\ Keys = 1..n
    BY <1>1, KeyAssumption, FS_CardinalityType
<1> QED BY <1>2

\* The values of the buffer.
LEMMA Queues == BoundedSeq(Event, BufferSize) = {q \in Seq(Event): Len(q) <= BufferSize}
<1>1. ASSUME NEW q \in BoundedSeq(Event, BufferSize) PROVE q \in Seq(Event) /\ Len(q) <= BufferSize
    <2>1. PICK n \in 0..BufferSize: q \in [1..n -> Event]
        BY <1>1 DEF BoundedSeq, SeqOf
    <2>2. n \in Nat /\ n <= BufferSize
        BY BufferAssumption
    <2>3. q \in Seq(Event) /\ Len(q) = n
        <3>1. q \in Seq(Event)
            BY <2>1, <2>2, SeqDef
        <3>2. DOMAIN q = 1..n /\ DOMAIN q = 1..Len(q) /\ Len(q) \in Nat
            BY <2>1, <3>1, LenProperties
        <3> QED BY <2>2, <3>1, <3>2
    <2> QED BY <2>2, <2>3
<1>2. ASSUME NEW q \in Seq(Event), Len(q) <= BufferSize PROVE q \in BoundedSeq(Event, BufferSize)
    <2>1. q \in [1..Len(q) -> Event] /\ Len(q) \in 0..BufferSize
        BY <1>2, BufferAssumption
    <2> QED BY <2>1 DEF BoundedSeq, SeqOf
<1> QED BY <1>1, <1>2

\* The fate of a key depends on the queue and on its own state only.
LEMMA Unmoved ==
    ASSUME NEW s, NEW t, s.queue = t.queue,
           \A k \in Ordinary: k \in s.current <=> k \in t.current
    PROVE  Same(s, t)
BY DEF Same, Eventually

\* Setting and clearing bits moves no key.
LEMMA SetsBits ==
    ASSUME NEW s \in KeyboardState, NEW bits \in SUBSET Bits
    PROVE  LET t == set(s, bits)
           IN  /\ t \in KeyboardState
               /\ t.queue = s.queue /\ t.current = s.current /\ t.previous = s.previous
               /\ t.vector = s.vector \cup bits
BY DEF KeyboardState, set

\* Clearing bits moves no key either.
LEMMA ClearsBits ==
    ASSUME NEW s \in KeyboardState, NEW bits \in SUBSET Bits
    PROVE  LET t == unset(s, bits)
           IN  /\ t \in KeyboardState
               /\ t.queue = s.queue /\ t.current = s.current /\ t.previous = s.previous
               /\ t.vector = s.vector \ bits
BY DEF KeyboardState, unset

\* Nor does waking macros.
LEMMA WakesMacros ==
    ASSUME NEW s \in KeyboardState
    PROVE  LET t == wakeMacros(s)
           IN  /\ t \in KeyboardState
               /\ t.queue = s.queue /\ t.current = s.current /\ t.previous = s.previous
               /\ s.vector \subseteq t.vector
<1>1. {"MacroEngine"} \in SUBSET Bits
    BY DEF Bits, WakeBits
<1> QED BY <1>1, SetsBits DEF wakeMacros

\* The fate of key k, for a queue q past the key states C.
Fate(q, C, k) ==
    \/ \E i \in 1..Len(q): /\ q[i].key = k /\ q[i].active
                           /\ \A j \in 1..Len(q): q[j].key = k => j <= i
    \/ k \in C /\ \A i \in 1..Len(q): q[i].key # k

\* The fate of a key, spelled out.
LEMMA FateOfKey ==
    ASSUME NEW s \in KeyboardState, NEW k
    PROVE  Eventually(s, k) <=> Fate(s.queue, s.current, k)
<1>1. s.queue \in Seq(Event)
    BY Queues DEF KeyboardState
<1>2. DOMAIN s.queue = 1..Len(s.queue)
    BY <1>1, LenProperties
<1> QED BY <1>2 DEF Eventually, Fate

\* The oldest event takes effect: either it was not the last word on its key, or
\* its key is then in the state it says.
LEMMA FateOfTail ==
    ASSUME NEW q \in Seq(Event), q # <<>>, NEW C, NEW D, NEW k \in Keys,
           k \in D <=> IF Head(q).key = k THEN Head(q).active ELSE k \in C
    PROVE  Fate(Tail(q), D, k) <=> Fate(q, C, k)
<1>1. /\ Head(q) = q[1] /\ q[1] \in Event /\ Len(q) \in Nat \ {0}
      /\ Len(Tail(q)) = Len(q) - 1
      /\ \A i \in 1..(Len(q) - 1): Tail(q)[i] = q[i + 1]
    BY HeadTailProperties, LenProperties
<1>2. \A i \in 1..Len(q): i = 1 \/ (i - 1 \in 1..(Len(q) - 1) /\ Tail(q)[i - 1] = q[i])
    BY <1>1
<1>3. CASE \E i \in 2..Len(q): q[i].key = k
    <2>1. ASSUME Fate(q, C, k) PROVE Fate(Tail(q), D, k)
        <3>1. PICK i \in 1..Len(q): /\ q[i].key = k /\ q[i].active
                                    /\ \A j \in 1..Len(q): q[j].key = k => j <= i
            BY <1>1, <1>3, <2>1 DEF Fate
        <3>2. i - 1 \in 1..(Len(q) - 1) /\ Tail(q)[i - 1] = q[i]
            BY <1>1, <1>2, <1>3, <3>1
        <3>3. \A j \in 1..(Len(q) - 1): Tail(q)[j].key = k => j <= i - 1
            BY <1>1, <3>1
        <3> QED BY <1>1, <3>1, <3>2, <3>3 DEF Fate
    <2>2. ASSUME Fate(Tail(q), D, k) PROVE Fate(q, C, k)
        <3>1. PICK m \in 2..Len(q): q[m].key = k
            BY <1>3
        <3>2. m - 1 \in 1..(Len(q) - 1) /\ Tail(q)[m - 1].key = k
            BY <1>1, <1>2, <3>1
        <3>3. PICK i \in 1..(Len(q) - 1): /\ Tail(q)[i].key = k /\ Tail(q)[i].active
                                          /\ \A j \in 1..(Len(q) - 1): Tail(q)[j].key = k => j <= i
            BY <1>1, <2>2, <3>2 DEF Fate
        <3>4. i + 1 \in 1..Len(q) /\ q[i + 1].key = k /\ q[i + 1].active
            BY <1>1, <3>3
        <3>5. ASSUME NEW j \in 1..Len(q), q[j].key = k PROVE j <= i + 1
            <4>1. CASE j = 1
                BY <4>1, <1>1
            <4>2. CASE j # 1
                <5>1. j - 1 \in 1..(Len(q) - 1) /\ Tail(q)[j - 1].key = k
                    BY <1>2, <3>5, <4>2
                <5>2. j - 1 <= i
                    BY <3>3, <5>1
                <5> QED BY <5>2, <1>1
            <4> QED BY <4>1, <4>2
        <3> QED BY <3>4, <3>5 DEF Fate
    <2> QED BY <2>1, <2>2
<1>4. CASE ~\E i \in 2..Len(q): q[i].key = k
    <2>1. \A i \in 1..(Len(q) - 1): Tail(q)[i].key # k
        BY <1>1, <1>4
    <2>2. Fate(Tail(q), D, k) <=> k \in D
        BY <1>1, <2>1 DEF Fate
    <2>3. CASE q[1].key = k
        <3>1. Fate(q, C, k) <=> q[1].active
            BY <1>1, <1>4, <2>3 DEF Fate
        <3> QED BY <1>1, <2>2, <2>3, <3>1
    <2>4. CASE q[1].key # k
        <3>1. \A i \in 1..Len(q): q[i].key # k
            BY <1>1, <1>4, <2>4
        <3>2. Fate(q, C, k) <=> k \in C
            BY <1>1, <3>1 DEF Fate
        <3> QED BY <1>1, <2>2, <2>4, <3>2
    <2> QED BY <2>3, <2>4
<1> QED BY <1>3, <1>4

\* The youngest event is the last word on its key.
LEMMA FateOfAppend ==
    ASSUME NEW q \in Seq(Event), NEW e \in Event, NEW C, NEW k \in Keys
    PROVE  Fate(Append(q, e), C, k) <=> IF e.key = k THEN e.active ELSE Fate(q, C, k)
<1>1. /\ Len(q) \in Nat /\ Len(Append(q, e)) = Len(q) + 1
      /\ \A i \in 1..Len(q): Append(q, e)[i] = q[i]
      /\ Append(q, e)[Len(q) + 1] = e
    BY AppendProperties, LenProperties
<1>2. 1..(Len(q) + 1) = 1..Len(q) \cup {Len(q) + 1}
    BY <1>1
<1>3. CASE e.key = k
    <2>1. Fate(Append(q, e), C, k) <=> e.active
        BY <1>1, <1>2, <1>3 DEF Fate
    <2> QED BY <1>3, <2>1
<1>4. CASE e.key # k
    <2>1. ASSUME NEW i \in 1..(Len(q) + 1), Append(q, e)[i].key = k
          PROVE  i \in 1..Len(q) /\ q[i].key = k
        BY <1>1, <1>2, <1>4, <2>1
    <2>2. Fate(Append(q, e), C, k) => Fate(q, C, k)
        BY <1>1, <1>2, <2>1 DEF Fate
    <2>3. Fate(q, C, k) => Fate(Append(q, e), C, k)
        BY <1>1, <1>2, <1>4 DEF Fate
    <2> QED BY <1>4, <2>2, <2>3
<1> QED BY <1>3, <1>4

-----------------------------------------------------------------------------
(* The postponer.                                                          *)

\* What an event that is consumed changes.
LEMMA ConsumedFields ==
    ASSUME NEW s \in KeyboardState, s.queue # <<>>
    PROVE  LET t == applyEventAndConsume(s)
           IN  /\ t \in KeyboardState
               /\ t.queue = Tail(s.queue)
               /\ t.current = IF Head(s.queue).key = Mouse THEN s.current
                              ELSE put(s.current, Head(s.queue).key, Head(s.queue).active)
               /\ t.previous = s.previous /\ s.vector \subseteq t.vector
               /\ Head(s.queue).key # Mouse => "NativeActions" \in t.vector
<1> DEFINE e == Head(s.queue)
           t == [s EXCEPT !.queue = Tail(@)]
           m == [t EXCEPT !.mouseBlocked = FALSE]
           c == [t EXCEPT !.current = put(@, e.key, e.active)]
<1>1. s.queue \in Seq(Event) /\ Len(s.queue) <= BufferSize
    BY Queues DEF KeyboardState
<1>2. e \in Event /\ Tail(s.queue) \in Seq(Event) /\ Len(Tail(s.queue)) = Len(s.queue) - 1
    BY <1>1, HeadTailProperties
<1>3. Tail(s.queue) \in BoundedSeq(Event, BufferSize)
    BY <1>1, <1>2, Queues, BufferAssumption, LenProperties
<1>4. t \in KeyboardState
    BY <1>3 DEF KeyboardState
<1>5. m \in KeyboardState /\ m.queue = t.queue /\ m.current = t.current /\ m.vector = t.vector
      /\ m.previous = t.previous
    BY <1>4 DEF KeyboardState
<1>6. e.key # Mouse => put(t.current, e.key, e.active) \subseteq Keys
    BY <1>2, <1>4 DEF put, KeyboardState, Event
<1>7. e.key # Mouse => c \in KeyboardState /\ c.queue = t.queue /\ c.vector = t.vector
                       /\ c.current = put(t.current, e.key, e.active) /\ c.previous = t.previous
    BY <1>4, <1>6 DEF KeyboardState
<1>8. t.queue = Tail(s.queue) /\ t.current = s.current /\ t.vector = s.vector /\ t.previous = s.previous
    BY DEF KeyboardState
<1>9. {"NativeActions"} \in SUBSET Bits /\ {"MouseController"} \in SUBSET Bits
    BY DEF Bits, WakeBits
<1>10. CASE e.key = Mouse
    <2> DEFINE u == set(m, {"MouseController"})
    <2>1. /\ u \in KeyboardState /\ u.queue = m.queue /\ u.current = m.current
          /\ m.vector \subseteq u.vector /\ u.previous = m.previous
        <3>1. m \in KeyboardState
            BY <1>5
        <3> HIDE DEF m
        <3> QED BY <1>9, <3>1, SetsBits
    <2>3. applyEventAndConsume(s) = u
        BY <1>10 DEF applyEventAndConsume
    <2> HIDE DEF t, m, u
    <2> QED BY <1>5, <1>8, <1>10, <2>1, <2>3
<1>11. CASE e.key # Mouse
    <2> DEFINE u == set(c, {"NativeActions"})
               w == wakeMacros(u)
    <2>1. /\ c \in KeyboardState
          /\ u \in KeyboardState /\ u.queue = c.queue /\ u.current = c.current
          /\ c.vector \subseteq u.vector /\ u.previous = c.previous /\ "NativeActions" \in u.vector
        <3>1. c \in KeyboardState
            BY <1>7, <1>11
        <3> HIDE DEF c
        <3> QED BY <1>9, <3>1, SetsBits
    <2>3. w \in KeyboardState /\ w.queue = u.queue /\ w.current = u.current /\ u.vector \subseteq w.vector
          /\ w.previous = u.previous
        BY <2>1, WakesMacros
    <2>4. applyEventAndConsume(s) = w
        BY <1>11 DEF applyEventAndConsume
    <2> HIDE DEF t, c, u, w
    <2> QED BY <1>7, <1>8, <1>11, <2>1, <2>3, <2>4
<1> QED BY <1>10, <1>11

\* Consuming the oldest event keeps every promise.
LEMMA Consumed ==
    ASSUME NEW s \in KeyboardState, s.queue # <<>>
    PROVE  /\ Same(s, applyEventAndConsume(s))
           /\ OnlyMouse(s) => OnlyMouse(applyEventAndConsume(s))
<1> DEFINE q == s.queue
           t == applyEventAndConsume(s)
<1>1. q \in Seq(Event)
    BY Queues DEF KeyboardState
<1>2. /\ t \in KeyboardState /\ t.queue = Tail(q)
      /\ t.current = IF Head(q).key = Mouse THEN s.current
                     ELSE put(s.current, Head(q).key, Head(q).active)
    BY ConsumedFields
<1> HIDE DEF t
<1>3. ASSUME NEW k \in Ordinary PROVE Eventually(t, k) <=> Eventually(s, k)
    <2>1. k \in Keys /\ k # Mouse
        BY KeyFacts DEF Ordinary
    <2>2. k \in t.current <=> IF Head(q).key = k THEN Head(q).active ELSE k \in s.current
        BY <1>2, <2>1 DEF put
    <2>3. Fate(Tail(q), t.current, k) <=> Fate(q, s.current, k)
        BY <1>1, <2>1, <2>2, FateOfTail
    <2> QED BY <1>2, <2>3, FateOfKey
<1>4. OnlyMouse(s) => OnlyMouse(t)
    <2>1. DOMAIN q = 1..Len(q) /\ DOMAIN Tail(q) = 1..(Len(q) - 1) /\ Len(q) \in Nat
        BY <1>1, HeadTailProperties, LenProperties
    <2>2. \A i \in DOMAIN Tail(q): i + 1 \in DOMAIN q /\ Tail(q)[i] = q[i + 1]
        BY <1>1, <2>1, HeadTailProperties
    <2> QED BY <1>2, <2>2 DEF OnlyMouse
<1> QED BY <1>3, <1>4 DEF Same, t

\* A buffer that is full makes room by letting its oldest event take effect.
LEMMA Appended ==
    ASSUME NEW s \in KeyboardState, NEW e \in Event
    PROVE  LET t == appendEvent(s, e)
           IN  /\ t \in KeyboardState
               /\ \A k \in Ordinary:
                      Eventually(t, k) <=> IF e.key = k THEN e.active ELSE Eventually(s, k)
               /\ OnlyMouse(s) /\ e.key = Mouse => OnlyMouse(t)
               /\ s.vector \subseteq t.vector
<1> DEFINE r == IF Len(s.queue) = BufferSize THEN applyEventAndConsume(s) ELSE s
           t == appendEvent(s, e)
<1>1. s.queue \in Seq(Event) /\ Len(s.queue) <= BufferSize /\ BufferSize \in Nat \ {0}
    BY Queues, BufferAssumption DEF KeyboardState
<1>2. /\ r \in KeyboardState /\ Same(s, r) /\ (OnlyMouse(s) => OnlyMouse(r))
      /\ s.vector \subseteq r.vector /\ Len(r.queue) < BufferSize
    <2>1. CASE Len(s.queue) = BufferSize
        <3>1. s.queue # <<>>
            BY <1>1, <2>1
        <3>2. Len(Tail(s.queue)) = Len(s.queue) - 1
            BY <1>1, <3>1, HeadTailProperties
        <3>3. r = applyEventAndConsume(s)
            BY <2>1
        <3> HIDE DEF r
        <3>4. /\ r \in KeyboardState /\ r.queue = Tail(s.queue) /\ s.vector \subseteq r.vector
              /\ Same(s, r) /\ (OnlyMouse(s) => OnlyMouse(r))
            BY <3>1, <3>3, ConsumedFields, Consumed
        <3> QED BY <1>1, <2>1, <3>2, <3>4
    <2>2. CASE Len(s.queue) # BufferSize
        <3>1. Len(s.queue) \in Nat
            BY <1>1, LenProperties
        <3> QED BY <1>1, <2>2, <3>1 DEF Same
    <2> QED BY <2>1, <2>2
<1>3. t = [r EXCEPT !.queue = Append(r.queue, e)]
    BY DEF appendEvent
<1> HIDE DEF r, t
<1>4. r.queue \in Seq(Event)
    BY <1>2, Queues DEF KeyboardState
<1>5. Append(r.queue, e) \in Seq(Event) /\ Len(Append(r.queue, e)) = Len(r.queue) + 1 /\ Len(r.queue) \in Nat
    BY <1>4, AppendProperties, LenProperties
<1>6. Append(r.queue, e) \in BoundedSeq(Event, BufferSize)
    BY <1>1, <1>2, <1>5, Queues
<1>7. /\ t \in KeyboardState /\ t.queue = Append(r.queue, e)
      /\ t.current = r.current /\ t.vector = r.vector
    BY <1>2, <1>3, <1>6 DEF KeyboardState
<1>8. ASSUME NEW k \in Ordinary
      PROVE  Eventually(t, k) <=> IF e.key = k THEN e.active ELSE Eventually(s, k)
    <2>1. Fate(t.queue, t.current, k) <=> IF e.key = k THEN e.active ELSE Fate(r.queue, r.current, k)
        BY <1>4, <1>7, FateOfAppend DEF Ordinary
    <2> QED BY <1>2, <1>7, <2>1, FateOfKey DEF Same
<1>9. OnlyMouse(s) /\ e.key = Mouse => OnlyMouse(t)
    <2>1. DOMAIN t.queue = 1..(Len(r.queue) + 1) /\ DOMAIN r.queue = 1..Len(r.queue)
        BY <1>4, <1>5, <1>7, LenProperties
    <2>2. \A i \in DOMAIN t.queue: (i \in DOMAIN r.queue /\ t.queue[i] = r.queue[i]) \/ t.queue[i] = e
        BY <1>4, <1>5, <1>7, <2>1, AppendProperties
    <2> QED BY <1>2, <2>2 DEF OnlyMouse
<1> QED BY <1>2, <1>7, <1>8, <1>9 DEF t

\* A debounced change is the new fate of its key, and of no other; it may be
\* committed past a queue that holds nothing but mouse events.
LEMMA Committed ==
    ASSUME NEW s \in KeyboardState, NEW k \in Keys, NEW active \in BOOLEAN,
           ~ShouldQueue(s) => OnlyMouse(s)
    PROVE  LET t == commitKeyState(s, k, active)
           IN  /\ t \in KeyboardState
               /\ \A j \in Ordinary:
                      Eventually(t, j) <=> IF j = k THEN active ELSE Eventually(s, j)
               /\ ~ShouldQueue(t) => OnlyMouse(t)
               /\ s.vector \subseteq t.vector
<1> DEFINE r == IF ShouldQueue(s) THEN appendEvent(s, [key |-> k, active |-> active])
                ELSE [s EXCEPT !.current = put(s.current, k, active)]
           t == commitKeyState(s, k, active)
<1>1. /\ r \in KeyboardState /\ s.vector \subseteq r.vector
      /\ \A j \in Ordinary: Eventually(r, j) <=> IF j = k THEN active ELSE Eventually(s, j)
      /\ ~ShouldQueue(s) => OnlyMouse(r)
    <2>1. CASE ShouldQueue(s)
        <3>1. [key |-> k, active |-> active] \in Event
            BY DEF Event
        <3> QED BY <2>1, <3>1, Appended
    <2>2. CASE ~ShouldQueue(s)
        <3>1. put(s.current, k, active) \in SUBSET Keys
            BY DEF put, KeyboardState
        <3>2. /\ r \in KeyboardState /\ r.queue = s.queue /\ r.vector = s.vector
              /\ r.current = put(s.current, k, active)
            BY <2>2, <3>1 DEF KeyboardState
        <3> HIDE DEF r
        <3>3. \A i \in DOMAIN s.queue: s.queue[i].key = Mouse
            BY <2>2 DEF OnlyMouse
        <3>4. ASSUME NEW j \in Ordinary
              PROVE  (Eventually(r, j) <=> j \in r.current) /\ (Eventually(s, j) <=> j \in s.current)
            <4>1. j # Mouse
                BY KeyFacts DEF Ordinary
            <4> QED BY <3>2, <3>3, <4>1 DEF Eventually
        <3>5. \A j \in Ordinary: j \in r.current <=> IF j = k THEN active ELSE j \in s.current
            BY <3>2 DEF put
        <3> QED BY <2>2, <3>2, <3>3, <3>4, <3>5 DEF OnlyMouse
    <2> QED BY <2>1, <2>2
<1>2. t = wakeMacros(r)
    BY DEF commitKeyState
<1> HIDE DEF r, t
<1>3. /\ t \in KeyboardState /\ t.queue = r.queue /\ t.current = r.current
      /\ r.vector \subseteq t.vector
    BY <1>1, <1>2, WakesMacros
<1>4. ShouldQueue(s) => ShouldQueue(t)
    BY <1>1, <1>3 DEF ShouldQueue, isSet
<1>5. Same(r, t) /\ (OnlyMouse(r) => OnlyMouse(t))
    BY <1>3, Unmoved DEF OnlyMouse
<1> QED BY <1>1, <1>3, <1>4, <1>5 DEF Same, t

-----------------------------------------------------------------------------
(* Key actions.                                                            *)

\* The queue is full, and the actions are asked to act on what it had to give.
Full(s) == Len(s.queue) = BufferSize /\ "NativeActions" \in s.vector

\* At most n events are queued; and of the keys in J none changes, but where n
\* events find no room.
Keeps(s, t, J, n) ==
    /\ Len(s.queue) <= Len(t.queue) /\ Len(t.queue) <= Len(s.queue) + n
    /\ \A j \in J: /\ j \in t.previous <=> j \in s.previous
                   /\ \/ j \in t.current <=> j \in s.current
                      \/ Len(s.queue) + n > BufferSize /\ ~OnlyMouse(s) /\ Full(t)

\* What an action may change of the state: the states of keys not in J, none of
\* them ordinary; and it may queue n mouse events and set bits.
Acts(s, t, J, n) ==
    /\ t \in KeyboardState
    /\ Same(s, t)
    /\ s.vector \subseteq t.vector
    /\ OnlyMouse(s) => OnlyMouse(t)
    /\ Keeps(s, t, J, n)

\* The length of a queue is bounded.
LEMMA Lengths ==
    ASSUME NEW s \in KeyboardState
    PROVE  Len(s.queue) \in Nat /\ Len(s.queue) <= BufferSize /\ BufferSize \in Nat \ {0}
<1>1. s.queue \in Seq(Event) /\ Len(s.queue) <= BufferSize
    BY Queues DEF KeyboardState
<1> QED BY <1>1, LenProperties, BufferAssumption

\* What keeps the keys, done after something else that does.
LEMMA KeepsInTurn ==
    ASSUME NEW s \in KeyboardState, NEW t \in KeyboardState, NEW u \in KeyboardState,
           NEW J, NEW n \in Nat, NEW m \in Nat, Keeps(s, t, J, n), Keeps(t, u, J, m),
           t.vector \subseteq u.vector, OnlyMouse(s) => OnlyMouse(t)
    PROVE  Keeps(s, u, J, n + m)
<1>1. /\ Len(s.queue) \in Nat /\ Len(t.queue) \in Nat /\ Len(u.queue) \in Nat
      /\ Len(t.queue) <= BufferSize /\ Len(u.queue) <= BufferSize /\ BufferSize \in Nat
    BY Lengths
<1>2. Len(s.queue) <= Len(u.queue) /\ Len(u.queue) <= Len(s.queue) + (n + m)
    BY <1>1 DEF Keeps
<1>3. Full(t) => Full(u)
    BY <1>1 DEF Keeps, Full
<1>4. Len(t.queue) + m > BufferSize \/ Len(s.queue) + n > BufferSize => Len(s.queue) + (n + m) > BufferSize
    <2>1. Len(t.queue) <= Len(s.queue) + n
        BY DEF Keeps
    <2>2. \A a, b, c \in Nat: b <= a + n => (b + m > c \/ a + n > c => a + (n + m) > c)
        OBVIOUS
    <2> QED BY <1>1, <2>1, <2>2
<1>5. ASSUME NEW j \in J
      PROVE  /\ j \in u.previous <=> j \in s.previous
             /\ \/ j \in u.current <=> j \in s.current
                \/ Len(s.queue) + (n + m) > BufferSize /\ ~OnlyMouse(s) /\ Full(u)
    BY <1>3, <1>4 DEF Keeps
<1> QED BY <1>2, <1>5 DEF Keeps

\* Actions follow one another.
LEMMA ActsInTurn ==
    ASSUME NEW s \in KeyboardState, NEW t, NEW u, NEW J, NEW n \in Nat, NEW m \in Nat,
           Acts(s, t, J, n), Acts(t, u, J, m)
    PROVE  Acts(s, u, J, n + m)
<1>1. Keeps(s, u, J, n + m)
    BY KeepsInTurn DEF Acts
<1> QED BY <1>1 DEF Acts, Same

\* What is said of many keys, or of few events, holds of fewer, or of more.
LEMMA ActsLess ==
    ASSUME NEW s \in KeyboardState, NEW t, NEW J, NEW K \in SUBSET J, NEW n \in Nat, NEW m \in Nat,
           n <= m, Acts(s, t, J, n)
    PROVE  Acts(s, t, K, m)
<1>1. Len(s.queue) \in Nat /\ Len(t.queue) \in Nat /\ BufferSize \in Nat
    BY Lengths DEF Acts
<1> QED BY <1>1 DEF Acts, Keeps

\* An action that leaves queue and key states alone.
LEMMA ActsAside ==
    ASSUME NEW s \in KeyboardState, NEW t \in KeyboardState, t.queue = s.queue, t.current = s.current,
           t.previous = s.previous, s.vector \subseteq t.vector, NEW J, NEW n \in Nat
    PROVE  Acts(s, t, J, n)
<1>1. Len(s.queue) \in Nat
    BY Lengths
<1> QED BY <1>1, Unmoved DEF Acts, Keeps, OnlyMouse

\* Setting bits is such an action.
LEMMA ActsOnBits ==
    ASSUME NEW s \in KeyboardState, NEW t \in KeyboardState, NEW bits \in SUBSET Bits,
           NEW J, NEW n \in Nat, Acts(s, t, J, n)
    PROVE  Acts(s, set(t, bits), J, n)
<1>1. Acts(t, set(t, bits), J, 0)
    BY SetsBits, ActsAside
<1>2. n + 0 = n
    OBVIOUS
<1> QED BY <1>1, <1>2, ActsInTurn

\* An event that is queued changes no key but the one that has to make room.
LEMMA AppendKeeps ==
    ASSUME NEW s \in KeyboardState, NEW e \in Event
    PROVE  Keeps(s, appendEvent(s, e), Keys, 1)
<1> DEFINE q == s.queue
           r == IF Len(q) = BufferSize THEN applyEventAndConsume(s) ELSE s
           t == appendEvent(s, e)
<1>1. q \in Seq(Event) /\ Len(q) \in Nat /\ Len(q) <= BufferSize /\ BufferSize \in Nat \ {0}
    BY Lengths, Queues DEF KeyboardState
<1>2. t = [r EXCEPT !.queue = Append(r.queue, e)]
    BY DEF appendEvent
<1>3. CASE Len(q) = BufferSize
    <2>1. r = applyEventAndConsume(s) /\ q # <<>>
        BY <1>1, <1>3
    <2>2. /\ Head(q) = q[1] /\ Head(q) \in Event /\ 1 \in DOMAIN q
          /\ Tail(q) \in Seq(Event) /\ Len(Tail(q)) = Len(q) - 1
        BY <1>1, <2>1, HeadTailProperties, LenProperties
    <2> HIDE DEF r, t
    <2>3. /\ r \in KeyboardState /\ r.queue = Tail(q) /\ r.previous = s.previous
          /\ r.current = IF Head(q).key = Mouse THEN s.current
                         ELSE put(s.current, Head(q).key, Head(q).active)
          /\ Head(q).key # Mouse => "NativeActions" \in r.vector
        BY <2>1, ConsumedFields
    <2>4. /\ t.queue = Append(r.queue, e) /\ t.current = r.current /\ t.previous = r.previous
          /\ t.vector = r.vector
        BY <1>2, <2>3 DEF KeyboardState
    <2>5. Len(t.queue) = BufferSize
        BY <1>1, <1>3, <2>2, <2>3, <2>4, AppendProperties
    <2>6. Head(q).key = Mouse => t.current = s.current
        BY <2>3, <2>4
    <2>7. Head(q).key # Mouse => ~OnlyMouse(s) /\ Full(t)
        BY <2>2, <2>3, <2>4, <2>5 DEF OnlyMouse, Full
    <2> QED BY <1>1, <1>3, <2>3, <2>4, <2>5, <2>6, <2>7 DEF Keeps, t
<1>4. CASE Len(q) # BufferSize
    <2>1. t = [s EXCEPT !.queue = Append(q, e)]
        BY <1>2, <1>4
    <2> HIDE DEF t
    <2>2. t.queue = Append(q, e) /\ t.current = s.current /\ t.previous = s.previous
        BY <2>1 DEF KeyboardState
    <2>3. Len(t.queue) = Len(q) + 1
        BY <1>1, <2>2, AppendProperties
    <2> QED BY <1>1, <2>2, <2>3 DEF Keeps, t
<1> QED BY <1>3, <1>4

\* A change that is queued changes no key but the one that has to make room.
LEMMA QueuedCommitKeeps ==
    ASSUME NEW s \in KeyboardState, NEW k \in Keys, NEW active \in BOOLEAN, ShouldQueue(s)
    PROVE  Keeps(s, commitKeyState(s, k, active), Keys, 1)
<1> DEFINE e == [key |-> k, active |-> active]
           r == appendEvent(s, e)
           t == commitKeyState(s, k, active)
<1>1. e \in Event
    BY DEF Event
<1>2. t = wakeMacros(r)
    BY DEF commitKeyState
<1> HIDE DEF e
<1>3. r \in KeyboardState /\ Keeps(s, r, Keys, 1)
    BY <1>1, Appended, AppendKeeps
<1> HIDE DEF r, t
<1>4. /\ t \in KeyboardState /\ t.queue = r.queue /\ t.current = r.current /\ t.previous = r.previous
      /\ r.vector \subseteq t.vector
    BY <1>2, <1>3, WakesMacros
<1> QED BY <1>3, <1>4 DEF Keeps, Full, t

\* A change that is committed directly changes one key.
LEMMA DirectCommit ==
    ASSUME NEW s \in KeyboardState, NEW k \in Keys, NEW active \in BOOLEAN, ~ShouldQueue(s)
    PROVE  LET t == commitKeyState(s, k, active)
           IN  /\ t.queue = s.queue /\ t.previous = s.previous
               /\ t.current = put(s.current, k, active) /\ s.vector \subseteq t.vector
<1> DEFINE r == [s EXCEPT !.current = put(s.current, k, active)]
           t == commitKeyState(s, k, active)
<1>1. put(s.current, k, active) \in SUBSET Keys
    BY DEF put, KeyboardState
<1>2. /\ r \in KeyboardState /\ r.queue = s.queue /\ r.previous = s.previous
      /\ r.current = put(s.current, k, active) /\ r.vector = s.vector
    BY <1>1 DEF KeyboardState
<1>3. t = wakeMacros(r)
    BY DEF commitKeyState
<1> HIDE DEF r, t
<1> QED BY <1>2, <1>3, WakesMacros DEF t

\* applyKeystrokePrimary
LEMMA ActsPrimary ==
    ASSUME NEW s \in KeyboardState, NEW k \in Keys
    PROVE  Acts(s, applyKeystrokePrimary(s, k), Keys, 0)
<1> DEFINE changed == ActivatedNow(s, k) /\ Mods(k) # s.sticky
           down == [s EXCEPT !.sticky = IF ActivatedNow(s, k) THEN Mods(k) ELSE @,
                             !.codes = IF changed THEN @ ELSE @ \cup {k}]
           lastReport == [s EXCEPT !.lastMods = s.sticky, !.sticky = NoKey]
           again == {"NativeActions", "NativePostponing"}
           more == IF changed THEN again ELSE {}
           t == IF k \in s.current THEN set(down, more)
                ELSE IF s.sticky = k /\ k \in ShortcutKeys THEN set(lastReport, again)
                ELSE s
<1>1. Mods(k) \in Keys \cup {NoKey}
    BY DEF Mods
<1>2. down \in KeyboardState /\ down.queue = s.queue /\ down.current = s.current /\ down.previous = s.previous
      /\ down.vector = s.vector
    BY <1>1 DEF KeyboardState
<1>3. /\ lastReport \in KeyboardState /\ lastReport.queue = s.queue /\ lastReport.current = s.current
      /\ lastReport.previous = s.previous
      /\ lastReport.vector = s.vector
    BY DEF KeyboardState
<1>4. again \in SUBSET Bits /\ more \in SUBSET Bits /\ {"ReportsChanged"} \in SUBSET Bits
    BY DEF Bits, WakeBits, PostponingBits
<1>5. applyKeystrokePrimary(s, k) = set(t, {"ReportsChanged"})
    BY DEF applyKeystrokePrimary
<1> HIDE DEF down, lastReport, again, more
<1>6. Acts(s, down, Keys, 0) /\ Acts(s, lastReport, Keys, 0) /\ Acts(s, s, Keys, 0)
    BY <1>2, <1>3, ActsAside
<1>7. Acts(s, t, Keys, 0)
    BY <1>2, <1>3, <1>4, <1>6, ActsOnBits
<1> HIDE DEF t
<1> QED BY <1>4, <1>5, <1>7, ActsOnBits DEF Acts

\* applyKeystrokeSecondary
LEMMA ActsSecondary ==
    ASSUME NEW s \in KeyboardState, NEW k \in Keys
    PROVE  Acts(s, applyKeystrokeSecondary(s, k), Keys, 0)
<1> DEFINE held == [s EXCEPT !.holds = TRUE, !.layer = TRUE]
<1>1. held \in KeyboardState /\ held.queue = s.queue /\ held.current = s.current /\ held.previous = s.previous
      /\ held.vector = s.vector
    BY DEF KeyboardState
<1>2. {"LayerHolds"} \in SUBSET Bits
    BY DEF Bits, WakeBits
<1>3. \/ applyKeystrokeSecondary(s, k) = held
      \/ applyKeystrokeSecondary(s, k) = set(held, {"LayerHolds"})
      \/ applyKeystrokeSecondary(s, k) = set(s, {"LayerHolds"})
    BY DEF applyKeystrokeSecondary
<1> HIDE DEF held
<1>4. Acts(s, held, Keys, 0) /\ Acts(s, s, Keys, 0)
    BY <1>1, ActsAside
<1> QED BY <1>1, <1>2, <1>3, <1>4, ActsOnBits

\* resolveCurrentKey
LEMMA ActsDeciding ==
    ASSUME NEW s \in KeyboardState, NEW k \in Keys
    PROVE  Acts(s, decide(s, k), Keys, 0) /\ decide(s, k).resolution.key = s.resolution.key
<1>1. roleByQueue(s, k) \in Roles /\ "secondary" \in Roles
    BY DEF roleByQueue, Roles
<1> DEFINE t == decide(s, k)
<1>2. /\ t \in KeyboardState /\ t.resolution.key = s.resolution.key
      /\ t.queue = s.queue /\ t.current = s.current /\ t.previous = s.previous /\ t.vector = s.vector
    <2>1. CASE s.trigger
        <3> DEFINE r == [s.resolution EXCEPT !.role = "secondary"]
        <3>1. t = [s EXCEPT !.trigger = FALSE, !.resolution = r]
            BY <2>1 DEF decide
        <3>2. r \in [key: Keys \cup {NoKey}, role: Roles] /\ r.key = s.resolution.key
            BY <1>1 DEF KeyboardState
        <3> HIDE DEF r, t
        <3> QED BY <3>1, <3>2 DEF KeyboardState
    <2>2. CASE ~s.trigger
        <3>1. t = [s EXCEPT !.resolution.role = roleByQueue(s, k)]
            BY <2>2 DEF decide
        <3> QED BY <1>1, <3>1 DEF KeyboardState
    <2> QED BY <2>1, <2>2
<1> QED BY <1>2, ActsAside

\* SecondaryRoles_ResolveState, for a key that has just been pressed
LEMMA ActsStarting ==
    ASSUME NEW s \in KeyboardState, NEW k \in Keys
    PROVE  Acts(s, startResolution(s, k), Keys, 0) /\ startResolution(s, k).resolution.key = k
<1> DEFINE t == [s EXCEPT !.resolution = [key |-> k, role |-> "unknown"], !.mouseBlocked = TRUE]
<1>1. /\ t \in KeyboardState /\ t.resolution.key = k
      /\ t.queue = s.queue /\ t.current = s.current /\ t.previous = s.previous /\ t.vector = s.vector
    BY DEF KeyboardState, Roles
<1>2. startResolution(s, k) = decide(t, k)
    BY DEF startResolution
<1> HIDE DEF t
<1>3. Acts(s, t, Keys, 0)
    BY <1>1, ActsAside
<1> QED BY <1>1, <1>2, <1>3, ActsDeciding, ActsInTurn

\* ... and in later cycles.
LEMMA ActsContinuing ==
    ASSUME NEW s \in KeyboardState, NEW k \in Keys
    PROVE  Acts(s, continueResolution(s, k), Keys, 1)
<1> DEFINE t == IF s.resolution.role = "unknown" THEN decide(s, k) ELSE s
           e == [key |-> Mouse, active |-> FALSE]
<1>1. Acts(s, t, Keys, 0) /\ t \in KeyboardState
    BY ActsDeciding, ActsAside DEF Acts
<1>2. e \in Event /\ e.key = Mouse
    BY DEF Event
<1>3. continueResolution(s, k) = t \/ continueResolution(s, k) = appendEvent(t, e)
    BY DEF continueResolution
<1> HIDE DEF t, e
<1>4. \A j \in Ordinary: j # Mouse
    BY KeyFacts DEF Ordinary
<1>5. Acts(t, appendEvent(t, e), Keys, 1)
    BY <1>1, <1>2, <1>4, Appended, AppendKeeps DEF Acts, Same
<1>6. Acts(s, t, Keys, 1)
    BY <1>1, ActsLess
<1>7. Acts(s, appendEvent(t, e), Keys, 0 + 1)
    BY <1>1, <1>5, ActsInTurn
<1> QED BY <1>3, <1>6, <1>7

\* SecondaryRoles_FakeActivation
LEMMA ActsActivating ==
    ASSUME NEW s \in KeyboardState, NEW k \in DualKeys
    PROVE  Acts(s, activate(s, k), Keys \ {k}, 0)
<1> DEFINE t == activate(s, k)
<1>1. k \in Keys /\ k \notin Ordinary
    BY KeyAssumption DEF Ordinary
<1>2. put(s.secondary, k, s.resolution.role = "secondary") \in SUBSET Keys
    BY <1>1 DEF put, KeyboardState
<1>3. /\ t \in KeyboardState /\ t.queue = s.queue /\ t.vector = s.vector
      /\ t.current = s.current \cup {k} /\ t.previous = s.previous \ {k}
    BY <1>1, <1>2 DEF activate, KeyboardState
<1> HIDE DEF t
<1>4. Same(s, t)
    BY <1>1, <1>3, Unmoved
<1>5. Keeps(s, t, Keys \ {k}, 0)
    BY <1>3, Lengths DEF Keeps
<1> QED BY <1>3, <1>4, <1>5 DEF Acts, OnlyMouse, t

\* applyKeystroke, for a key with a secondary role
LEMMA ActsDualRole ==
    ASSUME NEW s \in KeyboardState, NEW k \in DualKeys
    PROVE  Acts(s, applyDualRole(s, k), Keys \ {k}, 1)
<1> DEFINE J == Keys \ {k}
           fresh == ActivatedNow(s, k)
           r == IF fresh THEN startResolution(s, k)
                ELSE IF k = s.resolution.key THEN continueResolution(s, k) ELSE s
           role == IF k = r.resolution.key THEN r.resolution.role
                   ELSE IF k \in s.secondary THEN "secondary" ELSE "primary"
           decidedNow == /\ k = r.resolution.key /\ role # "unknown"
                         /\ fresh \/ s.resolution.role = "unknown"
           t == IF decidedNow THEN activate(r, k) ELSE r
<1>1. k \in Keys /\ J \in SUBSET Keys
    BY KeyAssumption
<1>2. Acts(s, startResolution(s, k), Keys, 0) /\ Acts(s, continueResolution(s, k), Keys, 1) /\ Acts(s, s, J, 1)
    BY <1>1, ActsStarting, ActsContinuing, ActsAside
<1>3. Acts(s, startResolution(s, k), J, 1) /\ Acts(s, continueResolution(s, k), J, 1)
    BY <1>1, <1>2, ActsLess
<1>4. Acts(s, r, J, 1) /\ r \in KeyboardState
    BY <1>2, <1>3 DEF Acts
<1>5. role \in Roles
    BY <1>4 DEF KeyboardState, Roles
<1>6. applyDualRole(s, k) = CASE role = "unknown" -> set(t, {"NativePostponing"})
                              [] role = "primary" -> applyKeystrokePrimary(t, k)
                              [] role = "secondary" -> applyKeystrokeSecondary(t, k)
    BY DEF applyDualRole
<1>7. {"NativePostponing"} \in SUBSET Bits
    BY DEF Bits, PostponingBits
<1> HIDE DEF r, role
<1>8. Acts(r, activate(r, k), J, 0)
    BY <1>4, ActsActivating
<1>9. Acts(s, activate(r, k), J, 1 + 0)
    BY <1>4, <1>8, ActsInTurn
<1>10. Acts(s, t, J, 1)
    BY <1>4, <1>9
<1> HIDE DEF t
<1>11. t \in KeyboardState
    BY <1>10 DEF Acts
<1>12. \A u: Acts(t, u, Keys, 0) => Acts(s, u, J, 1)
    <2>1. ASSUME NEW u, Acts(t, u, Keys, 0) PROVE Acts(s, u, J, 1)
        <3>1. Acts(t, u, J, 0)
            BY <1>1, <1>11, <2>1, ActsLess
        <3>2. Acts(s, u, J, 1 + 0)
            BY <1>10, <3>1, ActsInTurn
        <3> QED BY <3>2
    <2> QED BY <2>1
<1>13. CASE role = "unknown"
    <2>1. applyDualRole(s, k) = set(t, {"NativePostponing"})
        BY <1>6, <1>13
    <2> QED BY <1>7, <1>10, <1>11, <2>1, ActsOnBits
<1>14. CASE role = "primary"
    <2>1. applyDualRole(s, k) = applyKeystrokePrimary(t, k)
        BY <1>6, <1>14
    <2> QED BY <1>1, <1>11, <1>12, <2>1, ActsPrimary
<1>15. CASE role = "secondary"
    <2>1. applyDualRole(s, k) = applyKeystrokeSecondary(t, k)
        BY <1>6, <1>15
    <2> QED BY <1>1, <1>11, <1>12, <2>1, ActsSecondary
<1> QED BY <1>5, <1>13, <1>14, <1>15 DEF Roles

\* Macros_StartMacro
LEMMA ActsMacro ==
    ASSUME NEW s \in KeyboardState
    PROVE  Acts(s, startMacro(s), Keys, 0)
<1> DEFINE t == [s EXCEPT !.macro = "awake", !.sticky = NoKey]
           bits == {"MacroEngine", "MacroPostponing", "ReportsChanged"}
<1>1. t \in KeyboardState /\ t.queue = s.queue /\ t.current = s.current /\ t.previous = s.previous /\ t.vector = s.vector
    BY DEF KeyboardState
<1>2. bits \in SUBSET Bits
    BY DEF Bits, WakeBits, PostponingBits
<1>3. startMacro(s) = set(t, bits)
    BY DEF startMacro
<1> HIDE DEF t, bits
<1>4. Acts(s, t, Keys, 0)
    BY <1>1, ActsAside
<1> QED BY <1>1, <1>2, <1>3, <1>4, ActsOnBits

\* The loop of updateActionStates, for one key.
LEMMA ActsProcessing ==
    ASSUME NEW s \in KeyboardState, NEW k \in Keys
    PROVE  LET t == processKey(s, k)
           IN  /\ Acts(s, t, Keys \ {k}, IF k \in DualKeys THEN 1 ELSE 0)
               /\ k \in Ordinary => k \in t.current <=> k \in s.current
               /\ k \in t.previous <=> k \in t.current
<1> DEFINE J == Keys \ {k}
           n == IF k \in DualKeys THEN 1 ELSE 0
           t == ApplyKeyAction(s, k)
<1>1. Acts(s, s, Keys, 0) /\ J \in SUBSET Keys /\ n \in {0, 1}
    BY ActsAside
<1>2. k \in Ordinary => Acts(s, t, Keys, 0)
    BY <1>1, ActsMacro, ActsPrimary DEF ApplyKeyAction, Ordinary
<1>3. k \in DualKeys => Acts(s, t, J, 1) \/ Acts(s, t, Keys, 0)
    BY <1>1, ActsMacro, ActsDualRole DEF ApplyKeyAction
<1>4. Acts(s, t, J, n)
    BY <1>1, <1>2, <1>3, ActsLess DEF Ordinary
<1>5. t \in KeyboardState
    BY <1>4 DEF Acts
<1>6. k \in Ordinary => k \in t.current <=> k \in s.current
    BY <1>2, Lengths DEF Acts, Keeps
<1> DEFINE u == [t EXCEPT !.previous = put(@, k, k \in t.current)]
<1>7. processKey(s, k) = IF k \notin s.current \cup s.previous THEN s ELSE u
    BY DEF processKey
<1> HIDE DEF t
<1>8. put(t.previous, k, k \in t.current) \in SUBSET Keys
    BY <1>5 DEF put, KeyboardState
<1>9. /\ u \in KeyboardState /\ u.queue = t.queue /\ u.current = t.current /\ u.vector = t.vector
      /\ u.previous = put(t.previous, k, k \in t.current)
    BY <1>5, <1>8 DEF KeyboardState
<1> HIDE DEF u
<1>10. /\ k \in u.previous <=> k \in u.current
       /\ \A j \in J: j \in u.previous <=> j \in t.previous
    BY <1>9 DEF put
<1>11. Acts(t, u, J, 0)
    BY <1>5, <1>9, <1>10, Unmoved, Lengths DEF Acts, Keeps, OnlyMouse
<1>12. Acts(s, u, J, n + 0) /\ Acts(s, s, J, n)
    BY <1>1, <1>4, <1>11, ActsInTurn, ActsAside
<1>13. n + 0 = n
    BY <1>1
<1> HIDE DEF n, J
<1> QED BY <1>6, <1>7, <1>9, <1>10, <1>12, <1>13 DEF n, J

-----------------------------------------------------------------------------
(* The steps of the main loop.                                             *)

\* The oldest event takes effect, or nothing changes.
HeadOnly(s, t) ==
    \/ t.queue = s.queue /\ t.current = s.current
    \/ /\ s.queue # <<>> /\ t.queue = Tail(s.queue)
       /\ t.current = IF Head(s.queue).key = Mouse THEN s.current
                      ELSE put(s.current, Head(s.queue).key, Head(s.queue).active)
       /\ Head(s.queue).key # Mouse => "NativeActions" \in t.vector

\* Who was asked to act is still asked.
Asks(s, t) == "NativeActions" \in s.vector => "NativeActions" \in t.vector

\* PostponerCore_RunPostponedEvents replays at most the oldest event.
LEMMA Replayed ==
    ASSUME NEW s \in KeyboardState
    PROVE  LET t == RunPostponedEvents(s)
           IN  /\ t \in KeyboardState /\ Same(s, t)
               /\ OnlyMouse(s) => OnlyMouse(t)
               /\ HeadOnly(s, t) /\ Asks(s, t) /\ t.previous = s.previous
<1> DEFINE r == IF Replays(s) THEN applyEventAndConsume(s) ELSE s
           t == RunPostponedEvents(s)
<1>1. r \in KeyboardState /\ Same(s, r) /\ (OnlyMouse(s) => OnlyMouse(r))
      /\ HeadOnly(s, r) /\ Asks(s, r) /\ r.previous = s.previous
    <2>1. CASE Replays(s)
        <3>1. s.queue # <<>> /\ r = applyEventAndConsume(s)
            BY <2>1 DEF Replays
        <3> HIDE DEF r
        <3> QED BY <3>1, ConsumedFields, Consumed DEF HeadOnly, Asks
    <2>2. CASE ~Replays(s)
        BY <2>2 DEF Same, HeadOnly, Asks
    <2> QED BY <2>1, <2>2
<1>2. t = set(r, {"Postponer"}) \/ t = unset(r, {"Postponer"})
    BY DEF RunPostponedEvents
<1> HIDE DEF r, t
<1>3. {"Postponer"} \in SUBSET Bits
    BY DEF Bits, WakeBits
<1>4. t \in KeyboardState /\ t.queue = r.queue /\ t.current = r.current /\ t.previous = r.previous /\ Asks(r, t)
    BY <1>1, <1>2, <1>3, SetsBits, ClearsBits DEF Asks
<1>5. Same(r, t) /\ (OnlyMouse(r) => OnlyMouse(t))
    BY <1>4, Unmoved DEF OnlyMouse
<1>6. HeadOnly(s, t) /\ Asks(s, t)
    BY <1>1, <1>4 DEF HeadOnly, Asks
<1> QED BY <1>1, <1>4, <1>5, <1>6 DEF Same, t

\* What leaves the queue and the key states alone.
Still(s, t) ==
    t \in KeyboardState /\ t.queue = s.queue /\ t.current = s.current /\ t.previous = s.previous

\* Macros_ContinueMacro
LEMMA StillForMacros ==
    ASSUME NEW s \in KeyboardState, NEW macro \in {"ended", "awake", "onKey", "onTime"},
           NEW postpones \in BOOLEAN
    PROVE  Still(s, continueMacro(s, macro, postpones))
<1> DEFINE r == [s EXCEPT !.macro = macro]
           gone == {"MacroEngine", "MacroPostponing"}
           bits == (IF macro = "awake" THEN {"MacroEngine"} ELSE {})
                   \cup (IF postpones THEN {"MacroPostponing"} ELSE {})
           t == unset(r, gone)
<1>1. r \in KeyboardState /\ r.queue = s.queue /\ r.current = s.current /\ r.previous = s.previous
    BY DEF KeyboardState
<1>2. gone \in SUBSET Bits /\ bits \in SUBSET Bits
    BY DEF Bits, WakeBits, PostponingBits
<1>3. continueMacro(s, macro, postpones) = set(t, bits)
    BY DEF continueMacro
<1> HIDE DEF r, gone, bits
<1>4. t \in KeyboardState /\ t.queue = r.queue /\ t.current = r.current /\ t.previous = r.previous
    BY <1>1, <1>2, ClearsBits
<1> HIDE DEF t
<1> QED BY <1>1, <1>2, <1>3, <1>4, SetsBits DEF Still

\* handleLayerChanges
LEMMA StillForLayers ==
    ASSUME NEW s \in KeyboardState
    PROVE  Still(s, handleLayerChanges(s)) /\ handleLayerChanges(s).layer \in BOOLEAN
<1> DEFINE r == [s EXCEPT !.layer = s.holds]
           t == unset(r, {"LayerHolds"})
           u == [t EXCEPT !.sticky = NoKey]
<1>1. r \in KeyboardState /\ r.queue = s.queue /\ r.current = s.current /\ r.previous = s.previous
    BY DEF KeyboardState
<1>2. {"LayerHolds"} \in SUBSET Bits /\ {"ReportsChanged"} \in SUBSET Bits
    BY DEF Bits, WakeBits
<1>3. handleLayerChanges(s) = t \/ handleLayerChanges(s) = set(u, {"ReportsChanged"})
    BY DEF handleLayerChanges
<1> HIDE DEF r
<1>4. t \in KeyboardState /\ t.queue = r.queue /\ t.current = r.current /\ t.previous = r.previous
    BY <1>1, <1>2, ClearsBits
<1> HIDE DEF t
<1>5. u \in KeyboardState /\ u.queue = t.queue /\ u.current = t.current /\ u.previous = t.previous
    BY <1>4 DEF KeyboardState
<1> HIDE DEF u
<1>6. Still(s, handleLayerChanges(s))
    BY <1>1, <1>2, <1>3, <1>4, <1>5, SetsBits DEF Still
<1> QED BY <1>6 DEF Still, KeyboardState

\* updateActionStates, before it visits the keys
LEMMA StillForReset ==
    ASSUME NEW s \in KeyboardState
    PROVE  Still(s, resetActions(s))
<1> DEFINE r == [s EXCEPT !.holds = FALSE, !.codes = {}, !.lastMods = NoKey]
           gone == {"NativeActions", "StateMatrix", "NativePostponing"}
           bits == IF s.lastMods # NoKey THEN {"ReportsChanged"} ELSE {}
           t == unset(r, gone)
<1>1. r \in KeyboardState /\ r.queue = s.queue /\ r.current = s.current /\ r.previous = s.previous
    BY DEF KeyboardState
<1>2. gone \in SUBSET Bits /\ bits \in SUBSET Bits
    BY DEF Bits, WakeBits, PostponingBits
<1>3. resetActions(s) = set(t, bits)
    BY DEF resetActions
<1> HIDE DEF r, gone, bits
<1>4. t \in KeyboardState /\ t.queue = r.queue /\ t.current = r.current /\ t.previous = r.previous
    BY <1>1, <1>2, ClearsBits
<1> HIDE DEF t
<1> QED BY <1>1, <1>2, <1>3, <1>4, SetsBits DEF Still

\* MouseController_ProcessMouseActions
LEMMA StillForMouse ==
    ASSUME NEW s \in KeyboardState
    PROVE  Still(s, processMouse(s))
<1> DEFINE asks == [s EXCEPT !.trigger = @ \/ s.resolution.role = "unknown"]
           clears == [s EXCEPT !.sticky = NoKey]
<1>1. {"MouseController"} \in SUBSET Bits
    BY DEF Bits, WakeBits
<1>2. Still(s, unset(s, {"MouseController"}))
    BY <1>1, ClearsBits DEF Still
<1>3. Still(s, clears)
    BY DEF Still, KeyboardState
<1>4. Still(s, asks)
    BY DEF Still, KeyboardState
<1> QED BY <1>2, <1>3, <1>4 DEF processMouse

-----------------------------------------------------------------------------
(* The invariant: the world.                                               *)

\* Initially no key is down and nothing is queued.
LEMMA InitHolds == Init => Inv
<1> SUFFICES ASSUME Init PROVE Inv
    OBVIOUS
<1>1. kb.queue = <<>> /\ kb.queue \in BoundedSeq(Event, BufferSize)
    BY Queues, BufferAssumption DEF Init
<1>2. kb \in KeyboardState
    BY <1>1 DEF Init, KeyboardState, Roles, NoKey
<1>3. TypeOK
    BY <1>2, KeyFacts DEF Init, TypeOK, Report
<1>4. Direct
    BY DEF Init, Direct
<1>5. NothingLost
    BY DEF Init, NothingLost, Eventually
<1> QED BY <1>3, <1>4, <1>5 DEF Inv

\* Something outside the main loop sets a bit.
LEMMA Wakes ==
    ASSUME Inv, NEW bits \in SUBSET Bits, kb' = set(kb, bits),
           UNCHANGED <<debounced, queuing, pc>>
    PROVE  kb' \in KeyboardState /\ Direct' /\ NothingLost'
<1>1. kb \in KeyboardState
    BY DEF Inv, TypeOK
<1>2. /\ kb' \in KeyboardState /\ kb'.queue = kb.queue /\ kb'.current = kb.current
      /\ kb.vector \subseteq kb'.vector
    BY <1>1, SetsBits
<1>3. Same(kb, kb')
    BY <1>2, Unmoved
<1>4. NothingLost'
    BY <1>3 DEF Inv, NothingLost, Same, Ordinary
<1>5. Direct'
    BY <1>2 DEF Inv, Direct, ShouldQueue, isSet, OnlyMouse
<1> QED BY <1>2, <1>4, <1>5

\* The scan of the switches leaves the queue and the debounced states alone.
LEMMA ScanKeeps ==
    ASSUME Inv, NEW k \in Keys, NEW lost \in BOOLEAN, Scan(k, lost)
    PROVE  Inv'
<1>1. {"StateMatrix"} \in SUBSET Bits
    BY DEF Bits, WakeBits
<1>2. kb' \in KeyboardState /\ Direct' /\ NothingLost'
    BY <1>1, Wakes DEF Scan, debounce, cycle
<1>3. matrix' \subseteq Keys /\ hw' \subseteq Keys
    BY DEF Inv, TypeOK, Scan, put
<1>4. TypeOK'
    BY <1>2, <1>3 DEF Inv, TypeOK, Scan, debounce, cycle, output
<1> QED BY <1>2, <1>4 DEF Inv

\* So does the next scan that the interrupt owes.
LEMMA RescanKeeps ==
    ASSUME Inv, Rescan
    PROVE  Inv'
<1>1. {"StateMatrix"} \in SUBSET Bits
    BY DEF Bits, WakeBits
<1>2. kb' \in KeyboardState /\ Direct' /\ NothingLost'
    BY <1>1, Wakes DEF Rescan, debounce, cycle
<1>3. TypeOK'
    BY <1>2 DEF Inv, TypeOK, Rescan, debounce, cycle, output
<1> QED BY <1>2, <1>3 DEF Inv

\* The end of a debounce time does not touch the queue.
LEMMA DebounceElapsesKeeps ==
    ASSUME Inv, NEW k \in Keys, DebounceElapses(k)
    PROVE  Inv'
<1>1. TypeOK'
    BY DEF Inv, TypeOK, DebounceElapses, physical, cycle, output
<1>2. Direct' /\ NothingLost'
    BY DEF Inv, Direct, NothingLost, Eventually, OnlyMouse, ShouldQueue, DebounceElapses, cycle
<1> QED BY <1>1, <1>2 DEF Inv

\* EventSchedulerEvent_NativeActions only sets a bit.
LEMMA NativeTimerExpiresKeeps ==
    ASSUME Inv, NativeTimerExpires
    PROVE  Inv'
<1>1. {"NativeActions"} \in SUBSET Bits
    BY DEF Bits, WakeBits
<1>2. kb' \in KeyboardState /\ Direct' /\ NothingLost'
    BY <1>1, Wakes DEF NativeTimerExpires, debounce, cycle
<1>3. TypeOK'
    BY <1>2 DEF Inv, TypeOK, NativeTimerExpires, physical, debounce, cycle, output
<1> QED BY <1>2, <1>3 DEF Inv

\* EventSchedulerEvent_MacroWakeOnTime only sets a bit.
LEMMA MacroTimerExpiresKeeps ==
    ASSUME Inv, MacroTimerExpires
    PROVE  Inv'
<1>1. {"MacroEngine"} \in SUBSET Bits
    BY DEF Bits, WakeBits
<1>2. kb' \in KeyboardState /\ Direct' /\ NothingLost'
    BY <1>1, Wakes DEF MacroTimerExpires, debounce, cycle
<1>3. TypeOK'
    BY <1>2 DEF Inv, TypeOK, MacroTimerExpires, physical, debounce, cycle, output
<1> QED BY <1>2, <1>3 DEF Inv

\* The end of the keystroke delay does not touch the queue.
LEMMA DelayElapsesKeeps ==
    ASSUME Inv, DelayElapses
    PROVE  Inv'
<1>1. TypeOK'
    BY DEF Inv, TypeOK, DelayElapses, physical, debounce, cycle
<1>2. Direct' /\ NothingLost'
    BY DEF Inv, Direct, NothingLost, Eventually, OnlyMouse, ShouldQueue, DelayElapses, debounce, cycle
<1> QED BY <1>1, <1>2 DEF Inv

\* A report of a pointer module only sets bits.
LEMMA PointerMovesKeeps ==
    ASSUME Inv, PointerMoves
    PROVE  Inv'
<1>1. {"MouseController"} \in SUBSET Bits
    BY DEF Bits, WakeBits
<1>2. kb' \in KeyboardState /\ Direct' /\ NothingLost'
    BY <1>1, Wakes DEF PointerMoves, debounce, cycle
<1>3. TypeOK'
    BY <1>2 DEF Inv, TypeOK, PointerMoves, physical, debounce, cycle, output
<1> QED BY <1>2, <1>3 DEF Inv

-----------------------------------------------------------------------------
(* The invariant: the main loop.                                           *)

\* The queue is chosen for all keys by NativeActionsPostponing.
LEMMA JustPreprocessInputKeeps ==
    ASSUME Inv, JustPreprocessInput
    PROVE  Inv'
<1>1. kb \in KeyboardState /\ {"NativePostponing"} \in SUBSET Bits
    BY DEF Inv, TypeOK, Bits, PostponingBits
<1>2. /\ kb' \in KeyboardState /\ kb'.queue = kb.queue /\ kb'.current = kb.current
      /\ "NativePostponing" \in kb'.vector
    BY <1>1, SetsBits DEF JustPreprocessInput
<1>3. Same(kb, kb')
    BY <1>2, Unmoved
<1>4. NothingLost'
    BY <1>3 DEF Inv, NothingLost, Same, Ordinary, JustPreprocessInput, debounce
<1>5. Direct'
    BY <1>2 DEF Direct, JustPreprocessInput
<1>6. TypeOK'
    BY <1>2, KeyFacts DEF Inv, TypeOK, JustPreprocessInput, physical, debounce, cycle, output
<1> QED BY <1>4, <1>5, <1>6 DEF Inv

\* A cycle that does not queue begins with an empty queue.
LEMMA BeginCycleKeeps ==
    ASSUME Inv, NEW macro \in {"ended", "awake", "onKey", "onTime"}, NEW postpones \in BOOLEAN,
           BeginCycle(macro, postpones)
    PROVE  Inv'
<1> DEFINE b == unset(kb, {"ReportsChanged"})
           m == continueMacro(b, macro, postpones)
           s == IF isSet(m, {"LayerHolds"}) THEN handleLayerChanges(m) ELSE m
           p == RunPostponedEvents(s)
<1>1. kb \in KeyboardState /\ {"ReportsChanged"} \in SUBSET Bits
    BY DEF Inv, TypeOK, Bits
<1>2. Still(kb, b)
    BY <1>1, ClearsBits DEF Still
<1>3. b \in KeyboardState
    BY <1>2 DEF Still
<1>4. /\ pc = "idle" /\ at' = 1
      /\ layerSeen' = IF isSet(m, {"LayerHolds"}) THEN s.layer ELSE layerSeen
      /\ queuing' = (s.queue # <<>> \/ isSet(s, PostponingBits))
      /\ (kb' = resetActions(p) /\ pc' = "keys") \/ (kb' = p /\ pc' = "finish")
      /\ UNCHANGED <<physical, debounce, lastPostponing, motion, output>>
    BY DEF BeginCycle
<1> HIDE DEF b
<1>5. Still(b, m)
    BY <1>3, StillForMacros
<1>6. m \in KeyboardState
    BY <1>5 DEF Still
<1>7. Still(m, s) /\ (isSet(m, {"LayerHolds"}) => s.layer \in BOOLEAN)
    BY <1>6, StillForLayers DEF Still
<1> HIDE DEF m
<1>8. s \in KeyboardState /\ s.queue = kb.queue /\ s.current = kb.current
    BY <1>2, <1>5, <1>7 DEF Still
<1>9. layerSeen' \in BOOLEAN /\ queuing' \in BOOLEAN
    BY <1>4, <1>7 DEF Inv, TypeOK, isSet
<1> HIDE DEF s
<1>10. Same(kb, s)
    BY <1>8, Unmoved
<1>11. p \in KeyboardState /\ Same(s, p) /\ (OnlyMouse(s) => OnlyMouse(p))
    BY <1>8, Replayed
<1> HIDE DEF p
<1>12. Still(p, kb')
    BY <1>4, <1>11, StillForReset DEF Still
<1>13. Same(p, kb') /\ (OnlyMouse(p) => OnlyMouse(kb'))
    BY <1>12, Unmoved DEF Still, OnlyMouse
<1>14. NothingLost'
    BY <1>4, <1>10, <1>11, <1>13 DEF Inv, NothingLost, Same, Ordinary, debounce
<1>15. pc' \in {"keys", "finish"}
    BY <1>4
<1>16. ~queuing' => s.queue = <<>>
    BY <1>4
<1>17. ~queuing' => OnlyMouse(s)
    BY <1>16 DEF OnlyMouse
<1>18. ~queuing' => OnlyMouse(kb)'
    BY <1>11, <1>13, <1>17 DEF OnlyMouse
<1>19. Direct'
    BY <1>15, <1>18 DEF Direct, ShouldQueue
<1>20. TypeOK'
    BY <1>4, <1>9, <1>12, <1>15, KeyFacts DEF Inv, TypeOK, Still, physical, debounce, output
<1> QED BY <1>14, <1>19, <1>20 DEF Inv

\* preprocessKeyState, for the key that is visited.
LEMMA Preprocessed ==
    ASSUME Inv, PreprocessKey(at), ~ShouldQueue(kb) => OnlyMouse(kb)
    PROVE  LET t == preprocess(kb, at)
           IN  /\ t \in KeyboardState
               /\ \A j \in Ordinary: Eventually(t, j) <=> j \in debounced'
               /\ ~ShouldQueue(t) => OnlyMouse(t)
               /\ kb.vector \subseteq t.vector
               /\ debounced' \subseteq Keys /\ debouncing' \subseteq Keys /\ elapsed' \subseteq debouncing'
<1> DEFINE t == preprocess(kb, at)
<1>1. kb \in KeyboardState /\ at \in Keys /\ (at \in hw) \in BOOLEAN
    BY DEF Inv, TypeOK
<1>2. debounced' \subseteq Keys /\ debouncing' \subseteq Keys /\ elapsed' \subseteq debouncing'
    BY <1>1 DEF Inv, TypeOK, PreprocessKey, put
<1>3. CASE Changes(at)
    <2>1. t = commitKeyState(kb, at, at \in hw)
        BY <1>3 DEF preprocess
    <2>2. debounced' = put(debounced, at, at \in hw)
        BY <1>3 DEF PreprocessKey
    <2> HIDE DEF t
    <2>3. /\ t \in KeyboardState
          /\ \A j \in Ordinary: Eventually(t, j) <=> IF j = at THEN at \in hw ELSE Eventually(kb, j)
          /\ ~ShouldQueue(t) => OnlyMouse(t)
          /\ kb.vector \subseteq t.vector
        BY <1>1, <2>1, Committed
    <2>4. \A j \in Ordinary: j \in debounced' <=> IF j = at THEN at \in hw ELSE j \in debounced
        BY <2>2 DEF put
    <2>5. \A j \in Ordinary: Eventually(kb, j) <=> j \in debounced
        BY DEF Inv, NothingLost, Ordinary
    <2> QED BY <1>2, <2>3, <2>4, <2>5 DEF t
<1>4. CASE ~Changes(at)
    <2>1. t = kb /\ debounced' = debounced
        BY <1>4 DEF preprocess, PreprocessKey
    <2> HIDE DEF t
    <2> QED BY <1>1, <1>2, <2>1 DEF Inv, NothingLost, Ordinary, t
<1> QED BY <1>3, <1>4

\* preprocessKeyState commits at most one change, of the key that is visited.
LEMMA InputKeyKeeps ==
    ASSUME Inv, InputKey
    PROVE  Inv'
<1>1. "NativePostponing" \in kb.vector /\ ShouldQueue(kb)
    BY DEF Inv, Direct, InputKey, ShouldQueue, isSet, PostponingBits
<1>2. /\ kb' \in KeyboardState /\ kb.vector \subseteq kb'.vector
      /\ \A j \in Ordinary: Eventually(kb', j) <=> j \in debounced'
      /\ debounced' \subseteq Keys /\ debouncing' \subseteq Keys /\ elapsed' \subseteq debouncing'
    BY <1>1, Preprocessed DEF InputKey
<1>3. at' \in Keys /\ pc' \in {"input", "idle"}
    BY KeyFacts DEF InputKey, NextKey
<1>4. NothingLost'
    BY <1>2 DEF NothingLost, Ordinary
<1>5. Direct'
    BY <1>1, <1>2, <1>3 DEF Direct
<1>6. TypeOK'
    BY <1>2, <1>3 DEF Inv, TypeOK, InputKey, physical, cycle, output
<1> QED BY <1>4, <1>5, <1>6 DEF Inv

\* updateActionStates acts on one key and may queue or postpone.
LEMMA UpdateKeyKeeps ==
    ASSUME Inv, UpdateKey
    PROVE  Inv'
<1> DEFINE t == preprocess(kb, at)
<1>1. ~ShouldQueue(kb) => OnlyMouse(kb)
    BY DEF Inv, Direct, UpdateKey
<1>2. /\ t \in KeyboardState /\ (~ShouldQueue(t) => OnlyMouse(t))
      /\ \A j \in Ordinary: Eventually(t, j) <=> j \in debounced'
      /\ debounced' \subseteq Keys /\ debouncing' \subseteq Keys /\ elapsed' \subseteq debouncing'
    BY <1>1, Preprocessed DEF UpdateKey
<1>3. kb' = processKey(t, at) /\ at \in Keys
    BY DEF UpdateKey, Inv, TypeOK
<1> HIDE DEF t
<1>4. \E n: Acts(t, kb', Keys \ {at}, n)
    BY <1>2, <1>3, ActsProcessing
<1>5. at' \in Keys /\ pc' \in {"keys", "finish"} /\ queuing' = queuing
    BY KeyFacts DEF UpdateKey, NextKey, cycle
<1>6. NothingLost'
    BY <1>2, <1>4 DEF NothingLost, Ordinary, Acts, Same
<1>7. ~ShouldQueue(kb)' => ~ShouldQueue(t)
    BY <1>4, <1>5 DEF Acts, ShouldQueue, isSet
<1>8. Direct'
    <2>1. ~ShouldQueue(kb)' => OnlyMouse(kb')
        BY <1>2, <1>4, <1>7 DEF Acts
    <2> QED BY <1>5, <2>1 DEF Direct, OnlyMouse
<1>9. TypeOK'
    BY <1>2, <1>4, <1>5 DEF Inv, TypeOK, UpdateKey, Acts, physical, cycle, output
<1> QED BY <1>6, <1>8, <1>9 DEF Inv

\* The report and the end of the cycle only set and clear bits.
LEMMA FinishCycleKeeps ==
    ASSUME Inv, FinishCycle
    PROVE  Inv'
<1> DEFINE s == processMouse(kb)
           postponing == isSet(s, PostponingBits)
           w == IF lastPostponing /\ ~postponing /\ s.queue # <<>> THEN set(s, {"Postponer"}) ELSE s
           merged == [codes |-> w.codes, mods |-> {w.sticky, w.lastMods} \ {NoKey}]
<1>1. kb \in KeyboardState
    BY DEF Inv, TypeOK
<1>2. {"Postponer"} \in SUBSET Bits /\ {"ZeroScan"} \in SUBSET Bits
    BY DEF Bits, WakeBits
<1>3. Still(kb, s)
    BY <1>1, StillForMouse
<1>4. /\ kb' = set(w, {"ZeroScan"}) \/ kb' = unset(w, {"ZeroScan"})
      /\ report' = merged \/ report' = report
      /\ lastPostponing' = postponing /\ pc' = "idle"
      /\ motion' \in BOOLEAN /\ delaying' \in BOOLEAN
      /\ UNCHANGED <<physical, debounce, queuing, layerSeen, at>>
    BY DEF FinishCycle, Inv, TypeOK
<1>5. postponing \in BOOLEAN
    BY DEF isSet
<1> HIDE DEF s, postponing
<1>6. Still(kb, w)
    BY <1>2, <1>3, SetsBits DEF Still
<1> HIDE DEF w
<1>7. Still(kb, kb')
    BY <1>2, <1>4, <1>6, SetsBits, ClearsBits DEF Still
<1>8. merged \in Report
    BY <1>6 DEF Still, KeyboardState, Report
<1> HIDE DEF merged
<1>9. Same(kb, kb')
    BY <1>7, Unmoved DEF Still
<1>10. NothingLost'
    BY <1>4, <1>9 DEF Inv, NothingLost, Same, Ordinary, debounce
<1>11. Direct'
    BY <1>4 DEF Direct
<1>12. TypeOK'
    BY <1>4, <1>5, <1>7, <1>8 DEF Inv, TypeOK, Still, physical, debounce
<1> QED BY <1>10, <1>11, <1>12 DEF Inv

-----------------------------------------------------------------------------
(* The theorems.                                                           *)

\* One step per action.
LEMMA NextKeeps == Inv /\ [Next]_vars => Inv'
<1> SUFFICES ASSUME Inv, [Next]_vars PROVE Inv'
    OBVIOUS
<1>1. CASE MainLoop
    BY <1>1, JustPreprocessInputKeeps, BeginCycleKeeps, InputKeyKeeps, UpdateKeyKeeps,
       FinishCycleKeeps DEF MainLoop
<1>2. CASE World
    BY <1>2, ScanKeeps, RescanKeeps, DebounceElapsesKeeps, NativeTimerExpiresKeeps,
       MacroTimerExpiresKeeps, DelayElapsesKeeps, PointerMovesKeeps DEF World
<1>3. CASE UNCHANGED vars
    BY <1>3 DEF vars, physical, debounce, cycle, output, Inv, TypeOK, Direct, NothingLost,
                Eventually, ShouldQueue, OnlyMouse
<1> QED BY <1>1, <1>2, <1>3 DEF Next

\* The invariant holds in every reachable state.
LEMMA Invariant == Spec => []Inv
<1> QED BY InitHolds, NextKeeps, PTL DEF Spec

\* Every variable keeps its type, whatever keys, macros and the pointer do; in
\* particular the postponer never holds more than POSTPONER_BUFFER_SIZE events
\* (appendEvent).
THEOREM TypeCorrect == Spec => []TypeOK
<1>1. Inv => TypeOK
    BY DEF Inv
<1> QED BY <1>1, Invariant, PTL

\* Every debounced change of an ordinary key is acted on or waits in the queue, in
\* its place: however full the buffer, whoever postpones, and although a key may
\* be committed past the queue (preprocessKeyState, commitKeyState).
THEOREM NoEventLost == Spec => []NothingLost
<1>1. Inv => NothingLost
    BY DEF Inv
<1> QED BY <1>1, Invariant, PTL

-----------------------------------------------------------------------------
(* The lifecycle of a key.                                                 *)

\* The action of key k has seen its state.
Acted(s, k) == k \in s.current <=> k \in s.previous

\* Every key that was visited has been acted on, and between the cycles
\* each of them; but for those that changed because a full queue made room: then
\* the queue is still full, and another visit is asked for.  While changes are
\* committed directly, the keys to come have been acted on as well.
Visited ==
    /\ pc # "keys" => \A k \in Keys: Acted(kb, k) \/ Full(kb)
    /\ pc = "keys" => \A k \in Keys: k < at => Acted(kb, k) \/ Full(kb)
    /\ pc = "keys" /\ ~ShouldQueue(kb) => \A k \in Keys: k >= at => Acted(kb, k)

\* One step of InOrder, and one of EveryEventActedOn.
StepInOrder ==
    LET ordinary(C) == C \ DualKeys IN
    \/ ordinary(kb'.current) = ordinary(kb.current)
    \/ /\ kb.queue # <<>>
       /\ ordinary(kb'.current) =
             ordinary(put(kb.current, Head(kb.queue).key, Head(kb.queue).active))
    \/ /\ OnlyMouse(kb)
       /\ \E k \in Keys \ DualKeys:
             /\ ordinary(kb'.current) = ordinary(put(kb.current, k, k \in debounced'))
             /\ (k \in debounced) # (k \in debounced')
    \/ MakesRoom

StepActedOn ==
    \A k \in Keys \ DualKeys:
       \/ (k \in kb.current) = (k \in kb'.current)
       \/ (k \in kb.current) = (k \in kb.previous)
       \/ MakesRoom \/ Len(kb.queue) > MaxFill

Orderly == Visited' /\ StepInOrder /\ StepActedOn

\* Steps that leave the keys and the queue alone.
LEMMA AsideIsOrderly ==
    ASSUME Visited, kb'.queue = kb.queue, kb'.current = kb.current, kb'.previous = kb.previous,
           Asks(kb, kb'),
           \/ pc' = pc /\ at' = at /\ queuing' = queuing /\ kb.vector \subseteq kb'.vector
           \/ pc # "keys" /\ pc' # "keys"
    PROVE  Orderly
<1>1. Full(kb) => Full(kb')
    BY DEF Full, Asks
<1>2. pc' = pc /\ queuing' = queuing /\ kb.vector \subseteq kb'.vector => (ShouldQueue(kb) => ShouldQueue(kb)')
    BY DEF ShouldQueue, isSet
<1>3. Visited'
    BY <1>1, <1>2 DEF Visited, Acted, Full
<1> QED BY <1>3 DEF Orderly, StepInOrder, StepActedOn

\* The world, and the steps of a cycle before and after the keys.
LEMMA WorldIsOrderly ==
    ASSUME Inv, Visited, World
    PROVE  Orderly
<1>1. kb \in KeyboardState
    BY DEF Inv, TypeOK
<1>2. PICK bits \in SUBSET Bits: kb' = kb \/ kb' = set(kb, bits)
    <2>1. {"StateMatrix"} \in SUBSET Bits /\ {"NativeActions"} \in SUBSET Bits
          /\ {"MacroEngine"} \in SUBSET Bits /\ {"MouseController"} \in SUBSET Bits
        BY DEF Bits, WakeBits
    <2> QED BY <2>1 DEF World, Scan, DebounceElapses, Rescan, NativeTimerExpires, MacroTimerExpires,
                        DelayElapses, PointerMoves
<1>3. pc' = pc /\ at' = at /\ queuing' = queuing
    BY DEF World, Scan, DebounceElapses, Rescan, NativeTimerExpires, MacroTimerExpires,
           DelayElapses, PointerMoves, cycle
<1>4. /\ kb'.queue = kb.queue /\ kb'.current = kb.current /\ kb'.previous = kb.previous
      /\ kb.vector \subseteq kb'.vector
    BY <1>1, <1>2, SetsBits
<1> QED BY <1>3, <1>4, AsideIsOrderly DEF Asks

\* A cycle of input only begins.
LEMMA JustPreprocessInputIsOrderly ==
    ASSUME Inv, Visited, JustPreprocessInput
    PROVE  Orderly
<1>1. kb \in KeyboardState /\ {"NativePostponing"} \in SUBSET Bits
    BY DEF Inv, TypeOK, Bits, PostponingBits
<1>2. /\ kb'.queue = kb.queue /\ kb'.current = kb.current /\ kb'.previous = kb.previous
      /\ kb.vector \subseteq kb'.vector
    BY <1>1, SetsBits DEF JustPreprocessInput
<1> QED BY <1>2, AsideIsOrderly DEF Asks, JustPreprocessInput

\* The pointer does not take away that somebody is asked to act.
LEMMA MouseAsks ==
    ASSUME NEW s \in KeyboardState
    PROVE  Asks(s, processMouse(s))
<1>1. Asks(s, unset(s, {"MouseController"}))
    BY ClearsBits DEF Asks, Bits, WakeBits
<1>2. Asks(s, [s EXCEPT !.trigger = @ \/ s.resolution.role = "unknown"])
    BY DEF Asks, KeyboardState
<1>3. Asks(s, [s EXCEPT !.sticky = NoKey])
    BY DEF Asks, KeyboardState
<1> QED BY <1>1, <1>2, <1>3 DEF processMouse

\* A cycle ends.
LEMMA FinishCycleIsOrderly ==
    ASSUME Inv, Visited, FinishCycle
    PROVE  Orderly
<1> DEFINE s == processMouse(kb)
           w == IF lastPostponing /\ ~isSet(s, PostponingBits) /\ s.queue # <<>>
                THEN set(s, {"Postponer"}) ELSE s
<1>1. kb \in KeyboardState
    BY DEF Inv, TypeOK
<1>2. {"Postponer"} \in SUBSET Bits /\ {"ZeroScan"} \in SUBSET Bits
    BY DEF Bits, WakeBits
<1>3. Still(kb, s) /\ Asks(kb, s)
    BY <1>1, StillForMouse, MouseAsks
<1>4. (kb' = set(w, {"ZeroScan"}) \/ kb' = unset(w, {"ZeroScan"})) /\ pc = "finish" /\ pc' = "idle"
    BY DEF FinishCycle
<1> HIDE DEF s
<1>5. Still(kb, w) /\ Asks(kb, w)
    BY <1>2, <1>3, SetsBits DEF Still, Asks
<1> HIDE DEF w
<1>6. Still(kb, kb') /\ Asks(kb, kb')
    BY <1>2, <1>4, <1>5, SetsBits, ClearsBits DEF Still, Asks
<1> QED BY <1>4, <1>6, AsideIsOrderly DEF Still

\* Nor do macros and layers.
LEMMA MacrosAsk ==
    ASSUME NEW s \in KeyboardState, NEW macro \in {"ended", "awake", "onKey", "onTime"},
           NEW postpones \in BOOLEAN
    PROVE  Asks(s, continueMacro(s, macro, postpones)) /\ Asks(s, handleLayerChanges(s))
<1>1. Asks(s, continueMacro(s, macro, postpones))
    <2> DEFINE r == [s EXCEPT !.macro = macro]
               gone == {"MacroEngine", "MacroPostponing"}
               bits == (IF macro = "awake" THEN {"MacroEngine"} ELSE {})
                       \cup (IF postpones THEN {"MacroPostponing"} ELSE {})
               t == unset(r, gone)
    <2>1. r \in KeyboardState /\ r.vector = s.vector
        BY DEF KeyboardState
    <2>2. gone \in SUBSET Bits /\ bits \in SUBSET Bits /\ "NativeActions" \notin gone
        BY DEF Bits, WakeBits, PostponingBits
    <2>3. continueMacro(s, macro, postpones) = set(t, bits)
        BY DEF continueMacro
    <2> HIDE DEF r, gone, bits
    <2>4. t \in KeyboardState /\ t.vector = r.vector \ gone
        BY <2>1, <2>2, ClearsBits
    <2> HIDE DEF t
    <2>5. set(t, bits).vector = t.vector \cup bits
        BY <2>2, <2>4, SetsBits
    <2> QED BY <2>1, <2>2, <2>3, <2>4, <2>5 DEF Asks
<1>2. Asks(s, handleLayerChanges(s))
    <2> DEFINE r == [s EXCEPT !.layer = s.holds]
               t == unset(r, {"LayerHolds"})
               u == [t EXCEPT !.sticky = NoKey]
    <2>1. r \in KeyboardState /\ r.vector = s.vector
        BY DEF KeyboardState
    <2>2. {"LayerHolds"} \in SUBSET Bits /\ {"ReportsChanged"} \in SUBSET Bits
        BY DEF Bits, WakeBits
    <2>3. handleLayerChanges(s) = t \/ handleLayerChanges(s) = set(u, {"ReportsChanged"})
        BY DEF handleLayerChanges
    <2> HIDE DEF r
    <2>4. t \in KeyboardState /\ t.vector = r.vector \ {"LayerHolds"}
        BY <2>1, <2>2, ClearsBits
    <2> HIDE DEF t
    <2>5. u \in KeyboardState /\ u.vector = t.vector
        BY <2>4 DEF KeyboardState
    <2> HIDE DEF u
    <2>6. set(u, {"ReportsChanged"}).vector = u.vector \cup {"ReportsChanged"}
        BY <2>2, <2>5, SetsBits
    <2> QED BY <2>1, <2>3, <2>4, <2>5, <2>6 DEF Asks
<1> QED BY <1>1, <1>2

\* A cycle begins: the oldest event takes effect when every key has been acted on,
\* or the queue is above its limit.
LEMMA BeginCycleIsOrderly ==
    ASSUME Inv, Visited, NEW macro \in {"ended", "awake", "onKey", "onTime"}, NEW postpones \in BOOLEAN,
           BeginCycle(macro, postpones)
    PROVE  Orderly
<1> DEFINE b == unset(kb, {"ReportsChanged"})
           m == continueMacro(b, macro, postpones)
           s == IF isSet(m, {"LayerHolds"}) THEN handleLayerChanges(m) ELSE m
           p == RunPostponedEvents(s)
<1>1. kb \in KeyboardState /\ {"ReportsChanged"} \in SUBSET Bits /\ "NativeActions" \notin {"ReportsChanged"}
    BY DEF Inv, TypeOK, Bits
<1>2. Still(kb, b) /\ Asks(kb, b)
    BY <1>1, ClearsBits DEF Still, Asks
<1>3. /\ pc = "idle" /\ at' = 1
      /\ queuing' = (s.queue # <<>> \/ isSet(s, PostponingBits))
      /\ IF isSet(p, {"NativeActions", "StateMatrix"})
         THEN kb' = resetActions(p) /\ pc' = "keys"
         ELSE kb' = p /\ pc' = "finish"
    BY DEF BeginCycle
<1> HIDE DEF b
<1>4. Still(b, m) /\ Asks(b, m)
    BY <1>2, StillForMacros, MacrosAsk DEF Still
<1> HIDE DEF m
<1>5. Still(m, s) /\ Asks(m, s)
    BY <1>4, StillForLayers, MacrosAsk DEF Still, Asks
<1> HIDE DEF s
<1>6. /\ s \in KeyboardState /\ s.queue = kb.queue /\ s.current = kb.current
      /\ s.previous = kb.previous /\ Asks(kb, s)
    BY <1>2, <1>4, <1>5 DEF Still, Asks
<1>7. p \in KeyboardState /\ HeadOnly(s, p) /\ Asks(s, p) /\ p.previous = s.previous
    BY <1>6, Replayed
<1> HIDE DEF p
<1>8. Still(p, kb')
    BY <1>3, <1>7, StillForReset DEF Still
<1>9. CASE kb'.queue = kb.queue /\ kb'.current = kb.current
    <2>1. StepInOrder /\ StepActedOn
        BY <1>9 DEF StepInOrder, StepActedOn
    <2>2. CASE pc' = "finish"
        <3>1. Asks(kb, kb')
            BY <1>3, <1>6, <1>7, <2>2 DEF Asks
        <3> QED BY <1>3, <1>6, <1>7, <1>8, <1>9, <2>2, <3>1, AsideIsOrderly DEF Still
    <2>3. CASE pc' = "keys"
        <3>1. \A k \in Keys: ~(k < 1)
            BY FirstKey
        <3>2. ~ShouldQueue(kb)' => ~Full(kb)
            <4>1. ~ShouldQueue(kb)' => kb.queue = <<>>
                BY <1>3, <1>6 DEF ShouldQueue
            <4> QED BY <4>1, BufferAssumption DEF Full
        <3>3. Visited'
            BY <1>3, <1>6, <1>7, <1>8, <1>9, <2>3, <3>1, <3>2 DEF Visited, Acted, Still
        <3> QED BY <2>1, <3>3 DEF Orderly
    <2> QED BY <1>3, <2>2, <2>3
<1>10. CASE ~(kb'.queue = kb.queue /\ kb'.current = kb.current)
    <2> DEFINE e == Head(kb.queue)
    <2>1. /\ kb.queue # <<>> /\ kb'.queue = Tail(kb.queue)
          /\ kb'.current = IF e.key = Mouse THEN kb.current ELSE put(kb.current, e.key, e.active)
          /\ e.key # Mouse => "NativeActions" \in p.vector
        BY <1>6, <1>7, <1>8, <1>10 DEF HeadOnly, Still
    <2>2. StepInOrder
        BY <2>1 DEF StepInOrder
    <2>3. Full(kb) => Len(kb.queue) > MaxFill
        BY <1>1, Lengths, BufferAssumption DEF Full
    <2>4. StepActedOn
        BY <1>3, <2>3 DEF StepActedOn, Visited, Acted, Ordinary
    <2>5. CASE pc' = "finish"
        <3>1. "NativeActions" \notin p.vector
            BY <1>3, <2>5 DEF isSet
        <3>2. ~Full(kb) /\ kb'.current = kb.current
            BY <1>6, <1>7, <2>1, <3>1 DEF Full, Asks
        <3>3. kb'.previous = kb.previous
            BY <1>6, <1>7, <1>8 DEF Still
        <3>4. Visited'
            BY <1>3, <2>5, <3>2, <3>3 DEF Visited, Acted
        <3> QED BY <2>2, <2>4, <3>4 DEF Orderly
    <2>6. CASE pc' = "keys"
        <3>1. \A k \in Keys: ~(k < 1)
            BY FirstKey
        <3>2. ShouldQueue(kb)'
            BY <1>3, <1>6, <2>1 DEF ShouldQueue
        <3>3. Visited'
            BY <1>3, <2>6, <3>1, <3>2 DEF Visited
        <3> QED BY <2>2, <2>4, <3>3 DEF Orderly
    <2> QED BY <1>3, <2>5, <2>6
<1> QED BY <1>9, <1>10

\* A key is preprocessed: nothing happens, or its change is queued, or committed.
LEMMA PreprocessKeeps ==
    ASSUME Inv, PreprocessKey(at)
    PROVE  LET t == preprocess(kb, at)
           IN  \/ t = kb
               \/ ShouldQueue(kb) /\ Keeps(kb, t, Keys, 1)
               \/ /\ ~ShouldQueue(kb)
                  /\ t.queue = kb.queue /\ t.previous = kb.previous
                  /\ t.current = put(kb.current, at, at \in debounced')
                  /\ (at \in debounced) # (at \in debounced')
<1>1. kb \in KeyboardState /\ at \in Keys /\ (at \in hw) \in BOOLEAN
    BY DEF Inv, TypeOK
<1>2. CASE Changes(at)
    <2>1. preprocess(kb, at) = commitKeyState(kb, at, at \in hw)
        BY <1>2 DEF preprocess
    <2>2. (at \in debounced') = (at \in hw) /\ (at \in hw) # (at \in debounced)
        BY <1>2 DEF PreprocessKey, Changes, put
    <2>3. CASE ShouldQueue(kb)
        BY <1>1, <2>1, <2>3, QueuedCommitKeeps
    <2>4. CASE ~ShouldQueue(kb)
        <3>1. put(kb.current, at, at \in hw) = put(kb.current, at, at \in debounced')
            BY <2>2 DEF put
        <3>2. LET t == commitKeyState(kb, at, at \in hw)
              IN  /\ t.queue = kb.queue /\ t.previous = kb.previous
                  /\ t.current = put(kb.current, at, at \in hw)
            BY <1>1, <2>4, DirectCommit
        <3> QED BY <2>1, <2>2, <2>4, <3>1, <3>2
    <2> QED BY <2>3, <2>4
<1>3. CASE ~Changes(at)
    BY <1>3 DEF preprocess
<1> QED BY <1>2, <1>3

\* A key is debounced while the keystroke delay lasts.
LEMMA InputKeyIsOrderly ==
    ASSUME Inv, Visited, InputKey
    PROVE  Orderly
<1>1. ShouldQueue(kb) /\ kb \in KeyboardState /\ pc = "input" /\ pc' \in {"input", "idle"}
    BY DEF Inv, TypeOK, Direct, InputKey, NextKey, ShouldQueue, isSet, PostponingBits
<1>2. kb' \in KeyboardState /\ kb.vector \subseteq kb'.vector
    BY <1>1, Preprocessed DEF InputKey
<1>3. Keeps(kb, kb', Keys, 1)
    <2>1. Keeps(kb, kb, Keys, 1)
        BY <1>1, Lengths DEF Keeps
    <2> QED BY <1>1, <2>1, PreprocessKeeps DEF InputKey
<1>4. /\ Len(kb.queue) \in Nat /\ Len(kb'.queue) \in Nat /\ Len(kb.queue) <= BufferSize
      /\ Len(kb'.queue) <= BufferSize /\ BufferSize \in Nat
    BY <1>1, <1>2, Lengths
<1>5. Full(kb) => Full(kb')
    BY <1>2, <1>3, <1>4 DEF Full, Keeps
<1>6. Visited'
    BY <1>1, <1>3, <1>5 DEF Visited, Acted, Keeps
<1>7. Len(kb.queue) + 1 > BufferSize => MakesRoom
    <2>1. pc \in {"input", "keys"}
        BY <1>1
    <2>2. CASE at \in DualKeys
        BY <1>4, <2>1, <2>2 DEF MakesRoom
    <2>3. CASE at \notin DualKeys
        BY <1>4, <2>1, <2>3 DEF MakesRoom
    <2> QED BY <2>2, <2>3
<1>8. MakesRoom \/ \A k \in Keys: k \in kb'.current <=> k \in kb.current
    BY <1>3, <1>7 DEF Keeps
<1>9. StepInOrder /\ StepActedOn
    <2>1. kb'.current \subseteq Keys /\ kb.current \subseteq Keys
        BY <1>1, <1>2 DEF KeyboardState
    <2> QED BY <1>8, <2>1 DEF StepInOrder, StepActedOn
<1> QED BY <1>6, <1>9 DEF Orderly

\* A key is visited.
LEMMA UpdateKeyIsOrderly ==
    ASSUME Inv, Visited, UpdateKey
    PROVE  Orderly
<1> DEFINE n == IF at \in DualKeys THEN 1 ELSE 0
           t == preprocess(kb, at)
           J == Keys \ {at}
<1>1. /\ kb \in KeyboardState /\ at \in Keys /\ pc = "keys" /\ n \in {0, 1}
      /\ PreprocessKey(at) /\ kb' = processKey(t, at) /\ queuing' = queuing
    BY DEF Inv, TypeOK, UpdateKey, cycle
<1>2. ~ShouldQueue(kb) => OnlyMouse(kb)
    BY <1>1 DEF Inv, Direct
<1>3. t \in KeyboardState /\ kb.vector \subseteq t.vector
    BY <1>1, <1>2, Preprocessed
<1>4. \/ t = kb
      \/ ShouldQueue(kb) /\ Keeps(kb, t, Keys, 1)
      \/ /\ ~ShouldQueue(kb)
         /\ t.queue = kb.queue /\ t.previous = kb.previous
         /\ t.current = put(kb.current, at, at \in debounced')
         /\ (at \in debounced) # (at \in debounced')
    BY <1>1, PreprocessKeeps
<1> HIDE DEF t
<1>5. /\ Acts(t, kb', J, n)
      /\ at \in Ordinary => at \in kb'.current <=> at \in t.current
      /\ at \in kb'.previous <=> at \in kb'.current
    BY <1>1, <1>3, ActsProcessing
<1>6. kb' \in KeyboardState /\ t.vector \subseteq kb'.vector /\ Keeps(t, kb', J, n)
    BY <1>5 DEF Acts
<1>7. /\ Len(kb.queue) \in Nat /\ Len(t.queue) \in Nat /\ Len(kb'.queue) \in Nat
      /\ Len(kb.queue) <= BufferSize /\ Len(t.queue) <= BufferSize /\ Len(kb'.queue) <= BufferSize
      /\ BufferSize \in Nat
    BY <1>1, <1>3, <1>6, Lengths
<1>8. Full(kb) => Full(t)
    BY <1>3, <1>4, <1>7 DEF Full, Keeps
<1>9. Full(t) => Full(kb')
    BY <1>6, <1>7 DEF Full, Keeps
<1>10. \A j \in J: /\ j \in t.previous <=> j \in kb.previous
                   /\ \/ j \in t.current <=> j \in kb.current
                      \/ Len(kb.queue) + 1 > BufferSize /\ ShouldQueue(kb) /\ Full(t)
    BY <1>4 DEF Keeps, put
<1>11. \A j \in J: /\ j \in kb'.previous <=> j \in t.previous
                   /\ \/ j \in kb'.current <=> j \in t.current
                      \/ Len(t.queue) + n > BufferSize /\ ~OnlyMouse(t) /\ Full(kb')
    BY <1>6 DEF Keeps
<1>12. ~ShouldQueue(kb)' => ~ShouldQueue(kb) /\ OnlyMouse(t)
    <2>1. ShouldQueue(kb) => ShouldQueue(kb)'
        BY <1>1, <1>3, <1>6 DEF ShouldQueue, isSet
    <2>2. ~ShouldQueue(kb) => OnlyMouse(t)
        BY <1>2, <1>4 DEF OnlyMouse
    <2> QED BY <2>1, <2>2
<1>13. Len(kb.queue) + 1 > BufferSize \/ Len(t.queue) + n > BufferSize => MakesRoom
    <2>1. Len(t.queue) = Len(kb.queue) \/ Len(t.queue) <= Len(kb.queue) + 1
        BY <1>4 DEF Keeps
    <2>2. MakesRoom <=> Len(kb.queue) + n >= BufferSize
        BY <1>1 DEF MakesRoom
    <2> HIDE DEF n
    <2> QED BY <1>1, <1>7, <2>1, <2>2
<1> HIDE DEF n
<1>14. \A j \in J: Acted(kb, j) \/ Full(kb) => Acted(kb', j) \/ Full(kb')
    BY <1>8, <1>9, <1>10, <1>11 DEF Acted
<1>15. Acted(kb', at)
    BY <1>5 DEF Acted
<1>16. \A j \in J: ~ShouldQueue(kb)' /\ Acted(kb, j) => Acted(kb', j)
    BY <1>10, <1>11, <1>12 DEF Acted
<1>17. Visited'
    <2>1. Keys \subseteq Nat /\ at \in Nat
        BY <1>1, KeyFacts
    <2>2. \A k \in Keys: k < at => Acted(kb, k) \/ Full(kb)
        BY <1>1 DEF Visited
    <2>3. \A k \in Keys: k <= at => (Acted(kb, k) \/ Full(kb))'
        BY <1>14, <1>15, <2>1, <2>2 DEF Acted, Full
    <2>4. CASE at + 1 \in Keys
        <3>1. at' = at + 1 /\ pc' = "keys"
            BY <1>1, <2>4 DEF UpdateKey, NextKey
        <3>2. \A k \in Keys: k < at' => k <= at
            BY <2>1, <3>1
        <3>3. ~ShouldQueue(kb)' => \A k \in Keys: k >= at' => Acted(kb, k)'
            <4>1. \A k \in Keys: k >= at' => k \in J /\ k >= at
                BY <2>1, <3>1
            <4>2. ~ShouldQueue(kb)' => \A k \in Keys: k >= at => Acted(kb, k)
                BY <1>1, <1>12 DEF Visited
            <4> QED BY <1>16, <4>1, <4>2 DEF Acted
        <3> QED BY <2>3, <3>1, <3>2, <3>3 DEF Visited
    <2>5. CASE at + 1 \notin Keys
        <3>1. pc' = "finish"
            BY <2>5 DEF UpdateKey, NextKey
        <3>2. \A k \in Keys: k <= at
            <4>1. PICK c: c = Cardinality(Keys)
                OBVIOUS
            <4>2. c \in Nat /\ Keys = 1..c
                BY <4>1, KeyAssumption, FS_CardinalityType
            <4> QED BY <1>1, <2>5, <4>2
        <3> QED BY <2>3, <3>1, <3>2 DEF Visited
    <2> QED BY <2>4, <2>5
<1>18. MakesRoom \/ \A j \in J: j \in kb'.current <=> j \in kb.current
    BY <1>10, <1>11, <1>13
<1>19. kb'.current \subseteq Keys /\ kb.current \subseteq Keys
    BY <1>1, <1>6 DEF KeyboardState
<1>20. MakesRoom \/ at \notin Ordinary \/ (at \in kb'.current <=> at \in kb.current)
       \/ /\ ~ShouldQueue(kb) /\ (at \in debounced) # (at \in debounced')
          /\ at \in kb'.current <=> at \in debounced'
    <2>1. CASE t = kb
        BY <1>5, <2>1
    <2>2. CASE ShouldQueue(kb) /\ Keeps(kb, t, Keys, 1)
        BY <1>1, <1>5, <1>13, <2>2 DEF Keeps
    <2>3. CASE /\ ~ShouldQueue(kb) /\ (at \in debounced) # (at \in debounced')
               /\ t.current = put(kb.current, at, at \in debounced')
        BY <1>5, <2>3 DEF put
    <2> QED BY <1>4, <2>1, <2>2, <2>3
<1>21. StepInOrder
    <2>1. CASE MakesRoom
        BY <2>1 DEF StepInOrder
    <2>2. CASE ~MakesRoom /\ (at \notin Ordinary \/ (at \in kb'.current <=> at \in kb.current))
        <3>1. kb'.current \ DualKeys = kb.current \ DualKeys
            BY <1>1, <1>18, <1>19, <2>2 DEF Ordinary
        <3> QED BY <3>1 DEF StepInOrder
    <2>3. CASE /\ ~MakesRoom /\ at \in Ordinary /\ ~ShouldQueue(kb)
               /\ (at \in debounced) # (at \in debounced') /\ (at \in kb'.current <=> at \in debounced')
        <3>1. kb'.current \ DualKeys = put(kb.current, at, at \in debounced') \ DualKeys
            BY <1>1, <1>18, <1>19, <2>3 DEF Ordinary, put
        <3>2. OnlyMouse(kb) /\ at \in Keys \ DualKeys
            BY <1>2, <2>3 DEF Ordinary
        <3> QED BY <2>3, <3>1, <3>2 DEF StepInOrder
    <2> QED BY <1>20, <2>1, <2>2, <2>3
<1>22. StepActedOn
    <2>1. SUFFICES ASSUME NEW k \in Ordinary, ~MakesRoom, ~(k \in kb.current <=> k \in kb'.current)
                   PROVE  Acted(kb, k)
        BY DEF StepActedOn, Acted, Ordinary
    <2>2. k = at
        BY <1>18, <2>1 DEF Ordinary
    <2>3. ~ShouldQueue(kb)
        BY <1>20, <2>1, <2>2
    <2>4. k >= at
        BY <1>1, <2>2, KeyFacts
    <2> QED BY <1>1, <2>1, <2>3, <2>4 DEF Visited, Ordinary
<1> QED BY <1>17, <1>21, <1>22 DEF Orderly

\* Every step keeps the order.
LEMMA EveryStepIsOrderly == Inv /\ Visited /\ [Next]_vars => Orderly
<1> SUFFICES ASSUME Inv, Visited, [Next]_vars PROVE Orderly
    OBVIOUS
<1>1. CASE MainLoop
    BY <1>1, JustPreprocessInputIsOrderly, BeginCycleIsOrderly, InputKeyIsOrderly,
       UpdateKeyIsOrderly, FinishCycleIsOrderly DEF MainLoop
<1>2. CASE World
    BY <1>2, WorldIsOrderly
<1>3. CASE UNCHANGED vars
    <2>1. kb' = kb /\ pc' = pc /\ at' = at /\ queuing' = queuing
        BY <1>3 DEF vars, cycle
    <2> QED BY <2>1, AsideIsOrderly DEF Asks
<1> QED BY <1>1, <1>2, <1>3 DEF Next

\* In every reachable state the keys have been visited as their order demands.
LEMMA VisitedInvariant == Spec => [](Inv /\ Visited)
<1>1. Init => Visited
    BY DEF Init, Visited, Acted
<1>2. Inv /\ Visited /\ [Next]_vars => Visited'
    BY EveryStepIsOrderly DEF Orderly
<1> QED BY <1>1, <1>2, InitHolds, NextKeeps, PTL DEF Spec

\* Key states change in the order of the debounced events (RunPostponedEvents,
\* commitKeyState): the oldest queued event takes effect, or a new change past a
\* queue without events of keys; only a full buffer breaks the order.
THEOREM EventsInOrder == Spec => InOrder
<1>1. Inv /\ Visited /\ [Next]_vars => [StepInOrder]_vars
    BY EveryStepIsOrderly DEF Orderly
<1>2. [StepInOrder]_vars <=>
        [LET ordinary(C) == C \ DualKeys IN
         \/ ordinary(kb'.current) = ordinary(kb.current)
         \/ /\ kb.queue # <<>>
            /\ ordinary(kb'.current) =
                  ordinary(put(kb.current, Head(kb.queue).key, Head(kb.queue).active))
         \/ /\ OnlyMouse(kb)
            /\ \E k \in Keys \ DualKeys:
                  /\ ordinary(kb'.current) = ordinary(put(kb.current, k, k \in debounced'))
                  /\ (k \in debounced) # (k \in debounced')
         \/ MakesRoom]_vars
    BY DEF StepInOrder
<1> QED BY <1>1, <1>2, VisitedInvariant, PTL DEF Spec, InOrder

\* No press or release is swallowed: the state of a key does not change again
\* before its action has seen the last change (updateActionStates visits all keys
\* between two replayed events), unless the buffer is over its limit.
THEOREM NoEventSwallowed == Spec => EveryEventActedOn
<1>1. Inv /\ Visited /\ [Next]_vars => [StepActedOn]_vars
    BY EveryStepIsOrderly DEF Orderly
<1>2. [StepActedOn]_vars <=>
        [\A k \in Keys \ DualKeys:
            \/ (k \in kb.current) = (k \in kb'.current)
            \/ (k \in kb.current) = (k \in kb.previous)
            \/ MakesRoom \/ Len(kb.queue) > MaxFill]_vars
    BY DEF StepActedOn
<1> QED BY <1>1, <1>2, VisitedInvariant, PTL DEF Spec, EveryEventActedOn
=============================================================================

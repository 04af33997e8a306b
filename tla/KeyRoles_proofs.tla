---------------------------- MODULE KeyRoles_proofs ----------------------------
(***************************************************************************)
(* Proofs about KeyPipeline that need to follow the dual-role key being    *)
(* resolved: nobody acts before an undecided key, a key held in its        *)
(* secondary role has its layer, the main loop does not fall asleep on a   *)
(* queue that nobody holds back, and the modifiers of a shortcut come      *)
(* before its scancode.  For any keys, any buffer and any scanner.         *)
(***************************************************************************)
EXTENDS KeyPipeline_proofs

-----------------------------------------------------------------------------
(* The inductive invariants.                                               *)

\* The keys that go through SecondaryRoles_ResolveState: the action of a key
\* that starts a macro is looked at first.
Resolved == DualKeys \ MacroKeys
Resolves(s) == s.resolution.key \in Resolved \cup {NoKey}

\* Key k was pressed, and its action has not seen it.
Pending(s, k) == k \in s.current /\ k \notin s.previous
Crowded(s) == Len(s.queue) >= MaxFill

\* The resolution of s concerns a key that is held, and has role r.
Holding(s, r) == s.resolution.key \in s.previous /\ s.resolution.role = r

\* The key in resolution is yet to be visited in this cycle.
ToCome(s) == pc = "keys" /\ s.resolution.key >= at

\* An undecided key makes the main loop postpone: from its visit to the next
\* cycle by the event vector, and from then to its next visit because events
\* were queued when the cycle began.  A cycle meets at most one key that was
\* pressed, and none but the undecided one, unless the queue is crowded.
HeldBack ==
    /\ Holding(kb, "unknown") =>
         /\ ToCome(kb) => queuing /\ lastPostponing
         /\ ~ToCome(kb) => "NativePostponing" \in kb.vector
         /\ pc \in {"idle", "input"} => lastPostponing
    /\ pc = "keys" /\ ~Crowded(kb) =>
         \A i \in Keys: i >= at /\ Pending(kb, i) =>
            /\ Holding(kb, "unknown") => i = kb.resolution.key
            /\ \A j \in Keys: j >= at /\ Pending(kb, j) => i = j

\* A key held in its secondary role holds the layer, from each visit to the next
\* cycle, which makes it active or leaves it so.
Layered ==
    Holding(kb, "secondary") => kb.layer /\ (ToCome(kb) \/ kb.holds)

First == Inv /\ Visited /\ Resolves(kb) /\ HeldBack /\ Layered

-----------------------------------------------------------------------------
(* What leaves the resolution alone.                                       *)

\* The resolution, the layer, what the actions have seen and who postpones are
\* the same.
SameRoles(s, t) ==
    /\ t \in KeyboardState
    /\ t.resolution = s.resolution /\ t.previous = s.previous
    /\ t.holds = s.holds /\ t.layer = s.layer
    /\ t.vector \cap PostponingBits = s.vector \cap PostponingBits

\* Bits that say nothing about postponing.
Signals == Bits \ PostponingBits

LEMMA RolesInTurn ==
    ASSUME NEW s, NEW t, NEW u, SameRoles(s, t), SameRoles(t, u)
    PROVE  SameRoles(s, u)
BY DEF SameRoles

\* The bits that are set or cleared while the keys are at rest.
LEMMA TheSignals ==
    {"StateMatrix", "NativeActions", "Postponer", "LayerHolds", "ZeroScan", "MacroEngine",
     "MouseController", "ReportsChanged"} = Signals
BY DEF Signals, Bits, WakeBits, PostponingBits

\* Setting and clearing bits, and waking macros.
LEMMA RolesOfBits ==
    ASSUME NEW s \in KeyboardState, NEW bits \in SUBSET Signals
    PROVE  /\ SameRoles(s, set(s, bits)) /\ SameRoles(s, unset(s, bits))
           /\ SameRoles(s, wakeMacros(s)) /\ SameRoles(s, s)
<1>1. ASSUME NEW b \in SUBSET Signals PROVE SameRoles(s, set(s, b)) /\ SameRoles(s, unset(s, b))
    <2>1. b \in SUBSET Bits /\ b \cap PostponingBits = {}
        BY <1>1 DEF Signals
    <2>2. /\ set(s, b) \in KeyboardState /\ set(s, b).vector = s.vector \cup b
          /\ unset(s, b) \in KeyboardState /\ unset(s, b).vector = s.vector \ b
        BY <2>1, SetsBits, ClearsBits
    <2>3. SameRoles(s, set(s, b))
        BY <2>1, <2>2 DEF SameRoles, set, KeyboardState
    <2>4. SameRoles(s, unset(s, b))
        BY <2>1, <2>2 DEF SameRoles, unset, KeyboardState
    <2> QED BY <2>3, <2>4
<1>2. SameRoles(s, s)
    BY DEF SameRoles
<1>3. {"MacroEngine"} \in SUBSET Signals
    BY TheSignals
<1>4. SameRoles(s, wakeMacros(s))
    BY <1>1, <1>2, <1>3 DEF wakeMacros
<1> QED BY <1>1, <1>2, <1>4

\* applyEventAndConsume
LEMMA RolesOfConsumed ==
    ASSUME NEW s \in KeyboardState, s.queue # <<>>
    PROVE  SameRoles(s, applyEventAndConsume(s))
<1> DEFINE e == Head(s.queue)
           t == [s EXCEPT !.queue = Tail(@)]
           m == [t EXCEPT !.mouseBlocked = FALSE]
           c == [t EXCEPT !.current = put(@, e.key, e.active)]
           d == set(c, {"NativeActions"})
<1>1. s.queue \in Seq(Event) /\ Len(s.queue) <= BufferSize
    BY Queues DEF KeyboardState
<1>2. e \in Event /\ Tail(s.queue) \in BoundedSeq(Event, BufferSize)
    <2>1. Tail(s.queue) \in Seq(Event) /\ Len(Tail(s.queue)) = Len(s.queue) - 1 /\ e \in Event
        BY <1>1, HeadTailProperties
    <2> QED BY <1>1, <2>1, Queues, BufferAssumption, LenProperties
<1>3. e.key # Mouse => put(s.current, e.key, e.active) \in SUBSET Keys
    BY <1>2 DEF Event, put, KeyboardState
<1>4. applyEventAndConsume(s) = IF e.key = Mouse THEN set(m, {"MouseController"}) ELSE wakeMacros(d)
    BY DEF applyEventAndConsume
<1>5. SameRoles(s, m) /\ (e.key # Mouse => SameRoles(s, c))
    BY <1>2, <1>3 DEF SameRoles, KeyboardState
<1>6. {"NativeActions"} \in SUBSET Signals /\ {"MouseController"} \in SUBSET Signals
    BY TheSignals
<1> HIDE DEF e, m, c
<1>7. CASE e.key = Mouse
    <2>1. SameRoles(m, set(m, {"MouseController"}))
        BY <1>5, <1>6, RolesOfBits DEF SameRoles
    <2> QED BY <1>4, <1>5, <1>7, <2>1, RolesInTurn
<1>8. CASE e.key # Mouse
    <2>1. c \in KeyboardState /\ SameRoles(s, c)
        BY <1>5, <1>8 DEF SameRoles
    <2>2. SameRoles(c, d)
        BY <1>6, <2>1, RolesOfBits
    <2> HIDE DEF d
    <2>3. d \in KeyboardState
        BY <2>2 DEF SameRoles
    <2>4. SameRoles(d, wakeMacros(d))
        BY <1>6, <2>3, RolesOfBits
    <2> QED BY <1>4, <1>8, <2>1, <2>2, <2>4, RolesInTurn
<1> QED BY <1>7, <1>8

\* appendEvent
LEMMA RolesOfAppended ==
    ASSUME NEW s \in KeyboardState, NEW e \in Event
    PROVE  SameRoles(s, appendEvent(s, e))
<1> DEFINE r == IF Len(s.queue) = BufferSize THEN applyEventAndConsume(s) ELSE s
           t == appendEvent(s, e)
<1>1. t \in KeyboardState
    BY Appended
<1>2. Len(s.queue) = BufferSize => s.queue # <<>>
    BY BufferAssumption
<1>3. SameRoles(s, r)
    BY <1>2, RolesOfConsumed DEF SameRoles
<1>4. t = [r EXCEPT !.queue = Append(@, e)]
    BY DEF appendEvent
<1> HIDE DEF r, t
<1>5. SameRoles(r, t)
    BY <1>1, <1>3, <1>4 DEF SameRoles, KeyboardState
<1> QED BY <1>3, <1>5, RolesInTurn DEF t

\* commitKeyState
LEMMA RolesOfCommitted ==
    ASSUME NEW s \in KeyboardState, NEW k \in Keys, NEW active \in BOOLEAN
    PROVE  /\ SameRoles(s, commitKeyState(s, k, active))
           /\ s.vector \subseteq commitKeyState(s, k, active).vector
<1> DEFINE e == [key |-> k, active |-> active]
           r == IF ShouldQueue(s) THEN appendEvent(s, e) ELSE [s EXCEPT !.current = put(@, k, active)]
<1>1. e \in Event /\ put(s.current, k, active) \in SUBSET Keys
    BY DEF Event, put, KeyboardState
<1>2. commitKeyState(s, k, active) = wakeMacros(r)
    BY DEF commitKeyState
<1>3. SameRoles(s, r) /\ s.vector \subseteq r.vector
    <2>1. CASE ShouldQueue(s)
        BY <1>1, <2>1, RolesOfAppended, Appended
    <2>2. CASE ~ShouldQueue(s)
        BY <1>1, <2>2 DEF SameRoles, KeyboardState
    <2> QED BY <2>1, <2>2
<1> HIDE DEF r
<1>4. SameRoles(r, wakeMacros(r)) /\ r.vector \subseteq wakeMacros(r).vector
    BY <1>3, RolesOfBits, WakesMacros DEF SameRoles
<1> QED BY <1>2, <1>3, <1>4, RolesInTurn

-----------------------------------------------------------------------------
(* Key actions.                                                            *)

\* An action that leaves queue, keys, resolution and layer alone, and postpones
\* only until it acts again.
Plain(s, t) ==
    /\ t \in KeyboardState
    /\ t.queue = s.queue /\ t.current = s.current /\ t.previous = s.previous
    /\ t.resolution = s.resolution /\ t.holds = s.holds /\ t.layer = s.layer
    /\ s.vector \subseteq t.vector
    /\ "NativePostponing" \in t.vector => "NativePostponing" \in s.vector \/ "NativeActions" \in t.vector

\* Setting bits is such an action, if it sets NativeActions with NativePostponing.
LEMMA PlainBits ==
    ASSUME NEW s \in KeyboardState, NEW t, Plain(s, t), NEW bits \in SUBSET Bits,
           "NativePostponing" \in bits => "NativeActions" \in bits
    PROVE  Plain(s, set(t, bits))
<1>1. t \in KeyboardState
    BY DEF Plain
<1>2. /\ set(t, bits) \in KeyboardState /\ set(t, bits).queue = t.queue
      /\ set(t, bits).current = t.current /\ set(t, bits).previous = t.previous
      /\ set(t, bits).vector = t.vector \cup bits
    BY <1>1, SetsBits
<1>3. /\ set(t, bits).resolution = t.resolution /\ set(t, bits).holds = t.holds
      /\ set(t, bits).layer = t.layer
    BY <1>1 DEF set, KeyboardState
<1> QED BY <1>2, <1>3 DEF Plain

\* applyKeystrokePrimary
LEMMA PlainPrimary ==
    ASSUME NEW s \in KeyboardState, NEW k \in Keys
    PROVE  Plain(s, applyKeystrokePrimary(s, k))
<1> DEFINE changed == ActivatedNow(s, k) /\ Mods(k) # s.sticky
           down == [s EXCEPT !.sticky = IF ActivatedNow(s, k) THEN Mods(k) ELSE @,
                             !.codes = IF changed THEN @ ELSE @ \cup {k}]
           lastReport == [s EXCEPT !.lastMods = s.sticky, !.sticky = NoKey]
           again == {"NativeActions", "NativePostponing"}
           more == IF changed THEN again ELSE {}
           t == IF k \in s.current THEN set(down, more)
                ELSE IF s.sticky = k /\ k \in ShortcutKeys THEN set(lastReport, again)
                ELSE s
<1>1. Mods(k) \in Keys \cup {NoKey}
    BY DEF Mods
<1>2. Plain(s, down)
    BY <1>1 DEF Plain, KeyboardState
<1>3. Plain(s, lastReport) /\ Plain(s, s)
    BY DEF Plain, KeyboardState
<1>4. /\ again \in SUBSET Bits /\ more \in SUBSET Bits /\ {"ReportsChanged"} \in SUBSET Bits
      /\ "NativePostponing" \notin {"ReportsChanged"} /\ "NativeActions" \in again
      /\ "NativePostponing" \in more => "NativeActions" \in more
    BY DEF Bits, WakeBits, PostponingBits
<1>5. applyKeystrokePrimary(s, k) = set(t, {"ReportsChanged"})
    BY DEF applyKeystrokePrimary
<1> HIDE DEF down, lastReport, again, more
<1>6. Plain(s, t)
    BY <1>2, <1>3, <1>4, PlainBits
<1> HIDE DEF t
<1> QED BY <1>4, <1>5, <1>6, PlainBits

\* Macros_StartMacro
LEMMA PlainMacro ==
    ASSUME NEW s \in KeyboardState
    PROVE  Plain(s, startMacro(s)) /\ Plain(s, s)
<1> DEFINE t == [s EXCEPT !.macro = "awake", !.sticky = NoKey]
           bits == {"MacroEngine", "MacroPostponing", "ReportsChanged"}
<1>1. Plain(s, t) /\ Plain(s, s)
    BY DEF Plain, KeyboardState
<1>2. bits \in SUBSET Bits /\ "NativePostponing" \notin bits
    BY DEF Bits, WakeBits, PostponingBits
<1>3. startMacro(s) = set(t, bits)
    BY DEF startMacro
<1> HIDE DEF t, bits
<1> QED BY <1>1, <1>2, <1>3, PlainBits

\* applyKeystrokeSecondary: a key that is held holds the layer.
LEMMA HoldingSecondary ==
    ASSUME NEW s \in KeyboardState, NEW k \in Keys
    PROVE  LET t == applyKeystrokeSecondary(s, k)
           IN  /\ t.queue = s.queue /\ t.current = s.current /\ t.previous = s.previous
               /\ t.resolution = s.resolution
               /\ (s.holds => t.holds) /\ (s.layer => t.layer)
               /\ k \in s.current => t.holds /\ t.layer
               /\ t.vector \subseteq s.vector \cup {"LayerHolds"}
<1> DEFINE held == [s EXCEPT !.holds = TRUE, !.layer = TRUE]
           t == applyKeystrokeSecondary(s, k)
<1> SUFFICES /\ t.queue = s.queue /\ t.current = s.current /\ t.previous = s.previous
             /\ t.resolution = s.resolution
             /\ (s.holds => t.holds) /\ (s.layer => t.layer)
             /\ k \in s.current => t.holds /\ t.layer
             /\ t.vector \subseteq s.vector \cup {"LayerHolds"}
    OBVIOUS
<1>1. /\ held \in KeyboardState /\ held.queue = s.queue /\ held.current = s.current
      /\ held.previous = s.previous /\ held.resolution = s.resolution
      /\ held.holds /\ held.layer /\ held.vector = s.vector
    BY DEF KeyboardState
<1>2. \/ t = held
      \/ t = set(held, {"LayerHolds"})
      \/ t = set(s, {"LayerHolds"}) /\ k \notin s.current
    BY DEF applyKeystrokeSecondary
<1>3. {"LayerHolds"} \in SUBSET Bits
    BY DEF Bits, WakeBits
<1> HIDE DEF held, t
<1>4. ASSUME NEW r \in KeyboardState
      PROVE  LET u == set(r, {"LayerHolds"})
             IN  /\ u.queue = r.queue /\ u.current = r.current /\ u.previous = r.previous
                 /\ u.resolution = r.resolution /\ u.holds = r.holds /\ u.layer = r.layer
                 /\ u.vector = r.vector \cup {"LayerHolds"}
    <2>1. SameRoles(r, set(r, {"LayerHolds"}))
        BY <1>4, TheSignals, RolesOfBits
    <2> QED BY <1>3, <1>4, <2>1, SetsBits DEF SameRoles
<1>5. CASE t = held
    BY <1>1, <1>5
<1>6. CASE t = set(held, {"LayerHolds"})
    BY <1>1, <1>4, <1>6
<1>7. CASE t = set(s, {"LayerHolds"}) /\ k \notin s.current
    BY <1>4, <1>7
<1> QED BY <1>2, <1>5, <1>6, <1>7

-----------------------------------------------------------------------------
(* A key that is down.                                                     *)

\* Key k is pressed, and no release of it waits in the queue.
Unreleased(s, k) == \A i \in DOMAIN s.queue: ~(s.queue[i].key = k /\ ~s.queue[i].active)
Down(s, k) == k \in s.current /\ Unreleased(s, k)

\* It stays down when the oldest event takes effect.
LEMMA DownConsumed ==
    ASSUME NEW s \in KeyboardState, s.queue # <<>>, NEW k \in Keys, Down(s, k)
    PROVE  Down(applyEventAndConsume(s), k)
<1> DEFINE t == applyEventAndConsume(s)
           q == s.queue
<1>1. q \in Seq(Event) /\ q # <<>>
    BY Queues DEF KeyboardState
<1>2. /\ t.queue = Tail(q)
      /\ t.current = IF Head(q).key = Mouse THEN s.current
                     ELSE put(s.current, Head(q).key, Head(q).active)
    BY ConsumedFields
<1>3. /\ Len(q) \in Nat \ {0} /\ Tail(q) \in Seq(Event) /\ Len(Tail(q)) = Len(q) - 1
      /\ \A i \in 1..(Len(q) - 1): Tail(q)[i] = q[i + 1]
      /\ Head(q) = q[1] /\ DOMAIN q = 1..Len(q) /\ DOMAIN Tail(q) = 1..(Len(q) - 1)
    <2>1. Len(q) \in Nat \ {0}
        BY <1>1, EmptySeq, LenProperties
    <2> QED BY <1>1, <2>1, HeadTailProperties, LenProperties
<1> HIDE DEF t
<1>4. k \in t.current
    BY <1>2, <1>3 DEF Down, Unreleased, put
<1>5. Unreleased(t, k)
    BY <1>2, <1>3 DEF Down, Unreleased
<1> QED BY <1>4, <1>5 DEF Down, t

\* ... and when an event other than its release is queued.
LEMMA DownAppended ==
    ASSUME NEW s \in KeyboardState, NEW e \in Event, NEW k \in Keys, Down(s, k),
           e.key # k \/ e.active
    PROVE  Down(appendEvent(s, e), k)
<1> DEFINE r == IF Len(s.queue) = BufferSize THEN applyEventAndConsume(s) ELSE s
           t == appendEvent(s, e)
<1>1. Len(s.queue) = BufferSize => s.queue # <<>>
    BY BufferAssumption
<1>2. r \in KeyboardState /\ Down(r, k)
    BY <1>1, DownConsumed, ConsumedFields
<1>3. t = [r EXCEPT !.queue = Append(@, e)]
    BY DEF appendEvent
<1> HIDE DEF r
<1>4. r.queue \in Seq(Event)
    BY <1>2, Queues DEF KeyboardState
<1>5. t.queue = Append(r.queue, e) /\ t.current = r.current
    BY <1>2, <1>3 DEF KeyboardState
<1>6. /\ \A i \in 1..Len(r.queue): Append(r.queue, e)[i] = r.queue[i]
      /\ Append(r.queue, e)[Len(r.queue) + 1] = e
      /\ DOMAIN r.queue = 1..Len(r.queue) /\ DOMAIN Append(r.queue, e) = 1..(Len(r.queue) + 1)
      /\ Len(r.queue) \in Nat
    BY <1>4, AppendProperties, LenProperties
<1> HIDE DEF t
<1>7. Unreleased(t, k)
    BY <1>2, <1>5, <1>6 DEF Down, Unreleased
<1> QED BY <1>2, <1>5, <1>7 DEF Down, t

-----------------------------------------------------------------------------
(* Deciding on a role.                                                     *)

\* What a decision leaves alone: what the actions have seen, the layer, who
\* postpones, and the keys that are down.
Steady(s, t) ==
    /\ t \in KeyboardState
    /\ t.previous = s.previous /\ t.holds = s.holds /\ t.layer = s.layer
    /\ s.vector \subseteq t.vector
    /\ t.vector \cap PostponingBits = s.vector \cap PostponingBits
    /\ \A j \in Keys: Down(s, j) => Down(t, j)

\* The role stays unknown only while the release of the key is not in the queue.
LEMMA Deciding ==
    ASSUME NEW s \in KeyboardState, NEW k \in Keys
    PROVE  LET t == decide(s, k)
           IN  /\ Steady(s, t) /\ t.resolution.key = s.resolution.key
               /\ t.queue = s.queue /\ t.current = s.current
               /\ t.resolution.role = "unknown" => Unreleased(s, k)
<1> DEFINE t == decide(s, k)
<1>1. roleByQueue(s, k) \in Roles /\ "secondary" \in Roles
    BY DEF roleByQueue, Roles
<1>2. roleByQueue(s, k) = "unknown" => Unreleased(s, k)
    <2>1. s.queue \in Seq(Event)
        BY Queues DEF KeyboardState
    <2>2. ASSUME NEW i \in DOMAIN s.queue, s.queue[i].key = k, ~s.queue[i].active
          PROVE  s.queue[i] = [key |-> k, active |-> FALSE]
        <3>1. s.queue[i] \in Event
            BY <2>1
        <3> QED BY <2>2, <3>1 DEF Event
    <2> QED BY <2>2 DEF roleByQueue, Unreleased
<1>3. /\ t \in KeyboardState /\ t.resolution.key = s.resolution.key
      /\ t.queue = s.queue /\ t.current = s.current /\ t.previous = s.previous /\ t.vector = s.vector
      /\ t.holds = s.holds /\ t.layer = s.layer
      /\ t.resolution.role \in {"secondary", roleByQueue(s, k)}
    <2>1. CASE s.trigger
        <3> DEFINE r == [s.resolution EXCEPT !.role = "secondary"]
        <3>1. t = [s EXCEPT !.trigger = FALSE, !.resolution = r]
            BY <2>1 DEF decide
        <3>2. r \in [key: Keys \cup {NoKey}, role: Roles] /\ r.key = s.resolution.key /\ r.role = "secondary"
            BY <1>1 DEF KeyboardState
        <3> HIDE DEF r, t
        <3> QED BY <3>1, <3>2 DEF KeyboardState
    <2>2. CASE ~s.trigger
        <3>1. t = [s EXCEPT !.resolution.role = roleByQueue(s, k)]
            BY <2>2 DEF decide
        <3> QED BY <1>1, <3>1 DEF KeyboardState
    <2> QED BY <2>1, <2>2
<1> HIDE DEF t
<1>4. Steady(s, t)
    BY <1>3 DEF Steady, Down, Unreleased
<1> QED BY <1>2, <1>3, <1>4 DEF t

\* SecondaryRoles_ResolveState, for a key that has just been pressed
LEMMA Starting ==
    ASSUME NEW s \in KeyboardState, NEW k \in Keys
    PROVE  LET t == startResolution(s, k)
           IN  /\ Steady(s, t) /\ t.resolution.key = k
               /\ t.queue = s.queue /\ t.current = s.current
               /\ t.resolution.role = "unknown" => Unreleased(s, k)
<1> DEFINE r == [s EXCEPT !.resolution = [key |-> k, role |-> "unknown"], !.mouseBlocked = TRUE]
           t == startResolution(s, k)
<1>1. /\ r \in KeyboardState /\ r.resolution.key = k
      /\ r.queue = s.queue /\ r.current = s.current /\ r.previous = s.previous /\ r.vector = s.vector
      /\ r.holds = s.holds /\ r.layer = s.layer
    BY DEF KeyboardState, Roles
<1>2. t = decide(r, k)
    BY DEF startResolution
<1> HIDE DEF r, t
<1>3. /\ Steady(r, t) /\ t.resolution.key = k /\ t.queue = s.queue /\ t.current = s.current
      /\ t.resolution.role = "unknown" => Unreleased(r, k)
    BY <1>1, <1>2, Deciding
<1>4. Steady(s, t) /\ (Unreleased(r, k) <=> Unreleased(s, k))
    BY <1>1, <1>3 DEF Steady, Down, Unreleased
<1> QED BY <1>3, <1>4 DEF t

\* ... and in later cycles.
LEMMA Continuing ==
    ASSUME NEW s \in KeyboardState, NEW k \in Keys
    PROVE  LET t == continueResolution(s, k)
           IN  /\ Steady(s, t) /\ t.resolution.key = s.resolution.key
               /\ t.resolution.role = "unknown" =>
                    /\ s.resolution.role = "unknown" /\ t.queue = s.queue /\ t.current = s.current
                    /\ Unreleased(s, k)
               /\ s.resolution.role # "unknown" => t = s
<1> DEFINE r == IF s.resolution.role = "unknown" THEN decide(s, k) ELSE s
           e == [key |-> Mouse, active |-> FALSE]
           t == continueResolution(s, k)
<1>1. t = IF r.resolution.role = s.resolution.role THEN r ELSE appendEvent(r, e)
    BY DEF continueResolution
<1>2. Steady(s, s)
    BY DEF Steady
<1>3. /\ Steady(s, r) /\ r.resolution.key = s.resolution.key
      /\ r.queue = s.queue /\ r.current = s.current
      /\ r.resolution.role = "unknown" => s.resolution.role = "unknown" /\ Unreleased(s, k)
      /\ s.resolution.role # "unknown" => r = s
    BY <1>2, Deciding
<1>4. e \in Event /\ \A j \in Keys: e.key # j
    BY KeyFacts DEF Event
<1> HIDE DEF r, e, t
<1>5. r \in KeyboardState
    BY <1>3 DEF Steady
<1>6. SameRoles(r, appendEvent(r, e)) /\ r.vector \subseteq appendEvent(r, e).vector
    BY <1>4, <1>5, RolesOfAppended, Appended
<1>7. \A j \in Keys: Down(r, j) => Down(appendEvent(r, e), j)
    BY <1>4, <1>5, DownAppended
<1>8. Steady(s, appendEvent(r, e)) /\ appendEvent(r, e).resolution = r.resolution
    BY <1>3, <1>6, <1>7 DEF Steady, SameRoles
<1>9. Steady(s, t) /\ t.resolution = r.resolution
    BY <1>1, <1>3, <1>8
<1>10. CASE r.resolution.role = s.resolution.role
    <2>1. t = r
        BY <1>1, <1>10
    <2> QED BY <1>3, <2>1 DEF t
<1>11. CASE r.resolution.role # s.resolution.role
    <2>1. r.resolution.role # "unknown" /\ s.resolution.role = "unknown"
        BY <1>3, <1>11
    <2> QED BY <1>3, <1>9, <2>1 DEF t
<1> QED BY <1>10, <1>11

-----------------------------------------------------------------------------
(* A visit of a key.                                                       *)

\* The action of key k takes the main loop from s to u: it changes only the
\* resolution of k, which starts as k is pressed; it leaves k undecided only if
\* it postpones, and k was pressed or undecided before; it holds the layer as
\* long as k is held as secondary; and it queues an event only as it decides.
Visits(s, u, k) ==
    /\ u \in KeyboardState /\ s.vector \subseteq u.vector
    /\ (s.holds => u.holds) /\ (s.layer => u.layer)
    /\ u.resolution.key # k => u.resolution = s.resolution
    /\ u.resolution.key = k => s.resolution.key = k \/ Pending(s, k)
    /\ u.resolution.key = k /\ u.resolution.role = "unknown" /\ k \in s.current \cup s.previous =>
         /\ "NativePostponing" \in u.vector
         /\ u.queue = s.queue /\ u.current = s.current /\ Unreleased(s, k)
         /\ Pending(s, k) \/ (s.resolution.key = k /\ Holding(s, "unknown"))
    /\ u.resolution.key = k /\ u.resolution.role = "secondary" /\ k \in u.current => u.holds /\ u.layer
    /\ "NativePostponing" \in u.vector =>
         \/ "NativePostponing" \in s.vector \/ "NativeActions" \in u.vector
         \/ u.resolution.key = k /\ u.resolution.role = "unknown" /\ k \in s.current \cup s.previous
    /\ \A j \in Keys: j # k /\ Down(s, j) => Down(u, j)
    /\ s.queue = <<>> /\ u.queue # <<>> => s.resolution.key = k /\ Holding(s, "unknown")

\* An action that does not concern the resolution.
LEMMA PlainVisits ==
    ASSUME NEW s \in KeyboardState, NEW u, NEW k, Plain(s, u), s.resolution.key # k
    PROVE  Visits(s, u, k)
BY DEF Plain, Visits, Down, Unreleased

\* applyKeystroke, for a key with a secondary role
LEMMA DualVisits ==
    ASSUME NEW s \in KeyboardState, NEW k \in DualKeys, k \in s.current \cup s.previous
    PROVE  Visits(s, applyDualRole(s, k), k)
<1> DEFINE fresh == ActivatedNow(s, k)
           continues == ~fresh /\ k = s.resolution.key
           r == IF fresh THEN startResolution(s, k)
                ELSE IF k = s.resolution.key THEN continueResolution(s, k) ELSE s
           role == IF k = r.resolution.key THEN r.resolution.role
                   ELSE IF k \in s.secondary THEN "secondary" ELSE "primary"
           decidedNow == /\ k = r.resolution.key /\ role # "unknown"
                         /\ fresh \/ s.resolution.role = "unknown"
           t == IF decidedNow THEN activate(r, k) ELSE r
           u == applyDualRole(s, k)
<1> SUFFICES Visits(s, u, k)
    OBVIOUS
<1>1. k \in Keys
    BY KeyAssumption
<1>2. u = CASE role = "unknown" -> set(t, {"NativePostponing"})
            [] role = "primary" -> applyKeystrokePrimary(t, k)
            [] role = "secondary" -> applyKeystrokeSecondary(t, k)
    BY DEF applyDualRole
<1>3. u \in KeyboardState /\ s.vector \subseteq u.vector
    BY ActsDualRole DEF Acts
<1>4. (fresh <=> Pending(s, k)) /\ (continues => k \in s.previous)
    BY DEF ActivatedNow, Pending
<1>5. fresh => /\ Steady(s, r) /\ r.resolution.key = k /\ r.queue = s.queue /\ r.current = s.current
               /\ r.resolution.role = "unknown" => Unreleased(s, k)
    BY <1>1, Starting
<1>6. continues =>
        /\ Steady(s, r) /\ r.resolution.key = k
        /\ r.resolution.role = "unknown" =>
             s.resolution.role = "unknown" /\ r.queue = s.queue /\ r.current = s.current /\ Unreleased(s, k)
        /\ s.resolution.role # "unknown" => r = s
    BY <1>1, Continuing
<1>7. ~fresh /\ ~continues => r = s /\ s.resolution.key # k
    OBVIOUS
<1> HIDE DEF r, fresh, u
<1>8. Steady(s, s)
    BY DEF Steady
<1>9. Steady(s, r) /\ r \in KeyboardState
    BY <1>5, <1>6, <1>7, <1>8 DEF Steady
<1>10. /\ r.resolution.key # k => r.resolution = s.resolution
       /\ r.resolution.key = k => s.resolution.key = k \/ Pending(s, k)
    BY <1>4, <1>5, <1>6, <1>7
<1>11. s.queue = <<>> /\ r.queue # <<>> => s.resolution.key = k /\ Holding(s, "unknown")
    BY <1>4, <1>5, <1>6, <1>7 DEF Holding
<1>12. /\ t \in KeyboardState /\ t.queue = r.queue /\ t.vector = r.vector /\ t.resolution = r.resolution
       /\ t.holds = r.holds /\ t.layer = r.layer
       /\ \A j \in Keys: j # k => (j \in t.current <=> j \in r.current)
    <2>1. activate(r, k) \in KeyboardState
        BY <1>9, ActsActivating DEF Acts
    <2>2. CASE decidedNow
        <3>1. put(r.secondary, k, r.resolution.role = "secondary") \in SUBSET Keys
            BY <1>1, <1>9 DEF put, KeyboardState
        <3> QED BY <1>1, <1>9, <2>1, <2>2, <3>1 DEF activate, KeyboardState
    <2>3. CASE ~decidedNow
        BY <1>9, <2>3
    <2> QED BY <2>2, <2>3
<1>13. \A j \in Keys: j # k /\ Down(s, j) => Down(t, j)
    BY <1>9, <1>12 DEF Steady, Down, Unreleased
<1>14. role = "unknown" => t = r /\ k = r.resolution.key /\ r.resolution.role = "unknown"
    OBVIOUS
<1>15. k = r.resolution.key => role = r.resolution.role
    OBVIOUS
<1>16. role \in Roles
    BY <1>9 DEF KeyboardState, Roles
<1> HIDE DEF t, role
<1>17. CASE role = "unknown"
    <2>1. u = set(t, {"NativePostponing"})
        BY <1>2, <1>17
    <2>2. {"NativePostponing"} \in SUBSET Bits
        BY DEF Bits, PostponingBits
    <2>3. /\ u.queue = t.queue /\ u.current = t.current /\ u.previous = t.previous
          /\ u.vector = t.vector \cup {"NativePostponing"}
        BY <1>12, <2>1, <2>2, SetsBits
    <2>4. u.resolution = t.resolution /\ u.holds = t.holds /\ u.layer = t.layer
        BY <1>12, <2>1 DEF set, KeyboardState
    <2>5. t = r /\ r.queue = s.queue /\ r.current = s.current /\ Unreleased(s, k)
        BY <1>5, <1>6, <1>7, <1>14, <1>17
    <2>6. Pending(s, k) \/ (s.resolution.key = k /\ Holding(s, "unknown"))
        BY <1>4, <1>6, <1>7, <1>14, <1>17 DEF Holding
    <2>7. \A j \in Keys: j # k /\ Down(s, j) => Down(u, j)
        BY <1>13, <2>3 DEF Down, Unreleased
    <2> QED BY <1>3, <1>9, <1>10, <1>12, <1>14, <1>17, <2>3, <2>4, <2>5, <2>6, <2>7 DEF Visits, Steady
<1>18. CASE role = "primary"
    <2>1. u = applyKeystrokePrimary(t, k)
        BY <1>2, <1>18
    <2>2. Plain(t, u)
        BY <1>1, <1>12, <2>1, PlainPrimary
    <2>3. u.resolution = r.resolution /\ u.queue = r.queue
        BY <1>12, <2>2 DEF Plain
    <2>4. r.resolution.key = k => r.resolution.role = "primary"
        BY <1>15, <1>18
    <2>5. \A j \in Keys: j # k /\ Down(s, j) => Down(u, j)
        BY <1>13, <2>2 DEF Plain, Down, Unreleased
    <2>6. (s.holds => u.holds) /\ (s.layer => u.layer)
        BY <1>9, <1>12, <2>2 DEF Plain, Steady
    <2>7. "NativePostponing" \in u.vector => "NativePostponing" \in s.vector \/ "NativeActions" \in u.vector
        BY <1>9, <1>12, <2>2 DEF Plain, Steady, PostponingBits
    <2> QED BY <1>3, <1>10, <1>11, <2>3, <2>4, <2>5, <2>6, <2>7 DEF Visits
<1>19. CASE role = "secondary"
    <2>1. u = applyKeystrokeSecondary(t, k)
        BY <1>2, <1>19
    <2>2. /\ u.queue = t.queue /\ u.current = t.current /\ u.resolution = t.resolution
          /\ (t.holds => u.holds) /\ (t.layer => u.layer)
          /\ k \in t.current => u.holds /\ u.layer
          /\ u.vector \subseteq t.vector \cup {"LayerHolds"}
        BY <1>1, <1>12, <2>1, HoldingSecondary
    <2>3. r.resolution.key = k => r.resolution.role = "secondary"
        BY <1>15, <1>19
    <2>4. \A j \in Keys: j # k /\ Down(s, j) => Down(u, j)
        BY <1>13, <2>2 DEF Down, Unreleased
    <2>5. (s.holds => u.holds) /\ (s.layer => u.layer)
        BY <1>9, <1>12, <2>2 DEF Steady
    <2>6. "NativePostponing" \in u.vector => "NativePostponing" \in s.vector
        BY <1>9, <1>12, <2>2 DEF Steady, PostponingBits
    <2> QED BY <1>3, <1>10, <1>11, <1>12, <2>2, <2>3, <2>4, <2>5, <2>6 DEF Visits
<1> QED BY <1>16, <1>17, <1>18, <1>19 DEF Roles

\* The loop of updateActionStates, for one key.
LEMMA ProcessVisits ==
    ASSUME NEW s \in KeyboardState, NEW k \in Keys, Resolves(s)
    PROVE  Visits(s, processKey(s, k), k) /\ Resolves(processKey(s, k))
<1> DEFINE t == ApplyKeyAction(s, k)
           u == processKey(s, k)
<1> SUFFICES Visits(s, u, k) /\ Resolves(u)
    OBVIOUS
<1>1. u = IF k \notin s.current \cup s.previous THEN s
          ELSE [t EXCEPT !.previous = put(@, k, k \in t.current)]
    BY DEF processKey
<1>2. u \in KeyboardState
    BY ActsProcessing DEF Acts
<1>3. t = IF k \in MacroKeys THEN IF ActivatedNow(s, k) THEN startMacro(s) ELSE s
          ELSE IF k \in DualKeys THEN applyDualRole(s, k)
          ELSE applyKeystrokePrimary(s, k)
    BY DEF ApplyKeyAction
<1> HIDE DEF t, u
<1>4. CASE k \notin s.current \cup s.previous
    BY <1>1, <1>4 DEF Visits, Down
<1>5. CASE k \in s.current \cup s.previous
    <2>1. Visits(s, t, k) /\ Resolves(t)
        <3>1. CASE k \in DualKeys \ MacroKeys
            <4>1. Visits(s, t, k)
                BY <1>3, <1>5, <3>1, DualVisits
            <4> QED BY <3>1, <4>1 DEF Resolves, Resolved, Visits
        <3>2. CASE k \notin DualKeys \ MacroKeys
            <4>1. Plain(s, t)
                BY <1>3, <3>2, PlainMacro, PlainPrimary
            <4>2. s.resolution.key # k
                BY <3>2, KeyFacts DEF Resolves, Resolved
            <4> QED BY <4>1, <4>2, PlainVisits DEF Plain, Resolves
        <3> QED BY <3>1, <3>2
    <2>2. t \in KeyboardState
        BY <2>1 DEF Visits
    <2>3. /\ u.queue = t.queue /\ u.current = t.current /\ u.vector = t.vector
          /\ u.resolution = t.resolution /\ u.holds = t.holds /\ u.layer = t.layer
        BY <1>1, <1>5, <2>2 DEF KeyboardState
    <2> QED BY <1>2, <2>1, <2>3 DEF Visits, Resolves, Down, Unreleased
<1> QED BY <1>4, <1>5

-----------------------------------------------------------------------------
(* The invariants.                                                         *)

\* One step of DualRoleFirst.
StepFirst ==
    \A k \in kb'.previous \ kb.previous:
       k # kb.resolution.key =>
           (Len(kb.queue) < MaxFill => ~Undecided) /\ (HeldAsSecondary => kb.layer)

InTurn == Resolves(kb)' /\ HeldBack' /\ Layered' /\ StepFirst

\* Steps outside the visits of the keys that leave the resolution alone.
LEMMA AsideIsInTurn ==
    ASSUME First, SameRoles(kb, kb'),
           \/ /\ pc' = pc /\ at' = at /\ queuing' = queuing /\ lastPostponing' = lastPostponing
              /\ kb'.queue = kb.queue /\ kb'.current = kb.current
           \/ /\ pc # "keys" /\ pc' # "keys"
              /\ pc' \in {"idle", "input"} /\ "NativePostponing" \in kb.vector => lastPostponing'
    PROVE  InTurn
<1>1. "NativePostponing" \in kb.vector <=> "NativePostponing" \in kb'.vector
    BY DEF SameRoles, PostponingBits
<1>2. kb'.resolution = kb.resolution /\ kb'.previous = kb.previous /\ kb'.holds = kb.holds /\ kb'.layer = kb.layer
    BY DEF SameRoles
<1>3. HeldBack /\ Layered /\ Resolves(kb)
    BY DEF First
<1>4. CASE /\ pc' = pc /\ at' = at /\ queuing' = queuing /\ lastPostponing' = lastPostponing
           /\ kb'.queue = kb.queue /\ kb'.current = kb.current
    BY <1>1, <1>2, <1>3, <1>4 DEF InTurn, StepFirst, HeldBack, Layered, Resolves, Holding, ToCome, Pending, Crowded
<1>5. CASE /\ pc # "keys" /\ pc' # "keys"
           /\ pc' \in {"idle", "input"} /\ "NativePostponing" \in kb.vector => lastPostponing'
    BY <1>1, <1>2, <1>3, <1>5 DEF InTurn, StepFirst, HeldBack, Layered, Resolves, Holding, ToCome
<1> QED BY <1>4, <1>5

\* The world sets bits that postpone nothing.
LEMMA WorldIsInTurn ==
    ASSUME First, World
    PROVE  InTurn
<1>1. kb \in KeyboardState
    BY DEF First, Inv, TypeOK
<1>2. PICK bits \in SUBSET Signals: kb' = kb \/ kb' = set(kb, bits)
    <2>1. {"StateMatrix"} \in SUBSET Signals /\ {"NativeActions"} \in SUBSET Signals
          /\ {"MacroEngine"} \in SUBSET Signals /\ {"MouseController"} \in SUBSET Signals
        BY TheSignals
    <2> QED BY <2>1 DEF World, Scan, DebounceElapses, Rescan, NativeTimerExpires, MacroTimerExpires,
                        DelayElapses, PointerMoves
<1>3. pc' = pc /\ at' = at /\ queuing' = queuing /\ lastPostponing' = lastPostponing
    BY DEF World, Scan, DebounceElapses, Rescan, NativeTimerExpires, MacroTimerExpires,
           DelayElapses, PointerMoves, cycle
<1>4. bits \in SUBSET Bits
    BY DEF Signals
<1>5. SameRoles(kb, kb') /\ kb'.queue = kb.queue /\ kb'.current = kb.current
    BY <1>1, <1>2, <1>4, RolesOfBits, SetsBits
<1> QED BY <1>3, <1>5, AsideIsInTurn

\* The change of a key is queued or committed.
LEMMA RolesOfPreprocessed ==
    ASSUME First
    PROVE  SameRoles(kb, preprocess(kb, at)) /\ kb.vector \subseteq preprocess(kb, at).vector
<1>1. kb \in KeyboardState /\ at \in Keys /\ (at \in hw) \in BOOLEAN
    BY DEF First, Inv, TypeOK
<1>2. SameRoles(kb, kb)
    BY <1>1 DEF SameRoles
<1> QED BY <1>1, <1>2, RolesOfCommitted DEF preprocess

\* A key is debounced while the keystroke delay lasts.
LEMMA InputKeyIsInTurn ==
    ASSUME First, InputKey
    PROVE  InTurn
<1>1. SameRoles(kb, kb')
    BY RolesOfPreprocessed DEF InputKey
<1>2. pc = "input" /\ pc' \in {"input", "idle"} /\ lastPostponing' = lastPostponing /\ queuing' = queuing
    BY DEF InputKey, NextKey, cycle
<1>3. HeldBack /\ Layered /\ Resolves(kb)
    BY DEF First
<1>4. "NativePostponing" \in kb.vector <=> "NativePostponing" \in kb'.vector
    BY <1>1 DEF SameRoles, PostponingBits
<1> QED BY <1>1, <1>2, <1>3, <1>4 DEF InTurn, StepFirst, HeldBack, Layered, Resolves, Holding, ToCome, SameRoles

\* A cycle of input begins: it postpones, but the loop does not look at that.
LEMMA JustPreprocessInputIsInTurn ==
    ASSUME First, JustPreprocessInput
    PROVE  InTurn
<1>1. kb \in KeyboardState /\ {"NativePostponing"} \in SUBSET Bits
    BY DEF First, Inv, TypeOK, Bits, PostponingBits
<1>2. /\ kb' = set(kb, {"NativePostponing"}) /\ pc = "idle" /\ pc' = "input"
      /\ lastPostponing' = lastPostponing /\ queuing' = queuing
    BY DEF JustPreprocessInput, cycle
<1>3. kb'.previous = kb.previous /\ kb.vector \subseteq kb'.vector
    BY <1>1, <1>2, SetsBits
<1>4. kb'.resolution = kb.resolution /\ kb'.holds = kb.holds /\ kb'.layer = kb.layer
    BY <1>1, <1>2 DEF set, KeyboardState
<1>5. HeldBack /\ Layered /\ Resolves(kb)
    BY DEF First
<1> QED BY <1>2, <1>3, <1>4, <1>5 DEF InTurn, StepFirst, HeldBack, Layered, Resolves, Holding, ToCome

\* MouseController_ProcessMouseActions
LEMMA RolesOfMouse ==
    ASSUME NEW s \in KeyboardState
    PROVE  SameRoles(s, processMouse(s))
<1>1. SameRoles(s, unset(s, {"MouseController"}))
    BY TheSignals, RolesOfBits
<1>2. SameRoles(s, [s EXCEPT !.sticky = NoKey])
    BY DEF SameRoles, KeyboardState
<1>3. SameRoles(s, [s EXCEPT !.trigger = @ \/ s.resolution.role = "unknown"])
    BY DEF SameRoles, KeyboardState
<1> QED BY <1>1, <1>2, <1>3 DEF processMouse

\* What FinishCycle does to the keyboard's state.
LEMMA RolesOfFinish ==
    ASSUME kb \in KeyboardState, FinishCycle
    PROVE  /\ SameRoles(kb, kb') /\ (lastPostponing' <=> isSet(kb, PostponingBits))
           /\ pc = "finish" /\ pc' = "idle"
           /\ kb'.queue = kb.queue /\ kb'.current = kb.current
           /\ kb.vector \cap {"NativeActions", "Postponer"} \subseteq kb'.vector
           /\ lastPostponing /\ ~isSet(kb, PostponingBits) /\ kb.queue # <<>> =>
                "Postponer" \in kb'.vector
<1> DEFINE s == processMouse(kb)
           w == IF lastPostponing /\ ~isSet(s, PostponingBits) /\ s.queue # <<>>
                THEN set(s, {"Postponer"}) ELSE s
<1>1. {"Postponer"} \in SUBSET Signals /\ {"ZeroScan"} \in SUBSET Signals
    BY TheSignals
<1>2. SameRoles(kb, s)
    BY RolesOfMouse
<1>3. /\ kb' = set(w, {"ZeroScan"}) \/ kb' = unset(w, {"ZeroScan"})
      /\ lastPostponing' = isSet(s, PostponingBits) /\ pc = "finish" /\ pc' = "idle"
    BY DEF FinishCycle
<1>9. Still(kb, s) /\ kb.vector \ {"MouseController"} \subseteq s.vector
    <2>1. {"MouseController"} \in SUBSET Bits
        BY DEF Bits, WakeBits
    <2>2. s.vector = kb.vector \/ s = unset(kb, {"MouseController"})
        BY DEF processMouse, KeyboardState
    <2> QED BY <2>1, <2>2, StillForMouse, ClearsBits
<1> HIDE DEF s
<1>4. SameRoles(s, s) /\ SameRoles(s, set(s, {"Postponer"}))
    BY <1>1, <1>2, RolesOfBits DEF SameRoles
<1>5. SameRoles(s, w)
    BY <1>4
<1>10. {"Postponer"} \in SUBSET Bits /\ {"ZeroScan"} \in SUBSET Bits
    BY <1>1 DEF Signals
<1>11. /\ Still(s, w) /\ s.vector \subseteq w.vector
       /\ lastPostponing /\ ~isSet(s, PostponingBits) /\ s.queue # <<>> => "Postponer" \in w.vector
    BY <1>2, <1>10, SetsBits DEF Still, SameRoles
<1> HIDE DEF w
<1>12. Still(w, kb') /\ w.vector \ {"ZeroScan"} \subseteq kb'.vector
    BY <1>3, <1>10, <1>11, SetsBits, ClearsBits DEF Still
<1>6. SameRoles(w, kb')
    BY <1>1, <1>3, <1>5, RolesOfBits DEF SameRoles
<1>7. SameRoles(kb, kb')
    BY <1>2, <1>5, <1>6, RolesInTurn
<1>8. isSet(s, PostponingBits) <=> isSet(kb, PostponingBits)
    BY <1>2 DEF SameRoles, isSet
<1>13. /\ kb'.queue = kb.queue /\ kb'.current = kb.current
       /\ kb.vector \cap {"NativeActions", "Postponer"} \subseteq kb'.vector
       /\ lastPostponing /\ ~isSet(kb, PostponingBits) /\ kb.queue # <<>> => "Postponer" \in kb'.vector
    BY <1>8, <1>9, <1>11, <1>12 DEF Still
<1> QED BY <1>3, <1>7, <1>8, <1>13

\* A cycle ends, and the loop remembers whether somebody postpones.
LEMMA FinishCycleIsInTurn ==
    ASSUME First, FinishCycle
    PROVE  InTurn
<1>1. /\ SameRoles(kb, kb') /\ (lastPostponing' <=> isSet(kb, PostponingBits))
      /\ pc = "finish" /\ pc' = "idle"
    BY RolesOfFinish DEF First, Inv, TypeOK
<1>2. "NativePostponing" \in kb.vector => lastPostponing'
    BY <1>1 DEF isSet, PostponingBits
<1> QED BY <1>1, <1>2, AsideIsInTurn

-----------------------------------------------------------------------------
(* The beginning of a cycle.                                               *)

\* The resolution and what the actions have seen are the same, and a native
\* action postpones or not as before.
SameHolder(s, t) ==
    /\ t \in KeyboardState
    /\ t.resolution = s.resolution /\ t.previous = s.previous
    /\ "NativePostponing" \in t.vector <=> "NativePostponing" \in s.vector

\* Macros_ContinueMacro
LEMMA HolderOfMacros ==
    ASSUME NEW s \in KeyboardState, NEW macro \in {"ended", "awake", "onKey", "onTime"},
           NEW postpones \in BOOLEAN
    PROVE  LET t == continueMacro(s, macro, postpones)
           IN  SameHolder(s, t) /\ t.holds = s.holds /\ t.layer = s.layer
<1> DEFINE r == [s EXCEPT !.macro = macro]
           gone == {"MacroEngine", "MacroPostponing"}
           bits == (IF macro = "awake" THEN {"MacroEngine"} ELSE {})
                   \cup (IF postpones THEN {"MacroPostponing"} ELSE {})
           t == unset(r, gone)
           u == continueMacro(s, macro, postpones)
<1>1. /\ r \in KeyboardState /\ r.previous = s.previous /\ r.resolution = s.resolution
      /\ r.holds = s.holds /\ r.layer = s.layer /\ r.vector = s.vector
    BY DEF KeyboardState
<1>2. gone \in SUBSET Bits /\ bits \in SUBSET Bits /\ "NativePostponing" \notin gone \cup bits
    BY DEF Bits, WakeBits, PostponingBits
<1>3. u = set(t, bits)
    BY DEF continueMacro
<1> HIDE DEF r, gone, bits, u
<1>4. /\ t \in KeyboardState /\ t.previous = r.previous /\ t.vector = r.vector \ gone
      /\ t.resolution = r.resolution /\ t.holds = r.holds /\ t.layer = r.layer
    BY <1>1, <1>2, ClearsBits DEF unset, KeyboardState
<1> HIDE DEF t
<1>5. /\ u \in KeyboardState /\ u.previous = t.previous /\ u.vector = t.vector \cup bits
      /\ u.resolution = t.resolution /\ u.holds = t.holds /\ u.layer = t.layer
    BY <1>2, <1>3, <1>4, SetsBits DEF set, KeyboardState
<1> QED BY <1>1, <1>2, <1>4, <1>5 DEF SameHolder, u

\* handleLayerChanges
LEMMA HolderOfLayers ==
    ASSUME NEW s \in KeyboardState
    PROVE  LET t == handleLayerChanges(s)
           IN  SameHolder(s, t) /\ t.holds = s.holds /\ t.layer = s.holds
<1> DEFINE r == [s EXCEPT !.layer = s.holds]
           t == unset(r, {"LayerHolds"})
           v == [t EXCEPT !.sticky = NoKey]
           u == handleLayerChanges(s)
<1>1. /\ r \in KeyboardState /\ r.previous = s.previous /\ r.resolution = s.resolution
      /\ r.holds = s.holds /\ r.layer = s.holds /\ r.vector = s.vector
    BY DEF KeyboardState
<1>2. {"LayerHolds"} \in SUBSET Signals /\ {"ReportsChanged"} \in SUBSET Signals
    BY TheSignals
<1>3. u = t \/ u = set(v, {"ReportsChanged"})
    BY DEF handleLayerChanges
<1> HIDE DEF r, u
<1>4. SameRoles(r, t)
    BY <1>1, <1>2, RolesOfBits
<1> HIDE DEF t
<1>5. SameRoles(t, v)
    BY <1>4 DEF SameRoles, KeyboardState
<1> HIDE DEF v
<1>6. SameRoles(v, set(v, {"ReportsChanged"}))
    BY <1>2, <1>5, RolesOfBits DEF SameRoles
<1>7. SameRoles(r, u)
    BY <1>3, <1>4, <1>5, <1>6, RolesInTurn
<1> QED BY <1>1, <1>7 DEF SameRoles, SameHolder, PostponingBits, u

\* PostponerCore_RunPostponedEvents: while somebody postpones, nothing is replayed
\* but what is above the limit; otherwise the rest of the queue wakes the loop.
LEMMA RolesOfReplayed ==
    ASSUME NEW s \in KeyboardState
    PROVE  LET t == RunPostponedEvents(s)
           IN  /\ SameRoles(s, t)
               /\ isSet(s, PostponingBits) /\ Len(s.queue) <= MaxFill =>
                    t.queue = s.queue /\ t.current = s.current
               /\ ~isSet(s, PostponingBits) /\ t.queue # <<>> => "Postponer" \in t.vector
               /\ \A k \in Keys: Down(s, k) => Down(t, k)
<1> DEFINE r == IF Replays(s) THEN applyEventAndConsume(s) ELSE s
           t == RunPostponedEvents(s)
<1>1. {"Postponer"} \in SUBSET Signals /\ {"Postponer"} \in SUBSET Bits
    BY TheSignals DEF Signals
<1>2. SameRoles(s, r) /\ r \in KeyboardState /\ \A k \in Keys: Down(s, k) => Down(r, k)
    <2>1. CASE Replays(s)
        <3>1. s.queue # <<>> /\ r = applyEventAndConsume(s)
            BY <2>1 DEF Replays
        <3>2. \A k \in Keys: Down(s, k) => Down(applyEventAndConsume(s), k)
            BY <3>1, DownConsumed
        <3> QED BY <3>1, <3>2, RolesOfConsumed DEF SameRoles
    <2>2. CASE ~Replays(s)
        BY <2>2 DEF SameRoles
    <2> QED BY <2>1, <2>2
<1>3. isSet(s, PostponingBits) /\ Len(s.queue) <= MaxFill => r = s
    <2>1. Len(s.queue) <= MaxFill => ~(Len(s.queue) > MaxFill)
        BY Lengths, BufferAssumption
    <2> QED BY <2>1 DEF Replays
<1>4. t = IF r.queue # <<>> /\ ~isSet(s, PostponingBits) THEN set(r, {"Postponer"}) ELSE unset(r, {"Postponer"})
    BY DEF RunPostponedEvents
<1> HIDE DEF r, t
<1>5. /\ t.queue = r.queue /\ t.current = r.current /\ SameRoles(r, t)
      /\ t = set(r, {"Postponer"}) => "Postponer" \in t.vector
    BY <1>1, <1>2, <1>4, SetsBits, ClearsBits, RolesOfBits
<1>6. SameRoles(s, t)
    BY <1>2, <1>5, RolesInTurn
<1>7. \A k \in Keys: Down(s, k) => Down(t, k)
    BY <1>2, <1>5 DEF Down, Unreleased
<1> QED BY <1>3, <1>4, <1>5, <1>6, <1>7 DEF t

\* The reports and holds of the last cycle are cleared.
LEMMA HolderOfReset ==
    ASSUME NEW s \in KeyboardState
    PROVE  LET t == resetActions(s)
           IN  /\ t \in KeyboardState /\ t.resolution = s.resolution /\ t.previous = s.previous
               /\ t.layer = s.layer /\ t.queue = s.queue /\ t.current = s.current
               /\ "NativePostponing" \notin t.vector
               /\ s.vector \ {"NativeActions", "StateMatrix", "NativePostponing"} \subseteq t.vector
<1> DEFINE r == [s EXCEPT !.holds = FALSE, !.codes = {}, !.lastMods = NoKey]
           gone == {"NativeActions", "StateMatrix", "NativePostponing"}
           bits == IF s.lastMods # NoKey THEN {"ReportsChanged"} ELSE {}
           t == unset(r, gone)
           u == resetActions(s)
<1>1. /\ r \in KeyboardState /\ r.previous = s.previous /\ r.resolution = s.resolution
      /\ r.layer = s.layer /\ r.vector = s.vector /\ r.queue = s.queue /\ r.current = s.current
    BY DEF KeyboardState
<1>2. gone \in SUBSET Bits /\ bits \in SUBSET Bits /\ "NativePostponing" \in gone \ bits
    BY DEF Bits, WakeBits, PostponingBits
<1>3. u = set(t, bits)
    BY DEF resetActions
<1>4. gone = {"NativeActions", "StateMatrix", "NativePostponing"}
    OBVIOUS
<1> HIDE DEF r, gone, bits, u
<1>5. /\ t \in KeyboardState /\ t.previous = r.previous /\ t.vector = r.vector \ gone
      /\ t.resolution = r.resolution /\ t.layer = r.layer /\ t.queue = r.queue /\ t.current = r.current
    BY <1>1, <1>2, ClearsBits DEF unset, KeyboardState
<1> HIDE DEF t
<1>6. /\ u \in KeyboardState /\ u.previous = t.previous /\ u.vector = t.vector \cup bits
      /\ u.resolution = t.resolution /\ u.layer = t.layer /\ u.queue = t.queue /\ u.current = t.current
    BY <1>2, <1>3, <1>5, SetsBits DEF set, KeyboardState
<1> QED BY <1>1, <1>2, <1>4, <1>5, <1>6 DEF u

\* All of BeginCycle: at most one event takes effect, and none of those that are
\* postponed, unless the queue is above its limit.
LEMMA HolderOfCycle ==
    ASSUME kb \in KeyboardState, NEW macro \in {"ended", "awake", "onKey", "onTime"},
           NEW postpones \in BOOLEAN, BeginCycle(macro, postpones)
    PROVE  /\ kb' \in KeyboardState /\ kb'.resolution = kb.resolution /\ kb'.previous = kb.previous
           /\ kb.holds /\ kb.layer => kb'.layer
           /\ \/ kb'.queue = kb.queue /\ kb'.current = kb.current
              \/ /\ kb.queue # <<>> /\ kb'.queue = Tail(kb.queue)
                 /\ kb'.current = IF Head(kb.queue).key = Mouse THEN kb.current
                                  ELSE put(kb.current, Head(kb.queue).key, Head(kb.queue).active)
           /\ "NativePostponing" \in kb.vector =>
                /\ queuing'
                /\ Len(kb.queue) <= MaxFill => kb'.queue = kb.queue /\ kb'.current = kb.current
           /\ pc = "idle" /\ at' = 1 /\ lastPostponing' = lastPostponing /\ pc' \in {"keys", "finish"}
           /\ pc' = "finish" =>
                /\ kb'.holds = kb.holds /\ "NativeActions" \notin kb.vector
                /\ "NativePostponing" \in kb'.vector <=> "NativePostponing" \in kb.vector
           /\ pc' = "keys" => "NativePostponing" \notin kb'.vector
           /\ kb'.queue # <<>> =>
                \/ {"Postponer", "MacroPostponing"} \cap kb'.vector # {}
                \/ "NativePostponing" \in kb.vector
           /\ \A k \in Keys: Down(kb, k) => Down(kb', k)
<1> DEFINE b == unset(kb, {"ReportsChanged"})
           m == continueMacro(b, macro, postpones)
           s == IF isSet(m, {"LayerHolds"}) THEN handleLayerChanges(m) ELSE m
           p == RunPostponedEvents(s)
<1>1. {"ReportsChanged"} \in SUBSET Signals
    BY TheSignals
<1>2. SameRoles(kb, b) /\ Still(kb, b) /\ Asks(kb, b)
    BY <1>1, RolesOfBits, ClearsBits DEF Still, Asks, Signals
<1>3. /\ pc = "idle" /\ at' = 1 /\ lastPostponing' = lastPostponing
      /\ queuing' = (s.queue # <<>> \/ isSet(s, PostponingBits))
      /\ IF isSet(p, {"NativeActions", "StateMatrix"})
         THEN kb' = resetActions(p) /\ pc' = "keys"
         ELSE kb' = p /\ pc' = "finish"
    BY DEF BeginCycle
<1> HIDE DEF b
<1>4. SameHolder(b, m) /\ m.holds = b.holds /\ m.layer = b.layer /\ Still(b, m) /\ Asks(b, m)
    <2>1. b \in KeyboardState
        BY <1>2 DEF Still
    <2>2. SameHolder(b, m) /\ m.holds = b.holds /\ m.layer = b.layer
        BY <2>1, HolderOfMacros
    <2> QED BY <2>1, <2>2, StillForMacros, MacrosAsk
<1> HIDE DEF m
<1>5. /\ SameHolder(m, s) /\ s.holds = m.holds /\ s.layer \in {m.layer, m.holds}
      /\ Still(m, s) /\ Asks(m, s)
    BY <1>4, HolderOfLayers, StillForLayers, MacrosAsk DEF Still, Asks, SameHolder
<1> HIDE DEF s
<1>6. /\ s \in KeyboardState /\ s.queue = kb.queue /\ s.current = kb.current
      /\ s.previous = kb.previous /\ Asks(kb, s) /\ s.resolution = kb.resolution
      /\ s.holds = kb.holds /\ s.layer \in {kb.layer, kb.holds}
      /\ "NativePostponing" \in s.vector <=> "NativePostponing" \in kb.vector
    BY <1>2, <1>4, <1>5 DEF Still, Asks, SameRoles, SameHolder, PostponingBits
<1>7. p \in KeyboardState /\ HeadOnly(s, p) /\ Asks(s, p) /\ SameRoles(s, p)
    BY <1>6, Replayed, RolesOfReplayed
<1>8. /\ isSet(s, PostponingBits) /\ Len(s.queue) <= MaxFill => p.queue = s.queue /\ p.current = s.current
      /\ ~isSet(s, PostponingBits) /\ p.queue # <<>> => "Postponer" \in p.vector
      /\ \A k \in Keys: Down(s, k) => Down(p, k)
    BY <1>6, RolesOfReplayed
<1> HIDE DEF p
<1>9. /\ kb' \in KeyboardState /\ kb'.resolution = p.resolution /\ kb'.previous = p.previous
      /\ kb'.layer = p.layer /\ kb'.queue = p.queue /\ kb'.current = p.current
      /\ p.vector \ {"NativeActions", "StateMatrix", "NativePostponing"} \subseteq kb'.vector
      /\ pc' = "keys" => "NativePostponing" \notin kb'.vector
      /\ pc' \in {"keys", "finish"}
    BY <1>3, <1>7, HolderOfReset
<1>10. "NativePostponing" \in kb.vector => isSet(s, PostponingBits)
    BY <1>6 DEF isSet, PostponingBits
<1>11. pc' = "finish" => kb' = p /\ "NativeActions" \notin p.vector
    BY <1>3 DEF isSet
<1>12. /\ p.holds = kb.holds
       /\ "NativePostponing" \in p.vector <=> "NativePostponing" \in kb.vector
    BY <1>6, <1>7 DEF SameRoles, PostponingBits
<1>13. \A k \in Keys: Down(kb, k) => Down(kb', k)
    BY <1>6, <1>8, <1>9 DEF Down, Unreleased
<1>14. kb'.queue # <<>> =>
         \/ {"Postponer", "MacroPostponing"} \cap kb'.vector # {}
         \/ "NativePostponing" \in kb.vector
    <2>1. ASSUME kb'.queue # <<>>, "NativePostponing" \notin kb.vector
          PROVE  "Postponer" \in p.vector \/ "MacroPostponing" \in p.vector
        <3>1. isSet(s, PostponingBits) => "MacroPostponing" \in s.vector
            BY <1>6, <2>1 DEF isSet, PostponingBits
        <3>2. "MacroPostponing" \in s.vector => "MacroPostponing" \in p.vector
            BY <1>7 DEF SameRoles, PostponingBits
        <3> QED BY <1>8, <1>9, <2>1, <3>1, <3>2
    <2> QED BY <1>9, <2>1
<1>15. \/ kb'.queue = kb.queue /\ kb'.current = kb.current
       \/ /\ kb.queue # <<>> /\ kb'.queue = Tail(kb.queue)
          /\ kb'.current = IF Head(kb.queue).key = Mouse THEN kb.current
                           ELSE put(kb.current, Head(kb.queue).key, Head(kb.queue).active)
    BY <1>6, <1>7, <1>9 DEF HeadOnly
<1>16. "NativePostponing" \in kb.vector =>
         /\ queuing'
         /\ Len(kb.queue) <= MaxFill => kb'.queue = kb.queue /\ kb'.current = kb.current
    BY <1>3, <1>6, <1>8, <1>9, <1>10
<1>17. kb.holds /\ kb.layer => kb'.layer
    BY <1>6, <1>7, <1>9 DEF SameRoles
<1>18. pc' = "finish" => "NativeActions" \notin kb.vector
    BY <1>6, <1>7, <1>11 DEF Asks
<1>19. kb'.resolution = kb.resolution /\ kb'.previous = kb.previous
    BY <1>6, <1>7, <1>9 DEF SameRoles
<1> QED BY <1>3, <1>9, <1>11, <1>12, <1>13, <1>14, <1>15, <1>16, <1>17, <1>18, <1>19

\* A cycle begins: only the key of the replayed event is pending, and none while
\* a key is undecided.
LEMMA BeginCycleIsInTurn ==
    ASSUME First, NEW macro \in {"ended", "awake", "onKey", "onTime"}, NEW postpones \in BOOLEAN,
           BeginCycle(macro, postpones)
    PROVE  InTurn
<1>1. kb \in KeyboardState /\ HeldBack /\ Layered /\ Resolves(kb) /\ Visited
    BY DEF First, Inv, TypeOK
<1>2. /\ kb' \in KeyboardState /\ kb'.resolution = kb.resolution /\ kb'.previous = kb.previous
      /\ kb.holds /\ kb.layer => kb'.layer
      /\ \/ kb'.queue = kb.queue /\ kb'.current = kb.current
         \/ /\ kb.queue # <<>> /\ kb'.queue = Tail(kb.queue)
            /\ kb'.current = IF Head(kb.queue).key = Mouse THEN kb.current
                             ELSE put(kb.current, Head(kb.queue).key, Head(kb.queue).active)
      /\ "NativePostponing" \in kb.vector =>
           /\ queuing'
           /\ Len(kb.queue) <= MaxFill => kb'.queue = kb.queue /\ kb'.current = kb.current
      /\ pc = "idle" /\ at' = 1 /\ lastPostponing' = lastPostponing /\ pc' \in {"keys", "finish"}
      /\ pc' = "finish" =>
           /\ kb'.holds = kb.holds
           /\ "NativePostponing" \in kb'.vector <=> "NativePostponing" \in kb.vector
    BY <1>1, HolderOfCycle
<1>3. \A r: Holding(kb, r)' <=> Holding(kb, r)
    BY <1>2 DEF Holding
<1>4. \A r: Holding(kb, r) /\ pc' = "keys" => ToCome(kb)'
    <2>1. \A k \in Keys: k >= 1
        BY FirstKey, KeyFacts
    <2>2. kb.previous \subseteq Keys
        BY <1>1 DEF KeyboardState
    <2> QED BY <1>2, <2>1, <2>2 DEF Holding, ToCome
<1>5. ~ToCome(kb) /\ (pc' = "finish" => ~ToCome(kb)')
    BY <1>2 DEF ToCome
<1>6. Holding(kb, "unknown") => "NativePostponing" \in kb.vector /\ lastPostponing
    BY <1>1, <1>2, <1>5 DEF HeldBack
<1>7. ASSUME pc' = "keys", ~Crowded(kb)', NEW i \in Keys, Pending(kb, i)'
      PROVE  /\ ~Holding(kb, "unknown") /\ i = Head(kb.queue).key
    <2>1. /\ Len(kb.queue) \in Nat /\ BufferSize \in Nat /\ MaxFill \in Nat /\ MaxFill < BufferSize
          /\ Len(kb'.queue) \in Nat
        BY <1>1, <1>2, Lengths, BufferAssumption
    <2>2. kb.queue # <<>> => Len(Tail(kb.queue)) = Len(kb.queue) - 1
        BY <1>1, Queues, HeadTailProperties DEF KeyboardState
    <2>3. Len(kb'.queue) >= Len(kb.queue) - 1
        <3>1. kb'.queue = kb.queue \/ (kb.queue # <<>> /\ kb'.queue = Tail(kb.queue))
            BY <1>2
        <3>2. Len(kb'.queue) = Len(kb.queue) \/ Len(kb'.queue) = Len(kb.queue) - 1
            BY <2>2, <3>1
        <3> QED BY <2>1, <3>2
    <2>4. Len(kb.queue) <= MaxFill
        BY <1>7, <2>1, <2>3 DEF Crowded
    <2>5. Acted(kb, i)
        BY <1>1, <1>2, <2>1, <2>4 DEF Visited, Full
    <2>6. ~(kb'.current = kb.current)
        BY <1>2, <1>7, <2>5 DEF Acted, Pending
    <2>7. ~Holding(kb, "unknown")
        BY <1>2, <1>6, <2>4, <2>6
    <2>8. i = Head(kb.queue).key
        BY <1>2, <1>7, <2>5, <2>6 DEF Acted, Pending, put
    <2> QED BY <2>7, <2>8
<1>8. HeldBack'
    <2>1. Holding(kb, "unknown")' =>
            /\ ToCome(kb)' => queuing' /\ lastPostponing'
            /\ ~ToCome(kb)' => "NativePostponing" \in kb'.vector
            /\ pc' \notin {"idle", "input"}
        BY <1>2, <1>3, <1>4, <1>6
    <2>2. pc' = "keys" /\ ~Crowded(kb)' =>
            \A i \in Keys: i >= at' /\ Pending(kb, i)' =>
               /\ Holding(kb, "unknown")' => i = kb'.resolution.key
               /\ \A j \in Keys: j >= at' /\ Pending(kb, j)' => i = j
        BY <1>3, <1>7
    <2> QED BY <2>1, <2>2 DEF HeldBack
<1>9. Layered'
    BY <1>1, <1>2, <1>3, <1>4, <1>5 DEF Layered
<1>10. Resolves(kb)' /\ StepFirst
    BY <1>1, <1>2 DEF Resolves, StepFirst
<1> QED BY <1>8, <1>9, <1>10 DEF InTurn

-----------------------------------------------------------------------------
(* The visit of a key.                                                     *)

\* The keys to come after a visit are those to come before it, but for the key
\* itself.
LEMMA KeysToCome ==
    ASSUME Inv, UpdateKey
    PROVE  /\ \A k \in Keys: k # at => (pc' = "keys" /\ k >= at' <=> k >= at)
           /\ ~(pc' = "keys" /\ at >= at') /\ pc' \in {"keys", "finish"}
<1>1. at \in Keys /\ pc = "keys" /\ NextKey("finish")
    BY DEF Inv, TypeOK, UpdateKey
<1>2. PICK n: n = Cardinality(Keys)
    OBVIOUS
<1>3. n \in Nat /\ Keys = 1..n
    BY <1>2, KeyAssumption, FS_CardinalityType
<1>4. CASE at + 1 \in Keys
    BY <1>1, <1>3, <1>4 DEF NextKey
<1>5. CASE at + 1 \notin Keys
    <2>1. pc' = "finish" /\ \A k \in Keys: k <= at
        BY <1>1, <1>3, <1>5 DEF NextKey
    <2> QED BY <1>1, <1>3, <2>1
<1> QED BY <1>4, <1>5

\* What a visit does to the state of the keyboard: t is the state between the
\* preprocessing of the key and its action.
VisitOf(t) ==
    /\ kb \in KeyboardState /\ t \in KeyboardState /\ kb' \in KeyboardState /\ at \in Keys
    /\ SameRoles(kb, t) /\ Visits(t, kb', at)
    /\ kb.vector \subseteq t.vector /\ kb'.vector \subseteq Bits
    /\ kb'.previous \ {at} = kb.previous \ {at}
    /\ at \in kb'.previous <=> at \in kb'.current
    /\ at \in kb'.previous => at \in t.current \cup t.previous
    /\ Len(kb.queue) \in Nat /\ Len(t.queue) \in Nat /\ Len(kb'.queue) \in Nat
    /\ Len(kb.queue) <= Len(t.queue) /\ Len(t.queue) <= Len(kb'.queue)
    /\ \A j \in Keys \ {at}: Crowded(kb') \/ (j \in kb'.current <=> j \in kb.current)
    /\ \/ at \in t.current <=> at \in kb.current
       \/ ShouldQueue(kb) /\ Crowded(t) /\ Crowded(kb)
       \/ ~ShouldQueue(kb)

LEMMA VisitTakesPlace ==
    ASSUME First, UpdateKey
    PROVE  VisitOf(preprocess(kb, at)) /\ Resolves(kb')
<1> DEFINE n == IF at \in DualKeys THEN 1 ELSE 0
           t == preprocess(kb, at)
           J == Keys \ {at}
<1> SUFFICES VisitOf(t) /\ Resolves(kb')
    OBVIOUS
<1>1. /\ kb \in KeyboardState /\ at \in Keys /\ pc = "keys" /\ n \in {0, 1}
      /\ PreprocessKey(at) /\ kb' = processKey(t, at) /\ Inv /\ Resolves(kb)
    BY DEF First, Inv, TypeOK, UpdateKey
<1>2. SameRoles(kb, t) /\ kb.vector \subseteq t.vector /\ t \in KeyboardState
    BY RolesOfPreprocessed DEF SameRoles
<1>3. \/ t = kb
      \/ ShouldQueue(kb) /\ Keeps(kb, t, Keys, 1)
      \/ /\ ~ShouldQueue(kb)
         /\ t.queue = kb.queue /\ t.previous = kb.previous
         /\ t.current = put(kb.current, at, at \in debounced')
    BY <1>1, PreprocessKeeps
<1>4. at \in kb'.previous => at \in t.current \cup t.previous
    BY <1>1 DEF processKey
<1> HIDE DEF t
<1>5. Resolves(t)
    BY <1>1, <1>2 DEF SameRoles, Resolves
<1>6. Visits(t, kb', at) /\ Resolves(kb')
    BY <1>1, <1>2, <1>5, ProcessVisits
<1>7. Acts(t, kb', J, n) /\ (at \in kb'.previous <=> at \in kb'.current)
    BY <1>1, <1>2, ActsProcessing
<1>8. kb' \in KeyboardState /\ Keeps(t, kb', J, n)
    BY <1>7 DEF Acts
<1>9. /\ Len(kb.queue) \in Nat /\ Len(t.queue) \in Nat /\ Len(kb'.queue) \in Nat
      /\ Len(kb.queue) <= BufferSize /\ Len(t.queue) <= BufferSize /\ Len(kb'.queue) <= BufferSize
      /\ BufferSize \in Nat /\ MaxFill \in Nat /\ MaxFill < BufferSize
    BY <1>1, <1>2, <1>8, Lengths, BufferAssumption
<1>10. Len(kb.queue) <= Len(t.queue)
    BY <1>3, <1>9 DEF Keeps
<1>11. Len(t.queue) <= Len(kb'.queue)
    BY <1>8 DEF Keeps
<1>12. \A j \in J: Crowded(kb') \/ (j \in kb'.current <=> j \in t.current)
    <2>1. Full(kb') => Crowded(kb')
        BY <1>9 DEF Full, Crowded
    <2> QED BY <1>8, <2>1 DEF Keeps
<1>13. \A j \in Keys: Keeps(kb, t, Keys, 1) =>
          \/ j \in t.current <=> j \in kb.current
          \/ Crowded(t) /\ Crowded(kb)
    <2>1. Full(t) => Crowded(t)
        BY <1>9 DEF Full, Crowded
    <2>2. Len(kb.queue) + 1 > BufferSize => Crowded(kb)
        BY <1>9 DEF Crowded
    <2> QED BY <2>1, <2>2 DEF Keeps
<1>14. Crowded(t) => Crowded(kb')
    BY <1>9, <1>11 DEF Crowded
<1>15. \A j \in J: Crowded(kb') \/ (j \in t.current <=> j \in kb.current)
    BY <1>3, <1>13, <1>14 DEF put
<1>16. kb'.previous \ {at} = kb.previous \ {at}
    <2>1. \A j \in J: j \in kb'.previous <=> j \in t.previous
        BY <1>8 DEF Keeps
    <2>2. kb'.previous \subseteq Keys /\ kb.previous \subseteq Keys /\ t.previous = kb.previous
        BY <1>1, <1>2, <1>8 DEF KeyboardState, SameRoles
    <2> QED BY <2>1, <2>2
<1>17. \/ at \in t.current <=> at \in kb.current
       \/ ShouldQueue(kb) /\ Crowded(t) /\ Crowded(kb)
       \/ ~ShouldQueue(kb)
    BY <1>1, <1>3, <1>13
<1>18. \A j \in Keys \ {at}: Crowded(kb') \/ (j \in kb'.current <=> j \in kb.current)
    BY <1>12, <1>15
<1>19. kb'.vector \subseteq Bits
    BY <1>8 DEF KeyboardState
<1> QED BY <1>1, <1>2, <1>4, <1>6, <1>7, <1>8, <1>9, <1>10, <1>11, <1>16, <1>17, <1>18, <1>19 DEF VisitOf

\* A visit ends with one key fewer to come; the key that was visited may have
\* become undecided only if no other key is waiting for its action.
LEMMA UpdateKeyIsInTurn ==
    ASSUME First, UpdateKey
    PROVE  InTurn
<1> DEFINE t == preprocess(kb, at)
           after == kb'.resolution.key
<1>1. /\ at \in Keys /\ at >= at /\ pc = "keys" /\ queuing' = queuing /\ lastPostponing' = lastPostponing
      /\ Inv /\ HeldBack /\ Layered /\ Resolves(kb) /\ Visited
    BY KeyFacts DEF First, Inv, TypeOK, UpdateKey, cycle
<1>2. VisitOf(t) /\ Resolves(kb')
    BY VisitTakesPlace
<1>3. /\ \A k \in Keys: k # at => (pc' = "keys" /\ k >= at' <=> k >= at)
      /\ ~(pc' = "keys" /\ at >= at') /\ pc' \in {"keys", "finish"}
    BY <1>1, KeysToCome
<1> HIDE DEF t
<1>4. kb'.previous \subseteq Keys /\ kb.previous \subseteq Keys
    BY <1>2 DEF VisitOf, KeyboardState
<1>5. /\ SameRoles(kb, t) /\ Visits(t, kb', at) /\ kb.vector \subseteq kb'.vector
      /\ t.previous = kb.previous /\ t.resolution = kb.resolution
    BY <1>2 DEF VisitOf, SameRoles, Visits
<1>6. ASSUME NEW i \in Keys, Pending(kb', i), pc' = "keys", i >= at', ~Crowded(kb')
      PROVE  i # at /\ i >= at /\ Pending(kb, i) /\ ~Crowded(kb)
    <2>1. i # at
        BY <1>3, <1>6
    <2>2. ~Crowded(kb)
        BY <1>2, <1>6, BufferAssumption DEF VisitOf, Crowded
    <2> QED BY <1>2, <1>3, <1>6, <2>1, <2>2 DEF VisitOf, Pending
<1>7. ASSUME after # at, NEW r, Holding(kb', r)
      PROVE  after = kb.resolution.key /\ after \in Keys /\ Holding(kb, r)
    BY <1>2, <1>4, <1>5, <1>7 DEF VisitOf, Visits, Holding
<1>8. ASSUME after = at, Holding(kb', "unknown")
      PROVE  /\ "NativePostponing" \in kb'.vector
             /\ Pending(t, at) \/ (kb.resolution.key = at /\ Holding(kb, "unknown"))
    <2>1. at \in t.current \cup t.previous
        BY <1>2, <1>8 DEF VisitOf, Holding
    <2>2. Holding(t, "unknown") => Holding(kb, "unknown")
        BY <1>5 DEF Holding
    <2> QED BY <1>5, <1>8, <2>1, <2>2 DEF Visits, Holding
<1>9. Holding(kb', "unknown") =>
        /\ pc' = "keys" /\ after >= at' => queuing' /\ lastPostponing'
        /\ ~(pc' = "keys" /\ after >= at') => "NativePostponing" \in kb'.vector
    <2>1. CASE after # at
        BY <1>1, <1>3, <1>5, <1>7, <2>1 DEF HeldBack, ToCome
    <2>2. CASE after = at
        BY <1>3, <1>8, <2>2
    <2> QED BY <2>1, <2>2
<1>10. ASSUME NEW i \in Keys, Pending(kb', i), pc' = "keys", i >= at', ~Crowded(kb')
       PROVE  /\ Holding(kb', "unknown") => i = after
              /\ \A j \in Keys: j >= at' /\ Pending(kb', j) => i = j
    <2>1. i # at /\ i >= at /\ Pending(kb, i) /\ ~Crowded(kb)
        BY <1>6, <1>10
    <2>2. /\ Holding(kb, "unknown") => i = kb.resolution.key
          /\ \A j \in Keys: j >= at /\ Pending(kb, j) => i = j
        BY <1>1, <2>1 DEF HeldBack
    <2>3. \A j \in Keys: j >= at' /\ Pending(kb', j) => i = j
        BY <1>6, <1>10, <2>2
    <2>4. Holding(kb', "unknown") /\ after # at => i = after
        BY <1>7, <2>2
    <2>5. ~(Holding(kb', "unknown") /\ after = at)
        <3>1. Pending(kb, at) => i = at
            BY <1>1, <2>2
        <3>2. ShouldQueue(kb)
            BY <1>1, <2>1 DEF Visited, Acted, Pending
        <3>3. Pending(t, at) => Pending(kb, at)
            BY <1>2, <1>5, <2>1, <3>2 DEF VisitOf, Pending
        <3> QED BY <1>8, <2>1, <2>2, <3>1, <3>3
    <2> QED BY <2>3, <2>4, <2>5
<1>11. HeldBack'
    BY <1>3, <1>9, <1>10 DEF HeldBack, ToCome, Holding, Pending, Crowded
<1>12. Holding(kb', "secondary") => kb'.layer /\ ((pc' = "keys" /\ after >= at') \/ kb'.holds)
    <2>1. /\ kb.holds => kb'.holds
          /\ kb.layer => kb'.layer
        BY <1>5 DEF SameRoles, Visits
    <2>2. CASE after # at
        BY <1>1, <1>3, <1>7, <2>1, <2>2 DEF Layered, ToCome
    <2>3. CASE after = at
        BY <1>2, <1>5, <2>3 DEF VisitOf, Visits, Holding
    <2> QED BY <2>2, <2>3
<1>13. Layered'
    BY <1>12 DEF Layered, ToCome, Holding
<1>14. StepFirst
    <2> SUFFICES ASSUME NEW k \in kb'.previous \ kb.previous, k # kb.resolution.key
                 PROVE  (Len(kb.queue) < MaxFill => ~Undecided) /\ (HeldAsSecondary => kb.layer)
        BY DEF StepFirst
    <2>1. k = at
        BY <1>2 DEF VisitOf
    <2>2. at \in t.current /\ at \notin kb.previous
        BY <1>2, <1>5, <2>1 DEF VisitOf
    <2>3. ASSUME Len(kb.queue) < MaxFill, Undecided
          PROVE  FALSE
        <3>1. ~Crowded(kb) /\ Holding(kb, "unknown")
            BY <1>2, <2>3, BufferAssumption DEF VisitOf, Crowded, Undecided, Holding
        <3>2. ShouldQueue(kb)
            BY <1>1, <3>1 DEF HeldBack, ShouldQueue, isSet, PostponingBits
        <3>3. Pending(kb, at)
            BY <1>2, <2>2, <3>1, <3>2 DEF VisitOf, Pending
        <3> QED BY <1>1, <2>1, <3>1, <3>3 DEF HeldBack
    <2> QED BY <1>1, <2>3 DEF Layered, HeldAsSecondary, Holding
<1> QED BY <1>2, <1>11, <1>13, <1>14 DEF InTurn, Resolves

-----------------------------------------------------------------------------
(* The theorem.                                                            *)

LEMMA EveryStepIsInTurn == First /\ [Next]_vars => InTurn
<1> SUFFICES ASSUME First, [Next]_vars PROVE InTurn
    OBVIOUS
<1>1. CASE MainLoop
    BY <1>1, JustPreprocessInputIsInTurn, BeginCycleIsInTurn, InputKeyIsInTurn,
       UpdateKeyIsInTurn, FinishCycleIsInTurn DEF MainLoop
<1>2. CASE World
    BY <1>2, WorldIsInTurn
<1>3. CASE UNCHANGED vars
    <2>1. /\ kb' = kb /\ pc' = pc /\ at' = at /\ queuing' = queuing /\ lastPostponing' = lastPostponing
        BY <1>3 DEF vars, cycle
    <2>2. SameRoles(kb, kb')
        BY <2>1 DEF SameRoles, First, Inv, TypeOK
    <2> QED BY <2>1, <2>2, AsideIsInTurn
<1> QED BY <1>1, <1>2, <1>3 DEF Next

\* In every reachable state, an undecided key holds the others back and a key
\* held in its secondary role has its layer.
LEMMA FirstInvariant == Spec => []First
<1>1. Init => Resolves(kb) /\ HeldBack /\ Layered
    <2> SUFFICES ASSUME Init PROVE Resolves(kb) /\ HeldBack /\ Layered
        OBVIOUS
    <2>1. kb.resolution.key = NoKey /\ kb.previous = {} /\ pc = "idle"
        BY DEF Init
    <2> QED BY <2>1 DEF Resolves, HeldBack, Layered, Holding
<1>2. First /\ [Next]_vars => (Resolves(kb) /\ HeldBack /\ Layered)'
    BY EveryStepIsInTurn DEF InTurn
<1>3. Inv /\ Visited /\ Resolves(kb) /\ HeldBack /\ Layered <=> First
    BY DEF First
<1>4. (Inv /\ Visited)' /\ (Resolves(kb) /\ HeldBack /\ Layered)' => First'
    BY DEF First
<1>5. Inv /\ Visited /\ [Next]_vars => (Inv /\ Visited)'
    BY NextKeeps, EveryStepIsOrderly DEF Orderly
<1> QED BY <1>1, <1>2, <1>3, <1>4, <1>5, VisitedInvariant, PTL DEF Spec

\* No key acts while a dual-role key is undecided (SecondaryRoles_ResolveState
\* postpones), and a key that acts while one is held in its secondary role acts
\* on that role's layer.
THEOREM DualRolesComeFirst == Spec => DualRoleFirst
<1>1. First /\ [Next]_vars => [StepFirst]_vars
    BY EveryStepIsInTurn DEF InTurn
<1>2. [StepFirst]_vars <=>
        [\A k \in kb'.previous \ kb.previous:
            k # kb.resolution.key =>
                (Len(kb.queue) < MaxFill => ~Undecided) /\ (HeldAsSecondary => kb.layer)]_vars
    BY DEF StepFirst
<1> QED BY <1>1, <1>2, FirstInvariant, PTL DEF Spec, DualRoleFirst

-----------------------------------------------------------------------------
(* Why the main loop sleeps.                                               *)

\* With the queue at its limit a key may be resolved while another one is
\* undecided, which then postpones without being in resolution.
Overrun == (\E i, j \in DualKeys: i # j) /\ Crowded(kb)

\* The loop remembers whether anybody postponed at the end of a cycle.
Remembered == pc = "idle" => (lastPostponing <=> isSet(kb, PostponingBits))

\* An undecided key is down, and will be when the queue has been replayed.
UndecidedIsDown == Holding(kb, "unknown") => Down(kb, kb.resolution.key)

\* A native action postpones only until it acts again, or until the key that it
\* cannot decide on is released.
PostponesForAReason ==
    "NativePostponing" \in kb.vector =>
        \/ "NativeActions" \in kb.vector \/ Overrun
        \/ Holding(kb, "unknown") /\ ~ToCome(kb)

\* Somebody replays the queue when nobody postpones: the postponer, at once, or
\* the key whose event was queued in this cycle, as it is still debouncing.
Awaited ==
    kb.queue # <<>> =>
        \/ "Postponer" \in kb.vector
        \/ pc = "idle" /\ (isSet(kb, PostponingBits) \/ debouncing # {})
        \/ /\ pc # "idle"
           /\ \/ "MacroPostponing" \in kb.vector \/ lastPostponing
              \/ \E j \in debouncing: pc = "keys" => j < at

Drains ==
    /\ delaying = FALSE /\ pc # "input"
    /\ Remembered /\ UndecidedIsDown /\ PostponesForAReason /\ Awaited

\* The world only sets bits.
LEMMA WorldDrains ==
    ASSUME First, Drains, World
    PROVE  Drains'
<1>1. kb \in KeyboardState
    BY DEF First, Inv, TypeOK
<1>2. PICK bits \in SUBSET Signals: kb' = kb \/ kb' = set(kb, bits)
    <2>1. {"StateMatrix"} \in SUBSET Signals /\ {"NativeActions"} \in SUBSET Signals
          /\ {"MacroEngine"} \in SUBSET Signals /\ {"MouseController"} \in SUBSET Signals
        BY TheSignals
    <2> QED BY <2>1 DEF World, Scan, DebounceElapses, Rescan, NativeTimerExpires, MacroTimerExpires,
                        DelayElapses, PointerMoves
<1>3. /\ pc' = pc /\ at' = at /\ lastPostponing' = lastPostponing /\ debouncing' = debouncing
      /\ delaying' \in {delaying, FALSE}
    BY DEF World, Scan, DebounceElapses, Rescan, NativeTimerExpires, MacroTimerExpires,
           DelayElapses, PointerMoves, cycle, debounce, output
<1>4. bits \in SUBSET Bits
    BY DEF Signals
<1>5. /\ SameRoles(kb, kb') /\ kb'.queue = kb.queue /\ kb'.current = kb.current
      /\ kb.vector \subseteq kb'.vector
    BY <1>1, <1>2, <1>4, RolesOfBits, SetsBits
<1>6. /\ kb'.resolution = kb.resolution /\ kb'.previous = kb.previous
      /\ isSet(kb', PostponingBits) <=> isSet(kb, PostponingBits)
      /\ "NativePostponing" \in kb'.vector => "NativePostponing" \in kb.vector
    BY <1>5 DEF SameRoles, isSet, PostponingBits
<1>7. Remembered' /\ UndecidedIsDown'
    BY <1>3, <1>5, <1>6 DEF Drains, Remembered, UndecidedIsDown, Holding, Down, Unreleased, isSet
<1>8. PostponesForAReason'
    BY <1>3, <1>5, <1>6 DEF Drains, PostponesForAReason, Overrun, Crowded, Holding, ToCome
<1>9. Awaited'
    BY <1>3, <1>5, <1>6 DEF Drains, Awaited, isSet
<1> QED BY <1>3, <1>7, <1>8, <1>9 DEF Drains

\* A cycle ends: if nobody postpones any more, the postponer is woken.
LEMMA FinishCycleDrains ==
    ASSUME First, Drains, KeystrokeDelay = FALSE, FinishCycle
    PROVE  Drains'
<1>1. /\ SameRoles(kb, kb') /\ (lastPostponing' <=> isSet(kb, PostponingBits))
      /\ pc = "finish" /\ pc' = "idle"
      /\ kb'.queue = kb.queue /\ kb'.current = kb.current
      /\ kb.vector \cap {"NativeActions", "Postponer"} \subseteq kb'.vector
      /\ lastPostponing /\ ~isSet(kb, PostponingBits) /\ kb.queue # <<>> => "Postponer" \in kb'.vector
    BY RolesOfFinish DEF First, Inv, TypeOK
<1>2. debouncing' = debouncing /\ delaying' = FALSE
    BY DEF FinishCycle, debounce, Drains
<1>3. /\ kb'.resolution = kb.resolution /\ kb'.previous = kb.previous
      /\ isSet(kb', PostponingBits) <=> isSet(kb, PostponingBits)
      /\ "NativePostponing" \in kb'.vector => "NativePostponing" \in kb.vector
      /\ "MacroPostponing" \in kb.vector => isSet(kb, PostponingBits)
    BY <1>1 DEF SameRoles, isSet, PostponingBits
<1>4. Remembered' /\ UndecidedIsDown'
    BY <1>1, <1>3 DEF Drains, Remembered, UndecidedIsDown, Holding, Down, Unreleased, isSet
<1>5. PostponesForAReason'
    BY <1>1, <1>3 DEF Drains, PostponesForAReason, Overrun, Crowded, Holding, ToCome
<1>6. Awaited'
    BY <1>1, <1>2, <1>3 DEF Drains, Awaited, isSet
<1> QED BY <1>1, <1>2, <1>4, <1>5, <1>6 DEF Drains

\* A cycle begins: what is not replayed wakes the postponer or is held back.
LEMMA BeginCycleDrains ==
    ASSUME First, Drains, NEW macro \in {"ended", "awake", "onKey", "onTime"},
           NEW postpones \in BOOLEAN, BeginCycle(macro, postpones)
    PROVE  Drains'
<1>1. kb \in KeyboardState
    BY DEF First, Inv, TypeOK
<1>2. /\ kb' \in KeyboardState /\ kb'.resolution = kb.resolution /\ kb'.previous = kb.previous
      /\ \/ kb'.queue = kb.queue
         \/ kb.queue # <<>> /\ kb'.queue = Tail(kb.queue)
      /\ "NativePostponing" \in kb.vector /\ Len(kb.queue) <= MaxFill => kb'.queue = kb.queue
      /\ pc = "idle" /\ at' = 1 /\ lastPostponing' = lastPostponing /\ pc' \in {"keys", "finish"}
      /\ pc' = "finish" =>
           /\ "NativeActions" \notin kb.vector
           /\ "NativePostponing" \in kb'.vector <=> "NativePostponing" \in kb.vector
      /\ pc' = "keys" => "NativePostponing" \notin kb'.vector
      /\ kb'.queue # <<>> =>
           \/ {"Postponer", "MacroPostponing"} \cap kb'.vector # {}
           \/ "NativePostponing" \in kb.vector
      /\ \A k \in Keys: Down(kb, k) => Down(kb', k)
    BY <1>1, HolderOfCycle
<1>3. delaying' = FALSE
    BY DEF BeginCycle, Drains, output
<1>4. Remembered'
    BY <1>2 DEF Remembered
<1>5. UndecidedIsDown'
    <2>1. kb.previous \subseteq Keys
        BY <1>1 DEF KeyboardState
    <2> QED BY <1>2, <2>1 DEF Drains, UndecidedIsDown, Holding
<1>6. "NativePostponing" \in kb.vector /\ Crowded(kb) => Crowded(kb')
    <2>1. Len(kb.queue) \in Nat /\ MaxFill \in Nat
        BY <1>1, Lengths, BufferAssumption
    <2>2. kb.queue # <<>> => Len(Tail(kb.queue)) = Len(kb.queue) - 1
        BY <1>1, Queues, HeadTailProperties DEF KeyboardState
    <2>3. "NativePostponing" \in kb.vector =>
            \/ Len(kb'.queue) = Len(kb.queue)
            \/ Len(kb'.queue) = Len(kb.queue) - 1 /\ ~(Len(kb.queue) <= MaxFill)
        BY <1>2, <2>2
    <2> QED BY <2>1, <2>3 DEF Crowded
<1>7. PostponesForAReason'
    <2> SUFFICES ASSUME "NativePostponing" \in kb'.vector
                 PROVE  Overrun' \/ (Holding(kb, "unknown")' /\ ~ToCome(kb)')
        BY DEF PostponesForAReason
    <2>1. pc' = "finish" /\ "NativePostponing" \in kb.vector /\ "NativeActions" \notin kb.vector
        BY <1>2
    <2>2. Overrun \/ Holding(kb, "unknown")
        BY <2>1 DEF Drains, PostponesForAReason
    <2>3. Overrun => Overrun'
        BY <1>6, <2>1 DEF Overrun, Crowded
    <2> QED BY <1>2, <2>1, <2>2, <2>3 DEF Holding, ToCome
<1>8. Awaited'
    <2>1. "NativePostponing" \in kb.vector => lastPostponing'
        BY <1>2 DEF Drains, Remembered, isSet, PostponingBits
    <2> QED BY <1>2, <2>1 DEF Awaited
<1> QED BY <1>2, <1>3, <1>4, <1>5, <1>7, <1>8 DEF Drains

\* A key that is down stays down when its last change is committed, unless that
\* is its release.
LEMMA DownCommitted ==
    ASSUME NEW s \in KeyboardState, NEW k \in Keys, NEW active \in BOOLEAN,
           NEW j \in Keys, Down(s, j)
    PROVE  LET t == commitKeyState(s, k, active)
           IN  /\ j # k => Down(t, j)
               /\ ShouldQueue(s) => j \in t.current
<1> DEFINE e == [key |-> k, active |-> active]
           c == [s EXCEPT !.current = put(@, k, active)]
           r == IF ShouldQueue(s) THEN appendEvent(s, e) ELSE c
           t == commitKeyState(s, k, active)
<1>1. e \in Event /\ e.key = k /\ put(s.current, k, active) \in SUBSET Keys
    BY DEF Event, put, KeyboardState
<1>2. t = wakeMacros(r)
    BY DEF commitKeyState
<1>3. c \in KeyboardState /\ c.queue = s.queue /\ c.current = put(s.current, k, active)
    BY <1>1 DEF KeyboardState
<1>4. j # k => Down(c, j)
    BY <1>3 DEF Down, Unreleased, put
<1> HIDE DEF e, c
<1>5. j # k => Down(appendEvent(s, e), j)
    BY <1>1, DownAppended
<1>6. j \in appendEvent(s, e).current
    <2> DEFINE v == IF Len(s.queue) = BufferSize THEN applyEventAndConsume(s) ELSE s
    <2>1. Len(s.queue) = BufferSize => s.queue # <<>>
        BY BufferAssumption
    <2>2. v \in KeyboardState /\ Down(v, j)
        BY <2>1, DownConsumed, ConsumedFields
    <2>3. appendEvent(s, e) = [v EXCEPT !.queue = Append(@, e)]
        BY DEF appendEvent
    <2> HIDE DEF v
    <2> QED BY <2>2, <2>3 DEF Down, KeyboardState
<1>7. r \in KeyboardState /\ (j # k => Down(r, j)) /\ (ShouldQueue(s) => j \in r.current)
    BY <1>1, <1>3, <1>4, <1>5, <1>6, Appended
<1> HIDE DEF r, t
<1>8. /\ wakeMacros(r).queue = r.queue /\ wakeMacros(r).current = r.current
    BY <1>7, WakesMacros
<1> QED BY <1>2, <1>7, <1>8 DEF Down, Unreleased, t

LEMMA DownPreprocessed ==
    ASSUME First
    PROVE  LET t == preprocess(kb, at)
           IN  /\ \A j \in Keys: j # at /\ Down(kb, j) => Down(t, j)
               /\ Down(kb, at) /\ ShouldQueue(kb) => at \in t.current
               /\ ~Changes(at) => t = kb
<1>1. kb \in KeyboardState /\ at \in Keys /\ (at \in hw) \in BOOLEAN
    BY DEF First, Inv, TypeOK
<1> QED BY <1>1, DownCommitted DEF preprocess, Down

\* The visit of a key leaves it undecided only if it is down; and the key whose
\* event it queues is debouncing.
LEMMA UpdateKeyDrains ==
    ASSUME First, Drains, UpdateKey
    PROVE  Drains'
<1> DEFINE t == preprocess(kb, at)
           before == kb.resolution.key
           after == kb'.resolution.key
<1>1. /\ at \in Keys /\ at >= at /\ pc = "keys" /\ lastPostponing' = lastPostponing
      /\ delaying' = FALSE /\ PreprocessKey(at)
      /\ HeldBack /\ Resolves(kb) /\ Inv
    BY KeyFacts DEF First, Inv, TypeOK, UpdateKey, cycle, output, Drains
<1>2. VisitOf(t) /\ Resolves(kb')
    BY VisitTakesPlace
<1>3. /\ \A k \in Keys: k # at => (pc' = "keys" /\ k >= at' <=> k >= at)
      /\ ~(pc' = "keys" /\ at >= at') /\ pc' \in {"keys", "finish"}
    BY <1>1, KeysToCome
<1>4. /\ \A j \in Keys: j # at /\ Down(kb, j) => Down(t, j)
      /\ Down(kb, at) /\ ShouldQueue(kb) => at \in t.current
      /\ ~Changes(at) => t = kb
    BY DownPreprocessed
<1> HIDE DEF t
<1>5. /\ SameRoles(kb, t) /\ Visits(t, kb', at) /\ kb.vector \subseteq kb'.vector
      /\ t.previous = kb.previous /\ t.resolution = kb.resolution
      /\ kb'.previous \subseteq Keys /\ kb.previous \subseteq Keys
      /\ "NativePostponing" \in t.vector => "NativePostponing" \in kb.vector
    BY <1>2 DEF VisitOf, SameRoles, Visits, KeyboardState, PostponingBits
<1>6. at' \in Nat /\ \A k \in Keys: k \in Nat
    <2>1. at' = 1 \/ at' = at + 1
        BY DEF UpdateKey, NextKey
    <2> QED BY <1>1, <2>1, KeyFacts
<1>7. ASSUME after # at, Holding(kb', "unknown")
      PROVE  after = before /\ after \in Keys /\ Holding(kb, "unknown")
    BY <1>2, <1>5, <1>7 DEF VisitOf, Visits, Holding
<1>8. Holding(kb, "unknown") => ShouldQueue(kb) /\ Down(kb, before)
    BY <1>1 DEF HeldBack, ShouldQueue, isSet, PostponingBits, Drains, UndecidedIsDown
<1>9. ASSUME after = at, kb'.resolution.role = "unknown", at \in t.current \cup t.previous
      PROVE  Down(kb', at) /\ at \in kb'.previous
    <2>1. /\ kb'.queue = t.queue /\ kb'.current = t.current /\ Unreleased(t, at)
          /\ Pending(t, at) \/ (before = at /\ Holding(kb, "unknown"))
        BY <1>5, <1>9 DEF Visits, Holding
    <2>2. at \in t.current
        BY <1>4, <1>8, <2>1 DEF Pending
    <2> QED BY <1>2, <2>1, <2>2 DEF VisitOf, Down, Unreleased
<1>10. Holding(kb', "unknown") => Down(kb', after)
    <2>1. CASE after # at
        <3> SUFFICES ASSUME Holding(kb', "unknown") PROVE Down(kb', after)
            OBVIOUS
        <3>1. after \in Keys /\ Down(kb, after)
            BY <1>7, <1>8, <2>1
        <3> QED BY <1>4, <1>5, <2>1, <3>1 DEF Visits
    <2>2. CASE after = at
        BY <1>2, <1>9, <2>2 DEF VisitOf, Holding
    <2> QED BY <2>1, <2>2
<1>11. Crowded(kb) => Crowded(kb')
    BY <1>2, BufferAssumption DEF VisitOf, Crowded
<1>12. ASSUME "NativePostponing" \in kb'.vector
       PROVE  \/ "NativeActions" \in kb'.vector
              \/ (\E i, j \in DualKeys: i # j) /\ Crowded(kb')
              \/ Holding(kb', "unknown") /\ ~(pc' = "keys" /\ after >= at')
    <2>1. CASE "NativePostponing" \in kb.vector /\ "NativeActions" \notin kb'.vector
        <3>1. Overrun \/ (Holding(kb, "unknown") /\ ~(before >= at))
            BY <1>1, <1>5, <2>1 DEF Drains, PostponesForAReason, ToCome
        <3>2. CASE Overrun
            BY <1>11, <3>2 DEF Overrun
        <3>3. CASE Holding(kb, "unknown") /\ ~(before >= at)
            <4>1. before # at /\ before \in Keys
                BY <1>1, <1>5, <3>3 DEF Holding
            <4>2. CASE after # at
                <5>1. kb'.resolution = kb.resolution /\ before \in kb'.previous
                    BY <1>2, <1>5, <3>3, <4>1, <4>2 DEF VisitOf, Visits, Holding
                <5> QED BY <1>3, <3>3, <4>1, <5>1 DEF Holding
            <4>3. CASE after = at
                <5>1. Pending(t, at)
                    BY <1>5, <4>1, <4>3 DEF Visits
                <5>2. Pending(kb, at) \/ Crowded(kb)
                    BY <1>2, <1>5, <1>8, <3>3, <5>1 DEF VisitOf, Pending
                <5>3. Crowded(kb)
                    BY <1>1, <3>3, <4>1, <5>2 DEF HeldBack
                <5>4. before \in DualKeys /\ at \in DualKeys
                    BY <1>1, <1>2, <4>1, <4>3, KeyFacts DEF Resolves, Resolved
                <5> QED BY <1>11, <4>1, <5>3, <5>4
            <4> QED BY <4>2, <4>3
        <3> QED BY <3>1, <3>2, <3>3
    <2>2. CASE "NativePostponing" \notin kb.vector /\ "NativeActions" \notin kb'.vector
        <3>1. after = at /\ kb'.resolution.role = "unknown" /\ at \in t.current \cup t.previous
            BY <1>5, <1>12, <2>2 DEF Visits
        <3>2. at \in kb'.previous
            BY <1>9, <3>1
        <3> QED BY <1>3, <3>1, <3>2 DEF Holding
    <2> QED BY <2>1, <2>2
<1>13. ASSUME kb'.queue # <<>>, "Postponer" \notin kb'.vector,
              "MacroPostponing" \notin kb'.vector, ~lastPostponing
       PROVE  \E j \in debouncing': pc' = "keys" => j < at'
    <2>1. CASE kb.queue # <<>>
        <3>1. PICK j \in debouncing: j < at
            BY <1>1, <1>5, <1>13, <2>1 DEF Drains, Awaited
        <3>2. j \in Keys /\ ~(j >= at)
            BY <1>1, <1>6, <3>1 DEF Inv, TypeOK
        <3>3. j # at /\ j \in debouncing'
            BY <1>1, <3>1, <3>2 DEF PreprocessKey
        <3>4. pc' = "keys" => j < at'
            BY <1>3, <1>6, <3>2, <3>3
        <3> QED BY <3>3, <3>4
    <2>2. CASE kb.queue = <<>> /\ t.queue # <<>>
        <3>1. at \in debouncing'
            BY <1>1, <1>4, <2>2 DEF PreprocessKey
        <3>2. pc' = "keys" => at < at'
            BY <1>1, <1>3, <1>6
        <3> QED BY <3>1, <3>2
    <2>3. CASE t.queue = <<>>
        <3>1. before = at /\ Holding(kb, "unknown")
            BY <1>5, <1>13, <2>3 DEF Visits, Holding
        <3>2. lastPostponing
            BY <1>1, <3>1 DEF HeldBack, ToCome
        <3> QED BY <1>13, <3>2
    <2> QED BY <2>1, <2>2, <2>3
<1>14. Remembered' /\ UndecidedIsDown'
    BY <1>3, <1>10 DEF Remembered, UndecidedIsDown, Holding, Down, Unreleased
<1>15. PostponesForAReason'
    BY <1>12 DEF PostponesForAReason, Overrun, Crowded, Holding, ToCome
<1>16. Awaited'
    BY <1>1, <1>3, <1>13 DEF Awaited
<1> QED BY <1>1, <1>3, <1>14, <1>15, <1>16 DEF Drains

\* In every reachable state somebody will replay what is queued.
LEMMA DrainsInvariant ==
    ASSUME KeystrokeDelay = FALSE
    PROVE  Spec => [](First /\ Drains)
<1>1. Init => Drains
    BY DEF Init, Drains, Remembered, UndecidedIsDown, PostponesForAReason, Awaited, Holding, isSet
<1>2. First /\ Drains /\ [Next]_vars => Drains'
    <2> SUFFICES ASSUME First, Drains, [Next]_vars PROVE Drains'
        OBVIOUS
    <2>1. CASE MainLoop
        <3>1. ~JustPreprocessInput /\ ~InputKey
            BY DEF Drains, JustPreprocessInput, InputKey
        <3> QED BY <2>1, <3>1, BeginCycleDrains, UpdateKeyDrains, FinishCycleDrains DEF MainLoop
    <2>2. CASE World
        BY <2>2, WorldDrains
    <2>3. CASE UNCHANGED vars
        <3>1. /\ kb' = kb /\ pc' = pc /\ at' = at /\ lastPostponing' = lastPostponing
              /\ debouncing' = debouncing /\ delaying' = delaying
            BY <2>3 DEF vars, cycle, debounce, output
        <3> QED BY <3>1 DEF Drains, Remembered, UndecidedIsDown, PostponesForAReason, Awaited,
                            Overrun, Crowded, Holding, ToCome, Down, Unreleased, isSet
    <2> QED BY <2>1, <2>2, <2>3 DEF Next
<1> QED BY <1>1, <1>2, FirstInvariant, PTL DEF Spec

\* What the loop would sleep on.
LEMMA SleepIsJustified ==
    ASSUME First, Drains, ~Overrun
    PROVE  SleepsForAReason
<1> SUFFICES ASSUME Asleep, kb.queue # <<>>, debouncing = {}, "MacroPostponing" \notin kb.vector
             PROVE  Undecided
    BY DEF SleepsForAReason
<1>1. pc = "idle" /\ "Postponer" \notin kb.vector /\ "NativeActions" \notin kb.vector
    BY DEF Asleep, isSet, WakeBits
<1>2. "NativePostponing" \in kb.vector
    BY <1>1 DEF Drains, Awaited, isSet, PostponingBits
<1> QED BY <1>1, <1>2 DEF Drains, PostponesForAReason, Holding, Undecided

\* The main loop does not go to sleep on a queue that nobody holds back
\* (PostponerCore_RunPostponedEvents, and the wake-up of the postponer in
\* updateActiveUsbReports): with the keystroke delay off, as long as the queue is
\* below its limit.
THEOREM SleepsBelowTheLimit ==
    ASSUME KeystrokeDelay = FALSE
    PROVE  Spec => [](Len(kb.queue) < MaxFill => SleepsForAReason)
<1>1. First /\ Drains => (Len(kb.queue) < MaxFill => SleepsForAReason)
    <2>1. First => (Len(kb.queue) < MaxFill => ~Crowded(kb))
        BY Lengths, BufferAssumption DEF First, Inv, TypeOK, Crowded
    <2> QED BY <2>1, SleepIsJustified DEF Overrun
<1> QED BY <1>1, DrainsInvariant, PTL

\* ... and whatever the queue, if there is one dual-role key.
THEOREM SleepsWithOneDualRole ==
    ASSUME KeystrokeDelay = FALSE, \A i, j \in DualKeys: i = j
    PROVE  Spec => []SleepsForAReason
<1>1. First /\ Drains => SleepsForAReason
    BY SleepIsJustified DEF Overrun
<1> QED BY <1>1, DrainsInvariant, PTL

-----------------------------------------------------------------------------
(* Modifiers before scancodes.                                             *)

\* The role in which key k acts when it is visited and was not just pressed.
RoleOf(s, k) ==
    IF k \notin DualKeys THEN "primary"
    ELSE IF k = s.resolution.key THEN s.resolution.role
    ELSE IF k \in s.secondary THEN "secondary" ELSE "primary"

\* The shortcuts that are held in their primary role, as the actions have seen
\* them.
Strokes(s) == {k \in (ShortcutKeys \ MacroKeys) \cap s.previous: RoleOf(s, k) = "primary"}

\* The role of the key in resolution is noted in its state.
RolesKept(s) ==
    /\ s.resolution.role = "secondary" => s.resolution.key \in s.secondary
    /\ s.resolution.role = "primary" => s.resolution.key \notin s.secondary

\* The sticky modifiers are those of a shortcut that is held.
StickyHeld(s) == s.sticky # NoKey => s.sticky \in Strokes(s)

\* New scancodes are reported by the end of the cycle; those of a cycle are of the
\* keys that it has visited.
Reported ==
    /\ \/ kb.codes \subseteq report.codes
       \/ pc \in {"keys", "finish"} /\ "ReportsChanged" \in kb.vector
    /\ pc = "keys" => \A k \in kb.codes: k < at

\* Nobody asks for another look at the held layers but a key in its secondary role,
\* in this cycle after its visit.
LayersAsked ==
    "LayerHolds" \in kb.vector => \E d \in kb.secondary: pc = "keys" => d < at

\* No key is going to be pressed or decided on in this cycle.
Calm ==
    /\ ShouldQueue(kb) /\ ~Holding(kb, "unknown")
    /\ pc = "keys" => \A j \in Keys: j >= at => ~Pending(kb, j)

\* The modifiers of shortcut k are in the last report and will be in the next, or
\* ModifiersFirst makes an exception.
Covered(k) == motion \/ kb.secondary # {} \/ (kb.sticky = k /\ k \in report.mods)
Safe(k) == k \in report.codes \/ Crowded(kb) \/ (Calm /\ Covered(k))

\* A shortcut that is held has its scancode in the report of the last cycle; or its
\* modifiers were sent first, everybody postpones, and its visit comes next.
Leading ==
    /\ pc \in {"idle", "input"} => \A k \in Strokes(kb):
         \/ k \in kb.codes
         \/ /\ "NativePostponing" \in kb.vector
            /\ Crowded(kb) \/ ("NativeActions" \in kb.vector /\ Calm /\ Covered(k))
    /\ pc \in {"keys", "finish"} =>
         /\ \A k \in ShortcutKeys:
               k \in kb.codes \/ (pc = "keys" /\ k \in Strokes(kb) /\ k >= at) => Safe(k)
         /\ \A k \in Strokes(kb):
               (pc = "keys" => k < at) =>
                 \/ k \in kb.codes
                 \/ /\ "NativePostponing" \in kb.vector
                    /\ \/ Crowded(kb)
                       \/ /\ {"NativeActions", "ReportsChanged"} \subseteq kb.vector
                          /\ Calm /\ kb.sticky = k

Lead == RolesKept(kb) /\ StickyHeld(kb) /\ Reported /\ LayersAsked /\ Leading

\* The scancodes, the sticky modifiers and the secondary roles are the same, and
\* so is what is asked of reports and layers.
SameOutput(s, t) ==
    /\ t \in KeyboardState
    /\ t.codes = s.codes /\ t.sticky = s.sticky /\ t.secondary = s.secondary
    /\ t.vector \cap {"LayerHolds", "ReportsChanged"} = s.vector \cap {"LayerHolds", "ReportsChanged"}

LEMMA OutputInTurn ==
    ASSUME NEW s, NEW t, NEW u, SameOutput(s, t), SameOutput(t, u)
    PROVE  SameOutput(s, u)
BY DEF SameOutput

\* Bits that ask nothing of reports and layers.
LEMMA OutputOfBits ==
    ASSUME NEW s \in KeyboardState,
           NEW bits \in SUBSET (Bits \ {"LayerHolds", "ReportsChanged"})
    PROVE  SameOutput(s, set(s, bits)) /\ SameOutput(s, unset(s, bits)) /\ SameOutput(s, s)
<1>1. bits \in SUBSET Bits
    OBVIOUS
<1>2. /\ set(s, bits) \in KeyboardState /\ set(s, bits).vector = s.vector \cup bits
      /\ unset(s, bits) \in KeyboardState /\ unset(s, bits).vector = s.vector \ bits
    BY <1>1, SetsBits, ClearsBits
<1>3. SameOutput(s, set(s, bits))
    BY <1>2 DEF SameOutput, set, KeyboardState
<1>4. SameOutput(s, unset(s, bits))
    BY <1>2 DEF SameOutput, unset, KeyboardState
<1> QED BY <1>3, <1>4 DEF SameOutput

\* The bits that a cycle sets and clears on the way, all but these two.
LEMMA SilentBits ==
    {"StateMatrix", "NativeActions", "NativePostponing", "MacroPostponing", "Postponer",
     "ZeroScan", "MacroEngine", "MouseController"} = Bits \ {"LayerHolds", "ReportsChanged"}
BY DEF Bits, WakeBits, PostponingBits

\* Waking macros, applyEventAndConsume and appendEvent.
LEMMA OutputOfConsumed ==
    ASSUME NEW s \in KeyboardState
    PROVE  /\ SameOutput(s, wakeMacros(s))
           /\ s.queue # <<>> => SameOutput(s, applyEventAndConsume(s))
<1>1. ASSUME NEW r \in KeyboardState PROVE SameOutput(r, wakeMacros(r))
    BY <1>1, SilentBits, OutputOfBits DEF wakeMacros
<1>2. ASSUME s.queue # <<>> PROVE SameOutput(s, applyEventAndConsume(s))
    <2> DEFINE e == Head(s.queue)
               t == [s EXCEPT !.queue = Tail(@)]
               m == [t EXCEPT !.mouseBlocked = FALSE]
               c == [t EXCEPT !.current = put(@, e.key, e.active)]
               d == set(c, {"NativeActions"})
    <2>1. s.queue \in Seq(Event) /\ Len(s.queue) <= BufferSize
        BY Queues DEF KeyboardState
    <2>2. e \in Event /\ Tail(s.queue) \in BoundedSeq(Event, BufferSize)
        <3>1. Tail(s.queue) \in Seq(Event) /\ Len(Tail(s.queue)) = Len(s.queue) - 1 /\ e \in Event
            BY <1>2, <2>1, HeadTailProperties
        <3> QED BY <2>1, <3>1, Queues, BufferAssumption, LenProperties
    <2>3. e.key # Mouse => put(s.current, e.key, e.active) \in SUBSET Keys
        BY <2>2 DEF Event, put, KeyboardState
    <2>4. applyEventAndConsume(s) = IF e.key = Mouse THEN set(m, {"MouseController"}) ELSE wakeMacros(d)
        BY DEF applyEventAndConsume
    <2>5. SameOutput(s, m) /\ (e.key # Mouse => SameOutput(s, c))
        BY <2>2, <2>3 DEF SameOutput, KeyboardState
    <2> HIDE DEF e, m, c
    <2>6. CASE e.key = Mouse
        <3>1. SameOutput(m, set(m, {"MouseController"}))
            BY <2>5, SilentBits, OutputOfBits DEF SameOutput
        <3> QED BY <2>4, <2>5, <2>6, <3>1, OutputInTurn
    <2>7. CASE e.key # Mouse
        <3>1. c \in KeyboardState /\ SameOutput(s, c)
            BY <2>5, <2>7 DEF SameOutput
        <3>2. SameOutput(c, d)
            BY <3>1, SilentBits, OutputOfBits
        <3> HIDE DEF d
        <3>3. SameOutput(d, wakeMacros(d))
            BY <1>1, <3>2 DEF SameOutput
        <3> QED BY <2>4, <2>7, <3>1, <3>2, <3>3, OutputInTurn
    <2> QED BY <2>6, <2>7
<1> QED BY <1>1, <1>2

LEMMA OutputOfAppended ==
    ASSUME NEW s \in KeyboardState, NEW e \in Event
    PROVE  SameOutput(s, appendEvent(s, e))
<1> DEFINE r == IF Len(s.queue) = BufferSize THEN applyEventAndConsume(s) ELSE s
           t == appendEvent(s, e)
<1>1. t \in KeyboardState
    BY Appended
<1>2. Len(s.queue) = BufferSize => s.queue # <<>>
    BY BufferAssumption
<1>3. SameOutput(s, r)
    BY <1>2, OutputOfConsumed DEF SameOutput
<1>4. t = [r EXCEPT !.queue = Append(@, e)]
    BY DEF appendEvent
<1> HIDE DEF r, t
<1>5. SameOutput(r, t)
    BY <1>1, <1>3, <1>4 DEF SameOutput, KeyboardState
<1> QED BY <1>3, <1>5, OutputInTurn DEF t

\* preprocessKeyState
LEMMA OutputOfPreprocessed ==
    ASSUME First
    PROVE  SameOutput(kb, preprocess(kb, at))
<1> DEFINE active == (at \in hw)
           e == [key |-> at, active |-> active]
           r == IF ShouldQueue(kb) THEN appendEvent(kb, e) ELSE [kb EXCEPT !.current = put(@, at, active)]
<1>1. kb \in KeyboardState /\ at \in Keys /\ active \in BOOLEAN
    BY DEF First, Inv, TypeOK
<1>2. e \in Event /\ put(kb.current, at, active) \in SUBSET Keys
    BY <1>1 DEF Event, put, KeyboardState
<1>3. preprocess(kb, at) = IF Changes(at) THEN wakeMacros(r) ELSE kb
    BY DEF preprocess, commitKeyState
<1>4. SameOutput(kb, r)
    <2>1. CASE ShouldQueue(kb)
        BY <1>1, <1>2, <2>1, OutputOfAppended
    <2>2. CASE ~ShouldQueue(kb)
        BY <1>1, <1>2, <2>2 DEF SameOutput, KeyboardState
    <2> QED BY <2>1, <2>2
<1> HIDE DEF r
<1>5. SameOutput(r, wakeMacros(r)) /\ SameOutput(kb, kb)
    BY <1>1, <1>4, OutputOfConsumed DEF SameOutput
<1> QED BY <1>3, <1>4, <1>5, OutputInTurn

\* PostponerCore_RunPostponedEvents
LEMMA OutputOfReplayed ==
    ASSUME NEW s \in KeyboardState
    PROVE  SameOutput(s, RunPostponedEvents(s))
<1> DEFINE r == IF Replays(s) THEN applyEventAndConsume(s) ELSE s
<1>1. SameOutput(s, r) /\ r \in KeyboardState
    BY OutputOfConsumed DEF SameOutput, Replays
<1>2. RunPostponedEvents(s) \in {set(r, {"Postponer"}), unset(r, {"Postponer"})}
    BY DEF RunPostponedEvents
<1> HIDE DEF r
<1>3. SameOutput(r, set(r, {"Postponer"})) /\ SameOutput(r, unset(r, {"Postponer"}))
    BY <1>1, SilentBits, OutputOfBits
<1> QED BY <1>1, <1>2, <1>3, OutputInTurn

\* Macros_ContinueMacro
LEMMA OutputOfMacros ==
    ASSUME NEW s \in KeyboardState, NEW macro \in {"ended", "awake", "onKey", "onTime"},
           NEW postpones \in BOOLEAN
    PROVE  SameOutput(s, continueMacro(s, macro, postpones))
<1> DEFINE r == [s EXCEPT !.macro = macro]
           gone == {"MacroEngine", "MacroPostponing"}
           bits == (IF macro = "awake" THEN {"MacroEngine"} ELSE {})
                   \cup (IF postpones THEN {"MacroPostponing"} ELSE {})
           t == unset(r, gone)
<1>1. SameOutput(s, r)
    BY DEF SameOutput, KeyboardState
<1>2. /\ gone \in SUBSET (Bits \ {"LayerHolds", "ReportsChanged"})
      /\ bits \in SUBSET (Bits \ {"LayerHolds", "ReportsChanged"})
    BY SilentBits
<1>3. continueMacro(s, macro, postpones) = set(t, bits)
    BY DEF continueMacro
<1> HIDE DEF r, gone, bits
<1>4. SameOutput(r, t)
    BY <1>1, <1>2, OutputOfBits DEF SameOutput
<1> HIDE DEF t
<1>5. SameOutput(t, set(t, bits))
    BY <1>2, <1>4, OutputOfBits DEF SameOutput
<1> QED BY <1>1, <1>3, <1>4, <1>5, OutputInTurn

\* handleLayerChanges
LEMMA OutputOfLayers ==
    ASSUME NEW s \in KeyboardState
    PROVE  LET t == handleLayerChanges(s)
           IN  /\ t \in KeyboardState /\ t.codes = s.codes /\ t.secondary = s.secondary
               /\ t.sticky \in {s.sticky, NoKey}
               /\ "LayerHolds" \notin t.vector
<1> DEFINE r == [s EXCEPT !.layer = s.holds]
           t == unset(r, {"LayerHolds"})
           v == [t EXCEPT !.sticky = NoKey]
           u == handleLayerChanges(s)
<1>1. /\ r \in KeyboardState /\ r.codes = s.codes /\ r.sticky = s.sticky /\ r.secondary = s.secondary
    BY DEF KeyboardState
<1>2. {"LayerHolds"} \in SUBSET Bits /\ {"ReportsChanged"} \in SUBSET Bits
    BY DEF Bits, WakeBits
<1>3. u = t \/ u = set(v, {"ReportsChanged"})
    BY DEF handleLayerChanges
<1> HIDE DEF r, u
<1>4. t \in KeyboardState /\ t.vector = r.vector \ {"LayerHolds"}
    BY <1>1, <1>2, ClearsBits
<1>5. t.codes = r.codes /\ t.sticky = r.sticky /\ t.secondary = r.secondary
    BY <1>1 DEF unset, KeyboardState
<1> HIDE DEF t
<1>6. /\ v \in KeyboardState /\ v.codes = t.codes /\ v.sticky = NoKey /\ v.secondary = t.secondary
      /\ v.vector = t.vector
    BY <1>4 DEF KeyboardState
<1> HIDE DEF v
<1>7. set(v, {"ReportsChanged"}) \in KeyboardState /\ set(v, {"ReportsChanged"}).vector = v.vector \cup {"ReportsChanged"}
    BY <1>2, <1>6, SetsBits
<1>8. LET w == set(v, {"ReportsChanged"}) IN w.codes = v.codes /\ w.sticky = v.sticky /\ w.secondary = v.secondary
    BY <1>6 DEF set, KeyboardState
<1> QED BY <1>1, <1>3, <1>4, <1>5, <1>6, <1>7, <1>8 DEF u

\* The reports of the last cycle are cleared.
LEMMA OutputOfReset ==
    ASSUME NEW s \in KeyboardState
    PROVE  LET t == resetActions(s)
           IN  /\ t.codes = {} /\ t.secondary = s.secondary /\ t.sticky = s.sticky
               /\ "LayerHolds" \in t.vector => "LayerHolds" \in s.vector
<1> DEFINE r == [s EXCEPT !.holds = FALSE, !.codes = {}, !.lastMods = NoKey]
           gone == {"NativeActions", "StateMatrix", "NativePostponing"}
           bits == IF s.lastMods # NoKey THEN {"ReportsChanged"} ELSE {}
           t == unset(r, gone)
           u == resetActions(s)
<1>1. /\ r \in KeyboardState /\ r.codes = {} /\ r.secondary = s.secondary /\ r.sticky = s.sticky
      /\ r.vector = s.vector
    BY DEF KeyboardState
<1>2. gone \in SUBSET Bits /\ bits \in SUBSET Bits /\ "LayerHolds" \notin bits
    BY DEF Bits, WakeBits, PostponingBits
<1>3. u = set(t, bits)
    BY DEF resetActions
<1> HIDE DEF r, gone, bits, u
<1>4. t \in KeyboardState /\ t.vector = r.vector \ gone
    BY <1>1, <1>2, ClearsBits
<1>5. t.codes = r.codes /\ t.sticky = r.sticky /\ t.secondary = r.secondary
    BY <1>1 DEF unset, KeyboardState
<1> HIDE DEF t
<1>6. u.vector = t.vector \cup bits
    BY <1>2, <1>3, <1>4, SetsBits
<1>7. u.codes = t.codes /\ u.sticky = t.sticky /\ u.secondary = t.secondary
    BY <1>3, <1>4 DEF set, KeyboardState
<1> QED BY <1>1, <1>2, <1>4, <1>5, <1>6, <1>7 DEF u

\* MouseController_ProcessMouseActions: the sticky modifiers go when the pointer
\* has moved.
LEMMA OutputOfMouse ==
    ASSUME NEW s \in KeyboardState
    PROVE  LET t == processMouse(s)
           IN  /\ t \in KeyboardState /\ t.codes = s.codes /\ t.secondary = s.secondary
               /\ t.vector \cap {"LayerHolds", "ReportsChanged"} = s.vector \cap {"LayerHolds", "ReportsChanged"}
               /\ t.sticky \in {s.sticky, NoKey} /\ (~motion => t.sticky = s.sticky)
               /\ t.lastMods = s.lastMods
<1>1. LET t == unset(s, {"MouseController"})
      IN SameOutput(s, t) /\ t.lastMods = s.lastMods
    <2>1. SameOutput(s, unset(s, {"MouseController"}))
        BY SilentBits, OutputOfBits
    <2> QED BY <2>1 DEF unset, KeyboardState
<1>2. LET t == [s EXCEPT !.sticky = NoKey]
      IN  /\ t \in KeyboardState /\ t.codes = s.codes /\ t.secondary = s.secondary
          /\ t.vector = s.vector /\ t.sticky = NoKey /\ t.lastMods = s.lastMods
    BY DEF KeyboardState
<1>3. LET t == [s EXCEPT !.trigger = @ \/ s.resolution.role = "unknown"]
      IN SameOutput(s, t) /\ t.lastMods = s.lastMods
    BY DEF SameOutput, KeyboardState
<1> QED BY <1>1, <1>2, <1>3 DEF processMouse, SameOutput

\* applyKeystrokePrimary: the scancode of a shortcut follows its modifiers.
LEMMA OutputOfPrimary ==
    ASSUME NEW s \in KeyboardState, NEW k \in Keys
    PROVE  LET t == applyKeystrokePrimary(s, k)
               changed == Pending(s, k) /\ Mods(k) # s.sticky
           IN  /\ t.secondary = s.secondary /\ t.resolution = s.resolution /\ t.current = s.current
               /\ t.codes = IF k \in s.current /\ ~changed THEN s.codes \cup {k} ELSE s.codes
               /\ t.sticky = IF Pending(s, k) THEN Mods(k)
                             ELSE IF k \notin s.current /\ s.sticky = k /\ k \in ShortcutKeys THEN NoKey
                             ELSE s.sticky
               /\ "ReportsChanged" \in t.vector
               /\ "LayerHolds" \in t.vector => "LayerHolds" \in s.vector
               /\ changed => {"NativeActions", "NativePostponing"} \subseteq t.vector
<1> DEFINE changed == ActivatedNow(s, k) /\ Mods(k) # s.sticky
           down == [s EXCEPT !.sticky = IF ActivatedNow(s, k) THEN Mods(k) ELSE @,
                             !.codes = IF changed THEN @ ELSE @ \cup {k}]
           lastReport == [s EXCEPT !.lastMods = s.sticky, !.sticky = NoKey]
           again == {"NativeActions", "NativePostponing"}
           more == IF changed THEN again ELSE {}
           r == IF k \in s.current THEN down
                ELSE IF s.sticky = k /\ k \in ShortcutKeys THEN lastReport
                ELSE s
           bits == IF k \in s.current THEN more
                   ELSE IF s.sticky = k /\ k \in ShortcutKeys THEN again ELSE {}
           t == applyKeystrokePrimary(s, k)
<1>1. Mods(k) \in Keys \cup {NoKey} /\ (ActivatedNow(s, k) <=> Pending(s, k))
    BY DEF Mods, ActivatedNow, Pending
<1>2. /\ r \in KeyboardState /\ r.secondary = s.secondary /\ r.resolution = s.resolution
      /\ r.current = s.current /\ r.vector = s.vector
      /\ r.codes = IF k \in s.current /\ ~changed THEN s.codes \cup {k} ELSE s.codes
      /\ r.sticky = IF ActivatedNow(s, k) THEN Mods(k)
                    ELSE IF k \notin s.current /\ s.sticky = k /\ k \in ShortcutKeys THEN NoKey
                    ELSE s.sticky
    BY <1>1 DEF KeyboardState, ActivatedNow
<1>3. /\ bits \in SUBSET Bits /\ {"ReportsChanged"} \in SUBSET Bits /\ "LayerHolds" \notin bits
      /\ changed => bits = again
    BY DEF Bits, WakeBits, PostponingBits, ActivatedNow
<1>4. t = set(set(r, bits), {"ReportsChanged"})
    <2>1. set(s, {}) = s
        BY DEF set, KeyboardState
    <2> QED BY <2>1 DEF applyKeystrokePrimary
<1>5. ASSUME NEW q \in KeyboardState, NEW b \in SUBSET Bits
      PROVE  LET v == set(q, b)
             IN  /\ v \in KeyboardState /\ v.vector = q.vector \cup b /\ v.current = q.current
                 /\ v.secondary = q.secondary /\ v.resolution = q.resolution
                 /\ v.codes = q.codes /\ v.sticky = q.sticky
    BY <1>5, SetsBits DEF set, KeyboardState
<1>6. again = {"NativeActions", "NativePostponing"} /\ (changed <=> Pending(s, k) /\ Mods(k) # s.sticky)
    BY <1>1
<1> HIDE DEF r, bits, t, again, changed
<1>7. LET v == set(r, bits)
      IN  /\ v \in KeyboardState /\ v.vector = r.vector \cup bits /\ v.current = r.current
          /\ v.secondary = r.secondary /\ v.resolution = r.resolution
          /\ v.codes = r.codes /\ v.sticky = r.sticky
    BY <1>2, <1>3, <1>5
<1>8. LET v == set(r, bits)
      IN  /\ t.vector = v.vector \cup {"ReportsChanged"} /\ t.current = v.current
          /\ t.secondary = v.secondary /\ t.resolution = v.resolution
          /\ t.codes = v.codes /\ t.sticky = v.sticky
    BY <1>3, <1>4, <1>5, <1>7
<1> QED BY <1>1, <1>2, <1>3, <1>6, <1>7, <1>8 DEF t

\* applyKeystrokeSecondary: nothing is reported.
LEMMA OutputOfSecondary ==
    ASSUME NEW s \in KeyboardState, NEW k \in Keys
    PROVE  LET t == applyKeystrokeSecondary(s, k)
           IN  t.codes = s.codes /\ t.sticky = s.sticky /\ t.secondary = s.secondary
<1> DEFINE held == [s EXCEPT !.holds = TRUE, !.layer = TRUE]
           t == applyKeystrokeSecondary(s, k)
<1>1. /\ held \in KeyboardState /\ held.codes = s.codes /\ held.sticky = s.sticky
      /\ held.secondary = s.secondary
    BY DEF KeyboardState
<1>2. t \in {held, set(held, {"LayerHolds"}), set(s, {"LayerHolds"})}
    BY DEF applyKeystrokeSecondary
<1> HIDE DEF held, t
<1>3. ASSUME NEW r \in KeyboardState
      PROVE  LET u == set(r, {"LayerHolds"})
             IN  u.codes = r.codes /\ u.sticky = r.sticky /\ u.secondary = r.secondary
    BY <1>3 DEF set, KeyboardState
<1> QED BY <1>1, <1>2, <1>3 DEF t

\* Deciding on a role reports nothing.
LEMMA OutputOfDeciding ==
    ASSUME NEW s \in KeyboardState, NEW k \in Keys
    PROVE  /\ SameOutput(s, decide(s, k)) /\ SameOutput(s, startResolution(s, k))
           /\ SameOutput(s, continueResolution(s, k)) /\ SameOutput(s, s)
<1>1. ASSUME NEW r \in KeyboardState PROVE SameOutput(r, decide(r, k))
    <2>1. roleByQueue(r, k) \in Roles /\ "secondary" \in Roles
        BY DEF roleByQueue, Roles
    <2>2. CASE r.trigger
        <3> DEFINE v == [r.resolution EXCEPT !.role = "secondary"]
        <3>1. decide(r, k) = [r EXCEPT !.trigger = FALSE, !.resolution = v]
            BY <2>2 DEF decide
        <3>2. v \in [key: Keys \cup {NoKey}, role: Roles]
            BY <1>1, <2>1 DEF KeyboardState
        <3> HIDE DEF v
        <3> DEFINE t == [r EXCEPT !.trigger = FALSE, !.resolution = v]
        <3>3. /\ t \in KeyboardState /\ t.codes = r.codes /\ t.sticky = r.sticky
              /\ t.secondary = r.secondary /\ t.vector = r.vector
            BY <1>1, <3>2 DEF KeyboardState
        <3> HIDE DEF t
        <3> QED BY <3>1, <3>3 DEF SameOutput, t
    <2>3. CASE ~r.trigger
        <3>1. decide(r, k) = [r EXCEPT !.resolution.role = roleByQueue(r, k)]
            BY <2>3 DEF decide
        <3> QED BY <1>1, <2>1, <3>1 DEF SameOutput, KeyboardState
    <2> QED BY <2>2, <2>3
<1>2. SameOutput(s, startResolution(s, k))
    <2> DEFINE r == [s EXCEPT !.resolution = [key |-> k, role |-> "unknown"], !.mouseBlocked = TRUE]
    <2>1. SameOutput(s, r)
        BY DEF SameOutput, KeyboardState, Roles
    <2>2. startResolution(s, k) = decide(r, k)
        BY DEF startResolution
    <2> HIDE DEF r
    <2>3. SameOutput(r, decide(r, k))
        BY <1>1, <2>1 DEF SameOutput
    <2> QED BY <2>1, <2>2, <2>3, OutputInTurn
<1>3. SameOutput(s, s)
    BY DEF SameOutput
<1>4. SameOutput(s, continueResolution(s, k))
    <2> DEFINE r == IF s.resolution.role = "unknown" THEN decide(s, k) ELSE s
               e == [key |-> Mouse, active |-> FALSE]
    <2>1. SameOutput(s, r) /\ r \in KeyboardState
        BY <1>1, <1>3 DEF SameOutput
    <2>2. e \in Event
        BY DEF Event
    <2>3. continueResolution(s, k) \in {r, appendEvent(r, e)}
        BY DEF continueResolution
    <2> HIDE DEF r, e
    <2>4. SameOutput(r, appendEvent(r, e))
        BY <2>1, <2>2, OutputOfAppended
    <2> QED BY <2>1, <2>3, <2>4, OutputInTurn
<1> QED BY <1>1, <1>2, <1>3, <1>4

-----------------------------------------------------------------------------
(* What a visit reports.                                                   *)

\* Key k was just pressed, or is the undecided one: it may be decided on.
Touched(s, k) == Pending(s, k) \/ (s.resolution.key = k /\ Holding(s, "unknown"))

\* The action of key k takes the main loop from s to t: it changes roles and
\* modifiers only if k was pressed or decided on, it reports the scancode of a
\* shortcut only if that was held, and otherwise sends its modifiers and postpones.
Emits(s, t, k) ==
    /\ t.secondary \ {k} = s.secondary \ {k}
    /\ ~Touched(s, k) => t.secondary = s.secondary
    /\ s.codes \subseteq t.codes /\ t.codes \subseteq s.codes \cup {k}
    /\ "ReportsChanged" \in t.vector \/ t.codes = s.codes
    /\ t.sticky \in {s.sticky, NoKey, k}
    /\ \/ t.sticky = s.sticky \/ Touched(s, k)
       \/ s.sticky = k /\ t.sticky = NoKey /\ t.codes = s.codes
    /\ t.sticky = k => k \in (ShortcutKeys \ MacroKeys) \cap t.current /\ RoleOf(t, k) = "primary"
    /\ k \in ShortcutKeys /\ k \in t.codes => k \in s.codes \/ k \in Strokes(s)
    /\ k \in (ShortcutKeys \ MacroKeys) \cap t.current /\ RoleOf(t, k) = "primary" =>
         \/ k \in t.codes
         \/ /\ {"NativeActions", "NativePostponing", "ReportsChanged"} \subseteq t.vector
            /\ t.sticky = k /\ Touched(s, k)
    /\ "LayerHolds" \in t.vector => "LayerHolds" \in s.vector \/ k \in t.secondary
    /\ RolesKept(t)

\* Whose modifiers are sticky was acted on.
LEMMA StickyIsUntouched ==
    ASSUME NEW s \in KeyboardState, NEW k \in Keys, Resolves(s), StickyHeld(s), s.sticky = k
    PROVE  k \in Strokes(s) /\ ~Touched(s, k)
<1>1. k \in Strokes(s)
    BY KeyFacts DEF StickyHeld
<1>2. ~Pending(s, k)
    BY <1>1 DEF Strokes, Pending
<1>3. ~(s.resolution.key = k /\ Holding(s, "unknown"))
    <2>1. s.resolution.key = k => k \in DualKeys
        BY KeyFacts DEF Resolves, Resolved
    <2> QED BY <1>1, <2>1 DEF Strokes, RoleOf, Holding
<1> QED BY <1>1, <1>2, <1>3 DEF Touched

\* Macros_StartMacro
LEMMA MacroEmits ==
    ASSUME NEW s \in KeyboardState, NEW k \in MacroKeys, Resolves(s), RolesKept(s), StickyHeld(s)
    PROVE  Emits(s, IF ActivatedNow(s, k) THEN startMacro(s) ELSE s, k)
<1> DEFINE r == [s EXCEPT !.macro = "awake", !.sticky = NoKey]
           bits == {"MacroEngine", "MacroPostponing", "ReportsChanged"}
           t == startMacro(s)
<1>1. k \in Keys /\ k # NoKey
    BY KeyAssumption, KeyFacts
<1>2. s.sticky # k
    BY <1>1, StickyIsUntouched DEF Strokes
<1>3. /\ r \in KeyboardState /\ r.sticky = NoKey /\ r.codes = s.codes /\ r.secondary = s.secondary
      /\ r.resolution = s.resolution /\ r.vector = s.vector
    BY DEF KeyboardState
<1>4. bits \in SUBSET Bits /\ "LayerHolds" \notin bits
    BY DEF Bits, WakeBits, PostponingBits
<1>5. t = set(r, bits)
    BY DEF startMacro
<1> HIDE DEF r, bits, t
<1>6. /\ t.sticky = NoKey /\ t.codes = s.codes /\ t.secondary = s.secondary
      /\ t.resolution = s.resolution /\ t.vector = s.vector \cup bits
    BY <1>3, <1>4, <1>5, SetsBits DEF set, KeyboardState
<1>7. k \in s.codes => k \in s.codes
    OBVIOUS
<1>8. ActivatedNow(s, k) => Emits(s, t, k)
    BY <1>1, <1>4, <1>6 DEF Emits, RolesKept, Touched, ActivatedNow, Pending
<1>9. Emits(s, s, k)
    BY <1>2 DEF Emits
<1> QED BY <1>8, <1>9 DEF t

\* applyKeystroke, for a key that has no secondary role
LEMMA KeystrokeEmits ==
    ASSUME NEW s \in KeyboardState, NEW k \in Keys, k \notin DualKeys \cup MacroKeys,
           k \in s.current \cup s.previous, Resolves(s), RolesKept(s), StickyHeld(s)
    PROVE  Emits(s, applyKeystrokePrimary(s, k), k)
<1> DEFINE t == applyKeystrokePrimary(s, k)
           changed == Pending(s, k) /\ Mods(k) # s.sticky
<1>1. /\ t.secondary = s.secondary /\ t.resolution = s.resolution /\ t.current = s.current
      /\ t.codes = IF k \in s.current /\ ~changed THEN s.codes \cup {k} ELSE s.codes
      /\ t.sticky = IF Pending(s, k) THEN Mods(k)
                    ELSE IF k \notin s.current /\ s.sticky = k /\ k \in ShortcutKeys THEN NoKey
                    ELSE s.sticky
      /\ "ReportsChanged" \in t.vector
      /\ "LayerHolds" \in t.vector => "LayerHolds" \in s.vector
      /\ changed => {"NativeActions", "NativePostponing"} \subseteq t.vector
    BY OutputOfPrimary
<1> HIDE DEF t
<1>2. s.sticky = k => k \in ShortcutKeys /\ ~Touched(s, k)
    BY StickyIsUntouched DEF Strokes
<1>3. k # NoKey /\ Mods(k) \in {NoKey, k} /\ (k \in ShortcutKeys <=> Mods(k) = k)
    BY KeyFacts DEF Mods
<1>4. Pending(s, k) => k \in s.current /\ Touched(s, k)
    BY DEF Pending, Touched
<1>5. k \in ShortcutKeys /\ Pending(s, k) => changed
    BY <1>2, <1>3, <1>4
<1>6. RoleOf(s, k) = "primary" /\ RoleOf(t, k) = "primary" /\ RolesKept(t)
    BY <1>1 DEF RoleOf, RolesKept
<1>7. k \in ShortcutKeys /\ k \in s.current /\ ~Pending(s, k) => k \in Strokes(s)
    BY <1>6 DEF Pending, Strokes
<1>8. k \in ShortcutKeys /\ k \in t.codes => k \in s.codes \/ k \in Strokes(s)
    BY <1>1, <1>5, <1>7
<1>9. t.sticky = k => k \in (ShortcutKeys \ MacroKeys) \cap t.current
    BY <1>1, <1>2, <1>3, <1>4
<1>10. k \in ShortcutKeys /\ k \in t.current =>
         \/ k \in t.codes
         \/ /\ {"NativeActions", "NativePostponing", "ReportsChanged"} \subseteq t.vector
            /\ t.sticky = k /\ Touched(s, k)
    BY <1>1, <1>3, <1>4
<1>11. /\ t.sticky \in {s.sticky, NoKey, k}
       /\ \/ t.sticky = s.sticky \/ Touched(s, k)
          \/ s.sticky = k /\ t.sticky = NoKey /\ t.codes = s.codes
    BY <1>1, <1>3, <1>4
<1>12. s.codes \subseteq t.codes /\ t.codes \subseteq s.codes \cup {k}
    BY <1>1
<1> HIDE DEF changed
<1>13. Emits(s, t, k)
    BY <1>1, <1>6, <1>8, <1>9, <1>10, <1>11, <1>12 DEF Emits
<1> QED BY <1>13 DEF t

\* applyKeystroke, for a key with a secondary role
LEMMA DualEmits ==
    ASSUME NEW s \in KeyboardState, NEW k \in DualKeys \ MacroKeys,
           k \in s.current \cup s.previous, Resolves(s), RolesKept(s), StickyHeld(s)
    PROVE  Emits(s, applyDualRole(s, k), k)
<1> DEFINE fresh == ActivatedNow(s, k)
           continues == ~fresh /\ k = s.resolution.key
           r == IF fresh THEN startResolution(s, k)
                ELSE IF k = s.resolution.key THEN continueResolution(s, k) ELSE s
           role == IF k = r.resolution.key THEN r.resolution.role
                   ELSE IF k \in s.secondary THEN "secondary" ELSE "primary"
           decidedNow == /\ k = r.resolution.key /\ role # "unknown"
                         /\ fresh \/ s.resolution.role = "unknown"
           t == IF decidedNow THEN activate(r, k) ELSE r
           u == applyDualRole(s, k)
<1> SUFFICES Emits(s, u, k)
    OBVIOUS
<1>1. k \in Keys /\ k # NoKey
    BY KeyAssumption, KeyFacts
<1>2. u = CASE role = "unknown" -> set(t, {"NativePostponing"})
            [] role = "primary" -> applyKeystrokePrimary(t, k)
            [] role = "secondary" -> applyKeystrokeSecondary(t, k)
    BY DEF applyDualRole
<1>3. (fresh <=> Pending(s, k)) /\ (continues => k \in s.previous)
    BY DEF ActivatedNow, Pending
<1>4. s.sticky = k => k \in Strokes(s) /\ ~Touched(s, k)
    BY <1>1, StickyIsUntouched
<1>5. fresh => SameOutput(s, r) /\ r.resolution.key = k
    BY <1>1, OutputOfDeciding, Starting
<1>6. continues =>
        /\ SameOutput(s, r) /\ r.resolution.key = k
        /\ r.resolution.role = "unknown" => s.resolution.role = "unknown"
        /\ s.resolution.role # "unknown" => r = s
    BY <1>1, OutputOfDeciding, Continuing
<1>7. ~fresh /\ ~continues => r = s /\ s.resolution.key # k
    OBVIOUS
<1>8. SameOutput(s, s)
    BY DEF SameOutput
<1>9. SameOutput(s, r) /\ r \in KeyboardState
    BY <1>5, <1>6, <1>7, <1>8 DEF SameOutput
<1>10. Touched(s, k) <=> fresh \/ (continues /\ s.resolution.role = "unknown")
    BY <1>3 DEF Touched, Holding, Pending
<1>11. r.resolution.key = k => fresh \/ continues
    BY <1>7
<1>12. k \in ShortcutKeys => (k \in Strokes(s) <=> k \in s.previous /\ RoleOf(s, k) = "primary")
    BY DEF Strokes
<1>13. role = "unknown" => t = r /\ r.resolution.key = k /\ r.resolution.role = "unknown" /\ Touched(s, k)
    BY <1>6, <1>10, <1>11
<1>14. decidedNow => Touched(s, k) /\ t = activate(r, k) /\ r.resolution.key = k /\ r.resolution.role = role
    BY <1>10, <1>11
<1>15. role # "unknown" /\ ~decidedNow =>
         t = s /\ role = RoleOf(s, k) /\ ~Touched(s, k)
    BY <1>5, <1>6, <1>7, <1>10, <1>11 DEF RoleOf
<1>16. decidedNow =>
         LET q == activate(r, k)
         IN  /\ q \in KeyboardState /\ q.current = r.current \cup {k} /\ q.previous = r.previous \ {k}
             /\ q.secondary = put(r.secondary, k, r.resolution.role = "secondary")
             /\ q.codes = r.codes /\ q.sticky = r.sticky /\ q.resolution = r.resolution
             /\ q.vector = r.vector
    <2>1. put(r.secondary, k, r.resolution.role = "secondary") \in SUBSET Keys
        BY <1>1, <1>9 DEF put, KeyboardState
    <2> HIDE DEF r
    <2> QED BY <1>1, <1>9, <2>1 DEF activate, KeyboardState
<1>17. role \in Roles
    BY <1>9 DEF KeyboardState, Roles
<1> HIDE DEF fresh, continues, r, role, t, u
<1>18. decidedNow => Pending(t, k) /\ t.codes = s.codes /\ t.sticky = s.sticky /\ t \in KeyboardState
    BY <1>9, <1>14, <1>16 DEF Pending, SameOutput
<1>19. decidedNow => /\ t.resolution.key = k /\ t.resolution.role = role
                     /\ t.secondary = put(s.secondary, k, role = "secondary")
                     /\ t.vector \cap {"LayerHolds", "ReportsChanged"} = s.vector \cap {"LayerHolds", "ReportsChanged"}
    BY <1>9, <1>14, <1>16 DEF SameOutput
<1>20. k \in DualKeys
    OBVIOUS
<1> HIDE DEF decidedNow
<1>21. CASE role = "unknown"
    <2>1. {"NativePostponing"} \in SUBSET Bits
        BY DEF Bits, PostponingBits
    <2>2. u = set(r, {"NativePostponing"})
        BY <1>2, <1>13, <1>21
    <2>3. u.vector = r.vector \cup {"NativePostponing"}
        BY <1>9, <2>1, <2>2, SetsBits
    <2>4. /\ u.codes = r.codes /\ u.sticky = r.sticky /\ u.secondary = r.secondary
          /\ u.resolution = r.resolution
        BY <1>9, <2>2 DEF set, KeyboardState
    <2>5. /\ u.codes = s.codes /\ u.sticky = s.sticky /\ u.secondary = s.secondary
          /\ "LayerHolds" \in u.vector => "LayerHolds" \in s.vector
        BY <1>9, <2>3, <2>4 DEF SameOutput
    <2>6. RoleOf(u, k) = "unknown" /\ RolesKept(u)
        BY <1>13, <1>20, <1>21, <2>4 DEF RoleOf, RolesKept
    <2>7. Touched(s, k) /\ s.sticky # k
        BY <1>4, <1>13, <1>21
    <2> QED BY <2>5, <2>6, <2>7 DEF Emits
<1>22. CASE role = "primary"
    <2> DEFINE changed == Pending(t, k) /\ Mods(k) # t.sticky
    <2>1. t \in KeyboardState
        BY <1>15, <1>18, <1>22
    <2>2. u = applyKeystrokePrimary(t, k)
        BY <1>2, <1>22
    <2>3. /\ u.secondary = t.secondary /\ u.resolution = t.resolution /\ u.current = t.current
          /\ u.codes = IF k \in t.current /\ ~changed THEN t.codes \cup {k} ELSE t.codes
          /\ u.sticky = IF Pending(t, k) THEN Mods(k)
                        ELSE IF k \notin t.current /\ t.sticky = k /\ k \in ShortcutKeys THEN NoKey
                        ELSE t.sticky
          /\ "ReportsChanged" \in u.vector
          /\ "LayerHolds" \in u.vector => "LayerHolds" \in t.vector
          /\ changed => {"NativeActions", "NativePostponing"} \subseteq u.vector
        BY <1>1, <2>1, <2>2, OutputOfPrimary
    <2>4. Mods(k) \in {NoKey, k} /\ (k \in ShortcutKeys <=> Mods(k) = k)
        BY <1>1 DEF Mods
    <2>5. CASE decidedNow
        <3>1. Touched(s, k) /\ s.sticky # k
            BY <1>4, <1>14, <2>5
        <3>2. k \in ShortcutKeys => changed
            BY <1>18, <2>4, <2>5, <3>1
        <3>3. RoleOf(u, k) = "primary" /\ RolesKept(u) /\ u.secondary \ {k} = s.secondary \ {k}
            BY <1>19, <1>20, <1>22, <2>3, <2>5 DEF RoleOf, RolesKept, put
        <3>4. k \in t.current /\ Pending(t, k) /\ t.codes = s.codes
            BY <1>18, <2>5 DEF Pending
        <3>5. u.sticky = Mods(k)
            BY <2>3, <3>4
        <3>6. "LayerHolds" \in u.vector => "LayerHolds" \in s.vector
            BY <1>19, <2>3, <2>5
        <3>7. k \in ShortcutKeys => u.codes = s.codes
            BY <2>3, <3>2, <3>4
        <3>8. s.codes \subseteq u.codes /\ u.codes \subseteq s.codes \cup {k}
            BY <2>3, <3>4
        <3>9. u.sticky = k => k \in ShortcutKeys
            BY <1>1, <2>4, <3>5
        <3>10. k \in ShortcutKeys => /\ {"NativeActions", "NativePostponing", "ReportsChanged"} \subseteq u.vector
                                     /\ u.sticky = k
            BY <2>3, <2>4, <3>2, <3>5
        <3> HIDE DEF changed
        <3> QED BY <2>3, <2>4, <3>1, <3>3, <3>4, <3>5, <3>6, <3>7, <3>8, <3>9, <3>10 DEF Emits
    <2>6. CASE ~decidedNow
        <3>1. t = s /\ RoleOf(s, k) = "primary" /\ ~Touched(s, k)
            BY <1>15, <1>22, <2>6
        <3>2. ~Pending(s, k)
            BY <3>1 DEF Touched
        <3>3. RoleOf(u, k) = "primary" /\ RolesKept(u)
            BY <2>3, <3>1 DEF RoleOf, RolesKept
        <3>4. k \in s.current => k \in s.previous
            BY <3>2 DEF Pending
        <3>5. u.codes = IF k \in s.current THEN s.codes \cup {k} ELSE s.codes
            BY <2>3, <3>1, <3>2
        <3>6. k \in ShortcutKeys /\ k \in u.codes => k \in s.codes \/ k \in Strokes(s)
            BY <1>12, <3>1, <3>4, <3>5
        <3>7. s.sticky = k => k \in ShortcutKeys
            BY <1>4 DEF Strokes
        <3>8. u.sticky = IF k \notin s.current /\ s.sticky = k THEN NoKey ELSE s.sticky
            BY <2>3, <3>1, <3>2, <3>7
        <3>9. u.sticky = k => k \in ShortcutKeys /\ k \in u.current
            BY <1>1, <2>3, <3>1, <3>7, <3>8
        <3>10. k \in u.current => k \in u.codes
            BY <2>3, <3>1, <3>5
        <3>11. u.secondary = s.secondary /\ ("LayerHolds" \in u.vector => "LayerHolds" \in s.vector)
            BY <2>3, <3>1
        <3>12. "ReportsChanged" \in u.vector
            BY <2>3
        <3> HIDE DEF changed
        <3> QED BY <3>1, <3>3, <3>5, <3>6, <3>8, <3>9, <3>10, <3>11, <3>12 DEF Emits
    <2> QED BY <2>5, <2>6
<1>23. CASE role = "secondary"
    <2>1. t \in KeyboardState
        BY <1>15, <1>18, <1>23
    <2>2. u = applyKeystrokeSecondary(t, k)
        BY <1>2, <1>23
    <2>3. /\ u.codes = t.codes /\ u.sticky = t.sticky /\ u.secondary = t.secondary
          /\ u.resolution = t.resolution
        BY <1>1, <2>1, <2>2, OutputOfSecondary, HoldingSecondary
    <2>4. CASE decidedNow
        <3>1. Touched(s, k) /\ s.sticky # k
            BY <1>4, <1>14, <2>4
        <3>2. /\ RoleOf(u, k) = "secondary" /\ RolesKept(u) /\ u.secondary \ {k} = s.secondary \ {k}
              /\ k \in u.secondary
            BY <1>19, <1>20, <1>23, <2>3, <2>4 DEF RoleOf, RolesKept, put
        <3>3. u.codes = s.codes /\ u.sticky = s.sticky
            BY <1>18, <2>3, <2>4
        <3> QED BY <3>1, <3>2, <3>3 DEF Emits
    <2>5. CASE ~decidedNow
        <3>1. t = s /\ RoleOf(s, k) = "secondary" /\ ~Touched(s, k)
            BY <1>15, <1>23, <2>5
        <3>2. s.sticky # k
            BY <1>4, <3>1 DEF Strokes
        <3>3. k \in s.secondary
            BY <1>20, <3>1 DEF RoleOf, RolesKept
        <3>4. RoleOf(u, k) = "secondary" /\ RolesKept(u)
            BY <2>3, <3>1 DEF RoleOf, RolesKept
        <3> QED BY <2>3, <3>1, <3>2, <3>3, <3>4 DEF Emits
    <2> QED BY <2>4, <2>5
<1> QED BY <1>17, <1>21, <1>22, <1>23 DEF Roles

\* The loop of updateActionStates, for one key: whether another shortcut is held in
\* its primary role changes only as an undecided key is overtaken.
Yields(s, u, k) ==
    /\ u.secondary \ {k} = s.secondary \ {k}
    /\ ~Touched(s, k) => u.secondary = s.secondary
    /\ s.codes \subseteq u.codes /\ u.codes \subseteq s.codes \cup {k}
    /\ "ReportsChanged" \in u.vector \/ u.codes = s.codes
    /\ \/ u.sticky = s.sticky \/ Touched(s, k)
       \/ s.sticky = k /\ u.sticky = NoKey /\ u.codes = s.codes
    /\ k \in ShortcutKeys /\ k \in u.codes => k \in s.codes \/ k \in Strokes(s)
    /\ k \in Strokes(u) =>
         \/ k \in u.codes
         \/ /\ {"NativeActions", "NativePostponing", "ReportsChanged"} \subseteq u.vector
            /\ u.sticky = k /\ Touched(s, k)
    /\ \A j \in Strokes(u) \ {k}:
         j \in Strokes(s) \/ (s.resolution.key = j /\ Holding(s, "unknown") /\ Pending(s, k))
    /\ "LayerHolds" \in u.vector => "LayerHolds" \in s.vector \/ k \in u.secondary
    /\ RolesKept(u) /\ StickyHeld(u)

LEMMA ProcessYields ==
    ASSUME NEW s \in KeyboardState, NEW k \in Keys, Resolves(s), RolesKept(s), StickyHeld(s)
    PROVE  Yields(s, processKey(s, k), k)
<1> DEFINE t == ApplyKeyAction(s, k)
           u == processKey(s, k)
<1> SUFFICES Yields(s, u, k)
    OBVIOUS
<1>1. u = IF k \notin s.current \cup s.previous THEN s
          ELSE [t EXCEPT !.previous = put(@, k, k \in t.current)]
    BY DEF processKey
<1>2. Visits(s, u, k)
    BY ProcessVisits
<1>3. Acts(s, u, Keys \ {k}, IF k \in DualKeys THEN 1 ELSE 0) /\ (k \in u.previous <=> k \in u.current)
    BY ActsProcessing
<1>4. t = IF k \in MacroKeys THEN IF ActivatedNow(s, k) THEN startMacro(s) ELSE s
          ELSE IF k \in DualKeys THEN applyDualRole(s, k)
          ELSE applyKeystrokePrimary(s, k)
    BY DEF ApplyKeyAction
<1>5. t \in KeyboardState
    <2>1. startMacro(s) \in KeyboardState /\ applyKeystrokePrimary(s, k) \in KeyboardState
        BY PlainMacro, PlainPrimary DEF Plain
    <2>2. k \in DualKeys => applyDualRole(s, k) \in KeyboardState
        BY ActsDualRole DEF Acts
    <2> QED BY <1>4, <2>1, <2>2
<1> HIDE DEF t, u
<1>6. s.sticky = k => k \in Strokes(s)
    BY StickyIsUntouched
<1>7. CASE k \notin s.current \cup s.previous
    <2>1. u = s /\ k \notin Strokes(s) /\ s.sticky # k
        BY <1>1, <1>6, <1>7 DEF Strokes
    <2> QED BY <2>1 DEF Yields
<1>8. CASE k \in s.current \cup s.previous
    <2>1. Emits(s, t, k)
        <3>1. CASE k \in MacroKeys
            BY <1>4, <3>1, MacroEmits
        <3>2. CASE k \in DualKeys \ MacroKeys
            BY <1>4, <1>8, <3>2, DualEmits
        <3>3. CASE k \notin DualKeys \cup MacroKeys
            BY <1>4, <1>8, <3>3, KeystrokeEmits
        <3> QED BY <3>1, <3>2, <3>3
    <2>2. /\ u.current = t.current /\ u.vector = t.vector /\ u.resolution = t.resolution
          /\ u.secondary = t.secondary /\ u.codes = t.codes /\ u.sticky = t.sticky
        BY <1>1, <1>5, <1>8 DEF KeyboardState
    <2>3. RoleOf(u, k) = RoleOf(t, k)
        BY <2>2 DEF RoleOf
    <2>4. k \in Strokes(u) <=> k \in (ShortcutKeys \ MacroKeys) \cap t.current /\ RoleOf(t, k) = "primary"
        BY <1>3, <2>2, <2>3 DEF Strokes
    <2>5. \A j \in Keys \ {k}: /\ j \in u.previous <=> j \in s.previous
                               /\ j \in u.secondary <=> j \in s.secondary
        BY <1>3, <2>1, <2>2 DEF Acts, Keeps, Emits
    <2>6. /\ u.resolution.key # k => u.resolution = s.resolution
          /\ u.resolution.key = k => s.resolution.key = k \/ Pending(s, k)
        BY <1>2 DEF Visits
    <2>7. ShortcutKeys \subseteq Keys
        BY KeyAssumption
    <2>8. s.resolution.role \in Roles
        BY DEF KeyboardState
    <2>9. ASSUME NEW j \in Keys \ {k}
          PROVE  \/ RoleOf(u, j) = RoleOf(s, j)
                 \/ s.resolution.key = j /\ s.resolution.role = "unknown" /\ Pending(s, k)
        <3>1. CASE u.resolution.key = j \/ s.resolution.key # j
            BY <2>5, <2>6, <3>1 DEF RoleOf
        <3>2. CASE u.resolution.key # j /\ s.resolution.key = j
            <4>1. u.resolution.key = k /\ Pending(s, k)
                BY <2>6, <3>2
            <4>2. CASE s.resolution.role = "unknown"
                BY <3>2, <4>1, <4>2
            <4>3. CASE s.resolution.role = "secondary"
                BY <2>5, <3>2, <4>3 DEF RoleOf, RolesKept
            <4>4. CASE s.resolution.role = "primary"
                BY <2>5, <3>2, <4>4 DEF RoleOf, RolesKept
            <4> QED BY <2>8, <4>2, <4>3, <4>4 DEF Roles
        <3> QED BY <3>1, <3>2
    <2>10. \A j \in Strokes(u) \ {k}:
             j \in Strokes(s) \/ (s.resolution.key = j /\ Holding(s, "unknown") /\ Pending(s, k))
        BY <2>5, <2>7, <2>9 DEF Strokes, Holding
    <2>11. \A j \in Strokes(s) \ {k}: j \in Strokes(u)
        <3> SUFFICES ASSUME NEW j \in Strokes(s), j # k PROVE j \in Strokes(u)
            OBVIOUS
        <3>1. j \in Keys \ {k} /\ RoleOf(s, j) = "primary" /\ j \in s.previous
            BY <2>7 DEF Strokes
        <3>2. ~(s.resolution.key = j /\ s.resolution.role = "unknown")
            <4>1. s.resolution.key = j => j \in DualKeys
                BY <3>1, KeyFacts DEF Resolves, Resolved
            <4> QED BY <3>1, <4>1 DEF RoleOf
        <3> QED BY <2>5, <2>9, <3>1, <3>2 DEF Strokes
    <2>12. StickyHeld(u)
        <3> SUFFICES ASSUME u.sticky # NoKey PROVE u.sticky \in Strokes(u)
            BY DEF StickyHeld
        <3>1. CASE u.sticky = k
            BY <2>1, <2>2, <2>4, <3>1 DEF Emits
        <3>2. CASE u.sticky # k
            <4>1. u.sticky = s.sticky
                BY <2>1, <2>2, <3>2 DEF Emits
            <4> QED BY <2>11, <3>2, <4>1 DEF StickyHeld
        <3> QED BY <3>1, <3>2
    <2>13. RolesKept(u)
        BY <2>1, <2>2 DEF Emits, RolesKept
    <2> QED BY <2>1, <2>2, <2>4, <2>10, <2>12, <2>13 DEF Emits, Yields
<1> QED BY <1>7, <1>8

-----------------------------------------------------------------------------
(* Modifiers before scancodes: the invariant.                              *)

\* One step of ModifiersFirst.
StepMods ==
    \A k \in ShortcutKeys \cap (report'.codes \ report.codes):
       Len(kb.queue) < MaxFill /\ ~motion /\ kb.secondary = {}
           => k \in report.mods /\ k \in report'.mods

\* What is held depends on roles only.
LEMMA SameStrokes ==
    ASSUME NEW s, NEW t, t.previous = s.previous, t.resolution = s.resolution,
           t.secondary = s.secondary
    PROVE  /\ Strokes(t) = Strokes(s)
           /\ RolesKept(s) => RolesKept(t)
           /\ (StickyHeld(s) /\ t.sticky \in {s.sticky, NoKey}) => StickyHeld(t)
           /\ Holding(s, "unknown") <=> Holding(t, "unknown")
<1>1. \A k: RoleOf(t, k) = RoleOf(s, k)
    BY DEF RoleOf
<1>2. Strokes(t) = Strokes(s)
    BY <1>1 DEF Strokes
<1> QED BY <1>2 DEF RolesKept, StickyHeld, Holding

\* Steps that leave the roles, the output and the report alone.
LEMMA AsideLeads ==
    ASSUME Lead, SameOutput(kb, kb'), kb'.previous = kb.previous, kb'.resolution = kb.resolution,
           kb.vector \subseteq kb'.vector, Crowded(kb) => Crowded(kb'),
           queuing' = queuing, report' = report, motion => motion',
           \/ pc' = pc /\ at' = at /\ kb'.current = kb.current
           \/ pc \in {"idle", "input"} /\ pc' \in {"idle", "input"}
    PROVE  Lead' /\ StepMods
<1>1. /\ kb'.secondary = kb.secondary /\ kb'.sticky = kb.sticky /\ kb'.codes = kb.codes
      /\ "LayerHolds" \in kb'.vector => "LayerHolds" \in kb.vector
    BY DEF SameOutput
<1>2. /\ Strokes(kb') = Strokes(kb) /\ RolesKept(kb') /\ StickyHeld(kb')
      /\ Holding(kb, "unknown") <=> Holding(kb', "unknown")
    BY <1>1, SameStrokes DEF Lead
<1>3. StepMods
    BY DEF StepMods
<1>4. ShouldQueue(kb) => ShouldQueue(kb)'
    BY DEF ShouldQueue, isSet
<1>5. Calm => Calm'
    BY <1>2, <1>4 DEF Calm, Pending, Holding
<1>6. \A k: Covered(k) => Covered(k)'
    BY <1>1 DEF Covered
<1>7. \A k: Safe(k) => Safe(k)'
    BY <1>5, <1>6 DEF Safe, Crowded
<1>8. Reported' /\ LayersAsked'
    BY <1>1 DEF Lead, Reported, LayersAsked
<1>9. Leading'
    <2>1. CASE pc' = pc /\ at' = at
        BY <1>1, <1>2, <1>5, <1>6, <1>7, <2>1 DEF Lead, Leading, Crowded, Strokes, RoleOf
    <2>2. CASE pc \in {"idle", "input"} /\ pc' \in {"idle", "input"}
        BY <1>1, <1>2, <1>5, <1>6, <2>2 DEF Lead, Leading, Crowded, Strokes, RoleOf
    <2> QED BY <2>1, <2>2
<1>10. RolesKept(kb)' /\ StickyHeld(kb)'
    BY <1>2 DEF RolesKept, StickyHeld, Strokes, RoleOf
<1> QED BY <1>3, <1>8, <1>9, <1>10 DEF Lead

\* The world sets bits, and the pointer moves.
LEMMA WorldLeads ==
    ASSUME First, Lead, World
    PROVE  Lead' /\ StepMods
<1>1. kb \in KeyboardState
    BY DEF First, Inv, TypeOK
<1>2. PICK bits \in SUBSET (Bits \ {"LayerHolds", "ReportsChanged"}): kb' = kb \/ kb' = set(kb, bits)
    <2>1. /\ {"StateMatrix"} \in SUBSET (Bits \ {"LayerHolds", "ReportsChanged"})
          /\ {"NativeActions"} \in SUBSET (Bits \ {"LayerHolds", "ReportsChanged"})
          /\ {"MacroEngine"} \in SUBSET (Bits \ {"LayerHolds", "ReportsChanged"})
          /\ {"MouseController"} \in SUBSET (Bits \ {"LayerHolds", "ReportsChanged"})
        BY SilentBits
    <2> QED BY <2>1 DEF World, Scan, DebounceElapses, Rescan, NativeTimerExpires, MacroTimerExpires,
                        DelayElapses, PointerMoves
<1>3. /\ pc' = pc /\ at' = at /\ queuing' = queuing /\ report' = report /\ (motion => motion')
    BY DEF World, Scan, DebounceElapses, Rescan, NativeTimerExpires, MacroTimerExpires,
           DelayElapses, PointerMoves, cycle, output
<1>4. bits \in SUBSET Bits
    OBVIOUS
<1>5. /\ SameOutput(kb, kb') /\ kb'.queue = kb.queue /\ kb'.current = kb.current
      /\ kb'.previous = kb.previous /\ kb.vector \subseteq kb'.vector
    BY <1>1, <1>2, <1>4, OutputOfBits, SetsBits
<1>6. kb'.resolution = kb.resolution
    BY <1>1, <1>2 DEF set, KeyboardState
<1> QED BY <1>3, <1>5, <1>6, AsideLeads DEF Crowded

\* Input while the keystroke delay lasts: everything is queued.
LEMMA InputLeads ==
    ASSUME First, Lead, JustPreprocessInput \/ InputKey
    PROVE  Lead' /\ StepMods
<1>1. kb \in KeyboardState /\ {"NativePostponing"} \in SUBSET Bits /\ at \in Keys /\ Inv
    BY DEF First, Inv, TypeOK, Bits, PostponingBits
<1>2. CASE JustPreprocessInput
    <2>1. kb' = set(kb, {"NativePostponing"})
        BY <1>2 DEF JustPreprocessInput
    <2>2. /\ pc = "idle" /\ pc' = "input" /\ queuing' = queuing /\ report' = report /\ motion' = motion
        BY <1>2 DEF JustPreprocessInput, cycle, output
    <2>3. SameOutput(kb, kb')
        BY <1>1, <2>1, SilentBits, OutputOfBits
    <2>4. kb'.resolution = kb.resolution
        BY <1>1, <2>1 DEF set, KeyboardState
    <2>5. kb'.previous = kb.previous /\ kb'.queue = kb.queue /\ kb.vector \subseteq kb'.vector
        BY <1>1, <2>1, SetsBits
    <2> QED BY <2>2, <2>3, <2>4, <2>5, AsideLeads DEF Crowded
<1>3. CASE InputKey
    <2>1. /\ kb' = preprocess(kb, at) /\ pc = "input" /\ pc' \in {"input", "idle"} /\ PreprocessKey(at)
          /\ queuing' = queuing /\ report' = report /\ motion' = motion
        BY <1>3 DEF InputKey, NextKey, cycle, output
    <2>2. SameOutput(kb, kb') /\ SameRoles(kb, kb') /\ kb.vector \subseteq kb'.vector
        BY <2>1, OutputOfPreprocessed, RolesOfPreprocessed
    <2>3. kb' = kb \/ Keeps(kb, kb', Keys, 1) \/ kb'.queue = kb.queue
        BY <1>1, <2>1, PreprocessKeeps
    <2>4. Crowded(kb) => Crowded(kb')
        <3>1. Len(kb.queue) <= Len(kb'.queue)
            BY <1>1, <2>3, Lengths DEF Keeps
        <3>2. Len(kb.queue) \in Nat /\ Len(kb'.queue) \in Nat /\ MaxFill \in Nat
            BY <1>1, <2>2, Lengths, BufferAssumption DEF SameOutput
        <3> QED BY <3>1, <3>2 DEF Crowded
    <2> QED BY <2>1, <2>2, <2>4, AsideLeads DEF SameRoles
<1> QED BY <1>2, <1>3

\* What BeginCycle does to the output: the sticky modifiers go only if a key in its
\* secondary role asked for another look at the layers.
LEMMA OutputOfCycle ==
    ASSUME kb \in KeyboardState, NEW macro \in {"ended", "awake", "onKey", "onTime"},
           NEW postpones \in BOOLEAN, BeginCycle(macro, postpones)
    PROVE  /\ kb'.secondary = kb.secondary /\ "LayerHolds" \notin kb'.vector
           /\ \/ kb'.sticky = kb.sticky
              \/ kb'.sticky = NoKey /\ "LayerHolds" \in kb.vector
           /\ kb'.codes = IF pc' = "keys" THEN {} ELSE kb.codes
           /\ report' = report /\ motion' = motion
<1> DEFINE b == unset(kb, {"ReportsChanged"})
           m == continueMacro(b, macro, postpones)
           s == IF isSet(m, {"LayerHolds"}) THEN handleLayerChanges(m) ELSE m
           p == RunPostponedEvents(s)
<1>1. /\ b \in KeyboardState /\ b.secondary = kb.secondary /\ b.sticky = kb.sticky /\ b.codes = kb.codes
      /\ "LayerHolds" \in b.vector => "LayerHolds" \in kb.vector
    <2>1. {"ReportsChanged"} \in SUBSET Bits
        BY DEF Bits
    <2>2. b \in KeyboardState /\ b.vector = kb.vector \ {"ReportsChanged"}
        BY <2>1, ClearsBits
    <2>3. b.secondary = kb.secondary /\ b.sticky = kb.sticky /\ b.codes = kb.codes
        BY DEF unset, KeyboardState
    <2> QED BY <2>2, <2>3
<1>2. /\ IF isSet(p, {"NativeActions", "StateMatrix"})
         THEN kb' = resetActions(p) /\ pc' = "keys"
         ELSE kb' = p /\ pc' = "finish"
      /\ report' = report /\ motion' = motion
    BY DEF BeginCycle, output
<1> HIDE DEF b
<1>3. SameOutput(b, m)
    BY <1>1, OutputOfMacros
<1> HIDE DEF m
<1>4. /\ s \in KeyboardState /\ s.secondary = m.secondary /\ s.codes = m.codes
      /\ "LayerHolds" \notin s.vector
      /\ s.sticky = m.sticky \/ (s.sticky = NoKey /\ "LayerHolds" \in m.vector)
    BY <1>3, OutputOfLayers DEF SameOutput, isSet
<1> HIDE DEF s
<1>5. SameOutput(s, p)
    BY <1>4, OutputOfReplayed
<1> HIDE DEF p
<1>6. /\ kb'.secondary = p.secondary /\ kb'.sticky = p.sticky
      /\ "LayerHolds" \in kb'.vector => "LayerHolds" \in p.vector
      /\ kb'.codes = IF pc' = "keys" THEN {} ELSE p.codes
    BY <1>2, <1>5, OutputOfReset DEF SameOutput
<1>7. "LayerHolds" \notin p.vector /\ ("LayerHolds" \in m.vector => "LayerHolds" \in kb.vector)
    BY <1>1, <1>3, <1>4, <1>5 DEF SameOutput
<1>8. /\ p.secondary = kb.secondary /\ p.codes = kb.codes
      /\ p.sticky = kb.sticky \/ (p.sticky = NoKey /\ "LayerHolds" \in m.vector)
    BY <1>1, <1>3, <1>4, <1>5 DEF SameOutput
<1> QED BY <1>2, <1>6, <1>7, <1>8

\* A cycle begins: if somebody postponed and the queue is not crowded, it is calm.
LEMMA BeginCycleLeads ==
    ASSUME First, Lead, NEW macro \in {"ended", "awake", "onKey", "onTime"},
           NEW postpones \in BOOLEAN, BeginCycle(macro, postpones)
    PROVE  Lead' /\ StepMods
<1>1. kb \in KeyboardState /\ Visited /\ Leading /\ Reported /\ LayersAsked
    BY DEF First, Inv, TypeOK, Lead
<1>2. /\ kb' \in KeyboardState /\ kb'.resolution = kb.resolution /\ kb'.previous = kb.previous
      /\ \/ kb'.queue = kb.queue /\ kb'.current = kb.current
         \/ kb.queue # <<>> /\ kb'.queue = Tail(kb.queue)
      /\ "NativePostponing" \in kb.vector =>
           /\ queuing'
           /\ Len(kb.queue) <= MaxFill => kb'.queue = kb.queue /\ kb'.current = kb.current
      /\ pc = "idle" /\ at' = 1 /\ pc' \in {"keys", "finish"}
      /\ pc' = "finish" =>
           /\ "NativeActions" \notin kb.vector
           /\ "NativePostponing" \in kb'.vector <=> "NativePostponing" \in kb.vector
    BY <1>1, HolderOfCycle
<1>3. /\ kb'.secondary = kb.secondary /\ "LayerHolds" \notin kb'.vector
      /\ \/ kb'.sticky = kb.sticky
         \/ kb'.sticky = NoKey /\ "LayerHolds" \in kb.vector
      /\ kb'.codes = IF pc' = "keys" THEN {} ELSE kb.codes
      /\ report' = report /\ motion' = motion
    BY <1>1, OutputOfCycle
<1>4. /\ Strokes(kb') = Strokes(kb) /\ RolesKept(kb') /\ StickyHeld(kb')
      /\ Holding(kb, "unknown") <=> Holding(kb', "unknown")
    BY <1>2, <1>3, SameStrokes DEF Lead
<1>5. "NativePostponing" \in kb.vector => /\ Crowded(kb) => Crowded(kb')
                                          /\ ~Crowded(kb') => Len(kb.queue) <= MaxFill /\ Len(kb.queue) < BufferSize
    <2>1. /\ Len(kb.queue) \in Nat /\ MaxFill \in Nat /\ BufferSize \in Nat /\ MaxFill < BufferSize
          /\ Len(kb'.queue) \in Nat
        BY <1>1, <1>2, Lengths, BufferAssumption
    <2>2. kb.queue # <<>> => Len(Tail(kb.queue)) = Len(kb.queue) - 1
        BY <1>1, Queues, HeadTailProperties DEF KeyboardState
    <2>3. "NativePostponing" \in kb.vector =>
            \/ Len(kb'.queue) = Len(kb.queue)
            \/ Len(kb'.queue) = Len(kb.queue) - 1 /\ ~(Len(kb.queue) <= MaxFill)
        BY <1>2, <2>2
    <2> QED BY <2>1, <2>3 DEF Crowded
<1>6. \A k: Covered(k) => Covered(k)'
    <2>1. "LayerHolds" \in kb.vector => kb.secondary # {}
        BY <1>1 DEF LayersAsked
    <2> QED BY <1>3, <2>1 DEF Covered
<1>7. "NativePostponing" \in kb.vector /\ Calm => Calm' \/ Crowded(kb')
    <2> SUFFICES ASSUME "NativePostponing" \in kb.vector, Calm, ~Crowded(kb') PROVE Calm'
        OBVIOUS
    <2>1. queuing' /\ kb'.current = kb.current
        BY <1>2, <1>5
    <2>2. Len(kb.queue) # BufferSize
        BY <1>1, <1>5, Lengths
    <2>3. \A j \in Keys: Acted(kb, j)
        BY <1>1, <1>2, <2>2 DEF Visited, Full
    <2>4. \A j \in Keys: ~Pending(kb', j)
        BY <1>2, <2>1, <2>3 DEF Acted, Pending
    <2>5. ~Holding(kb', "unknown")
        BY <1>4 DEF Calm
    <2> QED BY <2>1, <2>4, <2>5 DEF Calm, ShouldQueue, Pending, Holding
<1>8. \A k \in kb.codes: Safe(k)'
    BY <1>1, <1>2, <1>3 DEF Reported, Safe
<1>9. ASSUME NEW k \in Strokes(kb)
      PROVE  Safe(k)' /\ (pc' = "finish" => k \in kb.codes \/ ("NativePostponing" \in kb'.vector /\ Crowded(kb')))
    <2>1. CASE k \in kb.codes
        BY <1>8, <2>1
    <2>2. CASE /\ "NativePostponing" \in kb.vector
               /\ Crowded(kb) \/ ("NativeActions" \in kb.vector /\ Calm /\ Covered(k))
        <3>1. Crowded(kb') \/ (Calm' /\ Covered(k)')
            BY <1>5, <1>6, <1>7, <2>2
        <3> QED BY <1>2, <1>5, <2>2, <3>1 DEF Safe, Crowded
    <2> QED BY <1>1, <1>2, <1>9, <2>1, <2>2 DEF Leading
<1>10. \A k \in Keys: ~(k < at')
    BY <1>2, FirstKey
<1>11. Leading'
    <2>1. CASE pc' = "keys"
        <3>1. Strokes(kb') \subseteq Keys
            BY KeyAssumption DEF Strokes
        <3> QED BY <1>3, <1>4, <1>9, <1>10, <2>1, <3>1 DEF Leading, Strokes, RoleOf
    <2>2. CASE pc' = "finish"
        BY <1>3, <1>4, <1>8, <1>9, <2>2 DEF Leading, Strokes, RoleOf, Crowded
    <2> QED BY <1>2, <2>1, <2>2
<1>12. Reported' /\ LayersAsked'
    BY <1>1, <1>2, <1>3 DEF Reported, LayersAsked
<1>13. RolesKept(kb)' /\ StickyHeld(kb)'
    BY <1>4 DEF RolesKept, StickyHeld, Strokes, RoleOf
<1>14. StepMods
    BY <1>3 DEF StepMods
<1> QED BY <1>11, <1>12, <1>13, <1>14 DEF Lead

\* What FinishCycle does to the output.
LEMMA OutputOfFinish ==
    ASSUME kb \in KeyboardState, FinishCycle
    PROVE  /\ kb'.codes = kb.codes /\ kb'.secondary = kb.secondary
           /\ kb'.vector \cap {"LayerHolds", "ReportsChanged"} = kb.vector \cap {"LayerHolds", "ReportsChanged"}
           /\ kb'.sticky \in {kb.sticky, NoKey} /\ (~motion => kb'.sticky = kb.sticky)
           /\ kb.sticky # NoKey /\ motion => motion'
           /\ LET merged == [codes |-> kb.codes, mods |-> {kb'.sticky, kb.lastMods} \ {NoKey}]
              IN  /\ report' \in {report, merged}
                  /\ "ReportsChanged" \in kb.vector => report' = merged
<1> DEFINE s == processMouse(kb)
           w == IF lastPostponing /\ ~isSet(s, PostponingBits) /\ s.queue # <<>>
                THEN set(s, {"Postponer"}) ELSE s
           merged == [codes |-> w.codes, mods |-> {w.sticky, w.lastMods} \ {NoKey}]
           sends == (motion /\ MouseRuns(kb)) \/ isSet(w, {"ReportsChanged", "ZeroScan"})
           changed == sends /\ merged # report
<1>1. /\ s \in KeyboardState /\ s.codes = kb.codes /\ s.secondary = kb.secondary
      /\ s.vector \cap {"LayerHolds", "ReportsChanged"} = kb.vector \cap {"LayerHolds", "ReportsChanged"}
      /\ s.sticky \in {kb.sticky, NoKey} /\ (~motion => s.sticky = kb.sticky)
      /\ s.lastMods = kb.lastMods
    BY OutputOfMouse
<1>2. /\ kb' \in {set(w, {"ZeroScan"}), unset(w, {"ZeroScan"})}
      /\ motion' = (motion /\ ~MouseRuns(kb))
      /\ report' = IF changed THEN merged ELSE report
    BY DEF FinishCycle
<1> HIDE DEF s
<1>3. SameOutput(s, w) /\ w.lastMods = s.lastMods
    <2>1. SameOutput(s, set(s, {"Postponer"})) /\ SameOutput(s, s)
        BY <1>1, SilentBits, OutputOfBits
    <2>2. set(s, {"Postponer"}).lastMods = s.lastMods
        BY <1>1 DEF set, KeyboardState
    <2> QED BY <2>1, <2>2
<1> HIDE DEF w
<1>4. SameOutput(w, kb')
    <2>1. SameOutput(w, set(w, {"ZeroScan"})) /\ SameOutput(w, unset(w, {"ZeroScan"}))
        BY <1>3, SilentBits, OutputOfBits DEF SameOutput
    <2> QED BY <1>2, <2>1
<1>5. kb.sticky # NoKey /\ motion => motion'
    BY <1>2 DEF MouseRuns
<1>6. "ReportsChanged" \in kb.vector => sends
    BY <1>1, <1>3 DEF SameOutput, isSet
<1>7. merged = [codes |-> kb.codes, mods |-> {kb'.sticky, kb.lastMods} \ {NoKey}]
    BY <1>1, <1>3, <1>4 DEF SameOutput
<1> HIDE DEF sends, merged
<1>8. report' \in {report, merged} /\ ("ReportsChanged" \in kb.vector => report' = merged)
    BY <1>2, <1>6
<1> QED BY <1>1, <1>3, <1>4, <1>5, <1>7, <1>8 DEF SameOutput

\* A cycle ends: the scancodes that are new in the report were covered.
LEMMA FinishCycleLeads ==
    ASSUME First, Lead, FinishCycle
    PROVE  Lead' /\ StepMods
<1> DEFINE merged == [codes |-> kb.codes, mods |-> {kb'.sticky, kb.lastMods} \ {NoKey}]
<1>1. kb \in KeyboardState /\ Leading /\ Reported /\ LayersAsked
    BY DEF First, Inv, TypeOK, Lead
<1>2. /\ SameRoles(kb, kb') /\ pc = "finish" /\ pc' = "idle" /\ kb'.queue = kb.queue
      /\ kb.vector \cap {"NativeActions", "Postponer"} \subseteq kb'.vector
    BY <1>1, RolesOfFinish
<1>3. /\ kb'.codes = kb.codes /\ kb'.secondary = kb.secondary
      /\ kb'.vector \cap {"LayerHolds", "ReportsChanged"} = kb.vector \cap {"LayerHolds", "ReportsChanged"}
      /\ kb'.sticky \in {kb.sticky, NoKey} /\ (~motion => kb'.sticky = kb.sticky)
      /\ kb.sticky # NoKey /\ motion => motion'
      /\ report' \in {report, merged}
      /\ "ReportsChanged" \in kb.vector => report' = merged
    BY <1>1, OutputOfFinish
<1>4. /\ Strokes(kb') = Strokes(kb) /\ RolesKept(kb') /\ StickyHeld(kb')
      /\ Holding(kb, "unknown") <=> Holding(kb', "unknown")
    BY <1>2, <1>3, SameStrokes DEF Lead, SameRoles
<1>5. "NativePostponing" \in kb.vector => "NativePostponing" \in kb'.vector
    BY <1>2 DEF SameRoles, PostponingBits
<1>6. merged.codes = kb.codes /\ merged.mods = {kb'.sticky, kb.lastMods} \ {NoKey}
    OBVIOUS
<1> HIDE DEF merged
<1>7. Reported' /\ LayersAsked'
    <2>1. kb'.codes \subseteq report'.codes
        BY <1>1, <1>2, <1>3, <1>6 DEF Reported
    <2>2. "LayerHolds" \in kb'.vector => \E d \in kb'.secondary: TRUE
        BY <1>1, <1>3 DEF LayersAsked
    <2> QED BY <1>2, <2>1, <2>2 DEF Reported, LayersAsked
<1>8. NoKey \notin ShortcutKeys
    BY KeyAssumption, KeyFacts
<1>9. StepMods
    <2> SUFFICES ASSUME NEW k \in ShortcutKeys, k \in report'.codes, k \notin report.codes,
                        Len(kb.queue) < MaxFill, ~motion, kb.secondary = {}
                 PROVE  k \in report.mods /\ k \in report'.mods
        BY DEF StepMods
    <2>1. report' = merged /\ k \in kb.codes
        BY <1>3, <1>6
    <2>2. ~Crowded(kb)
        BY <1>1, Lengths, BufferAssumption DEF Crowded
    <2>3. kb.sticky = k /\ k \in report.mods
        BY <1>1, <1>2, <2>1, <2>2 DEF Leading, Safe, Covered
    <2> QED BY <1>3, <1>6, <1>8, <2>1, <2>3
<1>10. Leading'
    <2> SUFFICES ASSUME NEW k \in Strokes(kb), k \notin kb.codes
                 PROVE  /\ "NativePostponing" \in kb'.vector
                        /\ Crowded(kb') \/ ("NativeActions" \in kb'.vector /\ Calm' /\ Covered(k)')
        BY <1>2, <1>3, <1>4 DEF Leading, Strokes, RoleOf, Crowded
    <2>1. /\ "NativePostponing" \in kb.vector
          /\ \/ Crowded(kb)
             \/ /\ {"NativeActions", "ReportsChanged"} \subseteq kb.vector
                /\ Calm /\ kb.sticky = k
        BY <1>1, <1>2 DEF Leading
    <2>2. Crowded(kb) => Crowded(kb')
        BY <1>2 DEF Crowded
    <2>3. ASSUME {"NativeActions", "ReportsChanged"} \subseteq kb.vector, Calm, kb.sticky = k
          PROVE  "NativeActions" \in kb'.vector /\ Calm' /\ Covered(k)'
        <3>1. k # NoKey
            BY <1>8 DEF Strokes
        <3>2. motion => motion'
            BY <1>3, <2>3, <3>1
        <3>3. ~motion => kb'.sticky = k /\ k \in report'.mods
            BY <1>3, <1>6, <2>3, <3>1
        <3>4. Calm'
            BY <1>2, <1>4, <1>5, <2>1, <2>3 DEF Calm, ShouldQueue, isSet, PostponingBits, Holding
        <3>5. Covered(k)'
            BY <3>2, <3>3 DEF Covered
        <3> QED BY <1>2, <2>3, <3>4, <3>5
    <2> QED BY <1>5, <2>1, <2>2, <2>3
<1>11. RolesKept(kb)' /\ StickyHeld(kb)'
    BY <1>4 DEF RolesKept, StickyHeld, Strokes, RoleOf
<1> QED BY <1>7, <1>9, <1>10, <1>11 DEF Lead

\* In a visit, t is the state between the preprocessing of the key and its action.
YieldOf(t) ==
    /\ VisitOf(t) /\ SameOutput(kb, t) /\ Yields(t, kb', at)
    /\ t.previous = kb.previous /\ t.resolution = kb.resolution
    /\ Strokes(t) = Strokes(kb) /\ kb.vector \subseteq kb'.vector
    /\ Crowded(kb) => Crowded(kb')
    /\ ShouldQueue(kb) /\ ~Crowded(kb') => (Pending(t, at) <=> Pending(kb, at))
    /\ Holding(t, "unknown") <=> Holding(kb, "unknown")

LEMMA VisitYields ==
    ASSUME First, Lead, UpdateKey
    PROVE  YieldOf(preprocess(kb, at)) /\ Resolves(kb')
<1> DEFINE t == preprocess(kb, at)
<1>1. kb \in KeyboardState /\ at \in Keys /\ kb' = processKey(t, at) /\ Resolves(kb)
    BY DEF First, Inv, TypeOK, UpdateKey
<1>2. VisitOf(t) /\ Resolves(kb')
    BY VisitTakesPlace
<1>3. SameOutput(kb, t)
    BY OutputOfPreprocessed
<1> HIDE DEF t
<1>4. /\ t \in KeyboardState /\ t.previous = kb.previous /\ t.resolution = kb.resolution
      /\ t.secondary = kb.secondary /\ t.sticky = kb.sticky /\ kb.vector \subseteq kb'.vector
    BY <1>2, <1>3 DEF VisitOf, SameRoles, SameOutput, Visits
<1>5. /\ Strokes(t) = Strokes(kb) /\ RolesKept(t) /\ StickyHeld(t) /\ Resolves(t)
      /\ Holding(t, "unknown") <=> Holding(kb, "unknown")
    BY <1>1, <1>4, SameStrokes DEF Lead, Resolves
<1>6. Yields(t, kb', at)
    BY <1>1, <1>4, <1>5, ProcessYields
<1>7. Crowded(kb) => Crowded(kb')
    BY <1>2, BufferAssumption DEF VisitOf, Crowded
<1>8. ShouldQueue(kb) /\ ~Crowded(kb') => (Pending(t, at) <=> Pending(kb, at))
    BY <1>2, <1>4, <1>7 DEF VisitOf, Pending
<1> QED BY <1>2, <1>3, <1>4, <1>5, <1>6, <1>7, <1>8 DEF YieldOf, t

\* Nobody but a key that was touched can be undecided or pending after its visit.
LEMMA VisitIsQuiet ==
    ASSUME First, UpdateKey, NEW t, YieldOf(t), ~Crowded(kb')
    PROVE  /\ kb'.resolution.key # at /\ Holding(kb', "unknown") =>
                kb.resolution.key # at /\ Holding(kb, "unknown")
           /\ kb'.resolution.key = at /\ Holding(kb', "unknown") => Touched(t, at)
           /\ \A j \in Keys: pc' = "keys" /\ j >= at' /\ Pending(kb', j) =>
                j # at /\ j >= at /\ Pending(kb, j)
           /\ Pending(t, at) /\ Holding(kb, "unknown") => kb.resolution.key = at
           /\ Touched(t, at) => \A j \in Keys: j # at /\ j >= at => ~Pending(kb, j)
<1>1. /\ at \in Keys /\ at >= at /\ pc = "keys" /\ Inv /\ HeldBack /\ Resolves(kb) /\ Visited
    BY KeyFacts DEF First, Inv, TypeOK, UpdateKey
<1>2. /\ VisitOf(t) /\ t.previous = kb.previous /\ t.resolution = kb.resolution
      /\ (ShouldQueue(kb) => (Pending(t, at) <=> Pending(kb, at))) /\ ~Crowded(kb)
      /\ Holding(t, "unknown") <=> Holding(kb, "unknown")
    BY DEF YieldOf
<1>3. /\ \A k \in Keys: k # at => (pc' = "keys" /\ k >= at' <=> k >= at)
      /\ ~(pc' = "keys" /\ at >= at')
    BY <1>1, KeysToCome
<1>4. kb'.previous \subseteq Keys /\ kb.previous \subseteq Keys
    BY <1>2 DEF VisitOf, KeyboardState
<1>5. ASSUME kb'.resolution.key # at, Holding(kb', "unknown")
      PROVE  kb.resolution.key # at /\ Holding(kb, "unknown")
    BY <1>2, <1>4, <1>5 DEF VisitOf, Visits, Holding
<1>6. ASSUME kb'.resolution.key = at, Holding(kb', "unknown")
      PROVE  Touched(t, at)
    <2>1. at \in t.current \cup t.previous
        BY <1>2, <1>6 DEF VisitOf, Holding
    <2> QED BY <1>2, <1>6, <2>1 DEF VisitOf, Visits, Holding, Touched
<1>7. \A j \in Keys: pc' = "keys" /\ j >= at' /\ Pending(kb', j) =>
        j # at /\ j >= at /\ Pending(kb, j)
    BY <1>2, <1>3 DEF VisitOf, Pending
<1>8. Holding(kb, "unknown") => ShouldQueue(kb)
    BY <1>1 DEF HeldBack, ShouldQueue, isSet, PostponingBits
<1>9. Pending(t, at) /\ Holding(kb, "unknown") => kb.resolution.key = at
    BY <1>1, <1>2, <1>8 DEF HeldBack
<1>10. ASSUME Touched(t, at), NEW j \in Keys, j # at, j >= at, Pending(kb, j)
       PROVE  FALSE
    <2>1. ShouldQueue(kb)
        BY <1>1, <1>10 DEF Visited, Acted, Pending
    <2>2. /\ Holding(kb, "unknown") => j = kb.resolution.key
          /\ Pending(kb, at) => j = at
        BY <1>1, <1>2, <1>10 DEF HeldBack
    <2> QED BY <1>2, <1>10, <2>1, <2>2 DEF Touched
<1> QED BY <1>5, <1>6, <1>7, <1>9, <1>10

\* A calm cycle stays calm.
LEMMA VisitKeepsCalm ==
    ASSUME First, UpdateKey, NEW t, YieldOf(t), ~Crowded(kb'), Calm
    PROVE  ~Touched(t, at) /\ Calm'
<1>1. /\ at \in Keys /\ at >= at /\ pc = "keys" /\ queuing' = queuing
    BY KeyFacts DEF First, Inv, TypeOK, UpdateKey, cycle
<1>2. ~Touched(t, at)
    BY <1>1 DEF YieldOf, Touched, Calm
<1>3. ~Holding(kb', "unknown")
    BY <1>2, VisitIsQuiet DEF Calm
<1>4. \A j \in Keys: pc' = "keys" /\ j >= at' => ~Pending(kb', j)
    BY <1>1, VisitIsQuiet DEF Calm
<1>5. ShouldQueue(kb)'
    BY <1>1 DEF Calm, ShouldQueue, isSet, YieldOf
<1> QED BY <1>2, <1>3, <1>4, <1>5 DEF Calm, Holding, Pending

\* The visit of a shortcut that was pressed calms the cycle.
LEMMA VisitCalms ==
    ASSUME First, UpdateKey, NEW t, YieldOf(t), ~Crowded(kb'), Resolves(kb'),
           Touched(t, at), at \in Strokes(kb'), "NativePostponing" \in kb'.vector
    PROVE  Calm'
<1>1. ~(kb'.resolution.key = at /\ Holding(kb', "unknown"))
    <2>1. kb'.resolution.key = at => at \in DualKeys
        <3>1. at # NoKey
            BY KeyFacts DEF First, Inv, TypeOK
        <3> QED BY <3>1 DEF Resolves, Resolved
    <2> QED BY <2>1 DEF Strokes, RoleOf, Holding
<1>2. ~(kb'.resolution.key # at /\ Holding(kb', "unknown"))
    BY VisitIsQuiet DEF Touched, YieldOf
<1>3. \A j \in Keys: pc' = "keys" /\ j >= at' => ~Pending(kb', j)
    BY VisitIsQuiet
<1>4. ShouldQueue(kb)'
    BY DEF ShouldQueue, isSet, PostponingBits
<1> QED BY <1>1, <1>2, <1>3, <1>4 DEF Calm, Holding, Pending

\* The visit of a key.
LEMMA UpdateKeyLeads ==
    ASSUME First, Lead, UpdateKey
    PROVE  Lead' /\ StepMods
<1> DEFINE t == preprocess(kb, at)
<1>1. /\ at \in Keys /\ at >= at /\ pc = "keys" /\ report' = report /\ motion' = motion
      /\ Inv /\ HeldBack /\ Leading /\ Reported /\ LayersAsked
    BY KeyFacts DEF First, Lead, Inv, TypeOK, UpdateKey, output
<1>2. /\ \A k \in Keys: k # at => (pc' = "keys" /\ k >= at' <=> k >= at)
      /\ ~(pc' = "keys" /\ at >= at') /\ pc' \in {"keys", "finish"}
    BY <1>1, KeysToCome
<1>3. at' \in Nat /\ \A k \in Keys: k \in Nat
    <2>1. at' = 1 \/ at' = at + 1
        BY DEF UpdateKey, NextKey
    <2> QED BY <1>1, <2>1, KeyFacts
<1>4. YieldOf(t) /\ Resolves(kb')
    BY VisitYields
<1> HIDE DEF t
<1>5. \A k \in Keys: pc' = "keys" => (k < at' <=> k < at \/ k = at)
    BY <1>1, <1>2, <1>3
<1>6. /\ VisitOf(t) /\ kb.vector \subseteq kb'.vector /\ (Crowded(kb) => Crowded(kb'))
      /\ t.secondary = kb.secondary /\ t.codes = kb.codes /\ t.sticky = kb.sticky
      /\ Strokes(t) = Strokes(kb) /\ t.resolution = kb.resolution
      /\ Holding(t, "unknown") <=> Holding(kb, "unknown")
      /\ t.vector \cap {"LayerHolds", "ReportsChanged"} = kb.vector \cap {"LayerHolds", "ReportsChanged"}
      /\ Yields(t, kb', at)
    BY <1>4 DEF YieldOf, SameOutput
<1>7. ShortcutKeys \subseteq Keys /\ Strokes(kb) \subseteq Keys /\ Strokes(kb') \subseteq Keys
      /\ kb.codes \subseteq Keys /\ kb.secondary \subseteq Keys
    BY <1>6, KeyAssumption DEF Strokes, VisitOf, KeyboardState
<1>8. Calm => Crowded(kb') \/ (~Touched(t, at) /\ Calm')
    BY <1>4, VisitKeepsCalm
<1>9. ASSUME Calm, ~Crowded(kb')
      PROVE  /\ kb'.secondary = kb.secondary
             /\ kb'.sticky = kb.sticky \/ (kb.sticky = at /\ kb'.codes = kb.codes)
    BY <1>6, <1>8, <1>9 DEF Yields
<1>10. \A k \in Strokes(kb') \ {at}:
          \/ k \in Strokes(kb)
          \/ Crowded(kb') /\ kb.resolution.key = k /\ Holding(kb, "unknown")
    <2> SUFFICES ASSUME NEW k \in Strokes(kb'), k # at, k \notin Strokes(kb)
                 PROVE  Crowded(kb') /\ kb.resolution.key = k /\ Holding(kb, "unknown")
        OBVIOUS
    <2>1. kb.resolution.key = k /\ Holding(kb, "unknown") /\ Pending(t, at)
        BY <1>6 DEF Yields
    <2>2. Crowded(kb')
        BY <1>4, <2>1, VisitIsQuiet
    <2> QED BY <2>1, <2>2
<1>11. Reported'
    <2>1. kb'.codes = kb.codes \/ "ReportsChanged" \in kb'.vector
        BY <1>6 DEF Yields
    <2>2. pc' = "keys" => \A k \in kb'.codes: k < at'
        BY <1>1, <1>5, <1>6, <1>7 DEF Reported, Yields
    <2> QED BY <1>1, <1>2, <1>6, <2>1, <2>2 DEF Reported
<1>12. LayersAsked'
    <2> SUFFICES ASSUME "LayerHolds" \in kb'.vector
                 PROVE  \E d \in kb'.secondary: pc' = "keys" => d < at'
        BY DEF LayersAsked
    <2>1. "LayerHolds" \in kb.vector \/ at \in kb'.secondary
        BY <1>6 DEF Yields
    <2>2. CASE "LayerHolds" \in kb.vector
        <3>1. PICK d \in kb.secondary: d < at
            BY <1>1, <2>2 DEF LayersAsked
        <3>2. d \in Keys /\ d # at
            BY <1>1, <1>3, <1>7, <3>1
        <3> QED BY <1>5, <1>6, <3>1, <3>2 DEF Yields
    <2>3. CASE at \in kb'.secondary
        BY <1>1, <1>5, <2>3
    <2> QED BY <2>1, <2>2, <2>3
<1>13. ASSUME NEW k \in ShortcutKeys,
              k \in kb'.codes \/ (pc' = "keys" /\ k \in Strokes(kb') /\ k >= at')
       PROVE  Safe(k)'
    <2>1. CASE Crowded(kb')
        BY <2>1 DEF Safe, Crowded
    <2>2. CASE ~Crowded(kb')
        <3>1. Safe(k)
            <4>1. CASE k \in kb.codes
                BY <1>1, <4>1 DEF Leading
            <4>2. CASE k \in kb'.codes /\ k \notin kb.codes
                <5>1. k = at /\ k \in Strokes(kb)
                    BY <1>6, <4>2 DEF Yields
                <5> QED BY <1>1, <5>1 DEF Leading
            <4>3. CASE pc' = "keys" /\ k \in Strokes(kb') /\ k >= at'
                <5>1. k # at /\ k >= at
                    BY <1>2, <1>7, <4>3
                <5>2. k \in Strokes(kb)
                    BY <1>10, <2>2, <4>3, <5>1
                <5> QED BY <1>1, <5>1, <5>2 DEF Leading
            <4> QED BY <1>13, <4>1, <4>2, <4>3
        <3>2. CASE k \in report.codes
            BY <1>1, <3>2 DEF Safe
        <3>3. CASE Crowded(kb)
            BY <1>6, <2>2, <3>3
        <3>4. CASE Calm /\ Covered(k)
            <4>1. Calm' /\ kb'.secondary = kb.secondary
                BY <1>8, <1>9, <2>2, <3>4
            <4>2. kb.sticky = k => kb'.sticky = k
                <5>1. ~(k = at /\ kb'.codes = kb.codes)
                    BY <1>1, <1>2, <1>3, <1>13 DEF Reported
                <5> QED BY <1>9, <2>2, <3>4, <5>1
            <4> QED BY <1>1, <3>4, <4>1, <4>2 DEF Covered, Safe
        <3> QED BY <3>1, <3>2, <3>3, <3>4 DEF Safe
    <2> QED BY <2>1, <2>2
<1>14. ASSUME NEW k \in Strokes(kb'), pc' = "keys" => k < at', k \notin kb'.codes
       PROVE  /\ "NativePostponing" \in kb'.vector
              /\ \/ Crowded(kb')
                 \/ {"NativeActions", "ReportsChanged"} \subseteq kb'.vector /\ Calm' /\ kb'.sticky = k
    <2>1. CASE k = at
        <3>1. /\ {"NativeActions", "NativePostponing", "ReportsChanged"} \subseteq kb'.vector
              /\ kb'.sticky = k /\ Touched(t, at)
            BY <1>6, <1>14, <2>1 DEF Yields
        <3>2. Crowded(kb') \/ Calm'
            BY <1>4, <2>1, <3>1, VisitCalms
        <3> QED BY <3>1, <3>2
    <2>2. CASE k # at /\ k \in Strokes(kb)
        <3>1. k < at /\ k \notin kb.codes
            <4>1. k \notin kb.codes
                BY <1>6, <1>14 DEF Yields
            <4>2. ~(k >= at)
                BY <1>2, <1>3, <1>7, <1>14, <2>2
            <4> QED BY <1>1, <1>3, <1>7, <4>1, <4>2
        <3>2. /\ "NativePostponing" \in kb.vector
              /\ \/ Crowded(kb)
                 \/ {"NativeActions", "ReportsChanged"} \subseteq kb.vector /\ Calm /\ kb.sticky = k
            BY <1>1, <2>2, <3>1 DEF Leading
        <3>3. CASE Crowded(kb')
            BY <1>6, <3>2, <3>3
        <3>4. CASE ~Crowded(kb')
            BY <1>6, <1>8, <1>9, <2>2, <3>2, <3>4
        <3> QED BY <3>3, <3>4
    <2>3. CASE k # at /\ k \notin Strokes(kb)
        <3>1. Crowded(kb') /\ kb.resolution.key = k /\ Holding(kb, "unknown")
            BY <1>10, <1>14, <2>3
        <3>2. ~(k >= at)
            BY <1>2, <1>3, <1>7, <1>14, <2>3
        <3>3. "NativePostponing" \in kb.vector
            BY <1>1, <3>1, <3>2 DEF HeldBack, ToCome
        <3> QED BY <1>6, <3>1, <3>3
    <2> QED BY <2>1, <2>2, <2>3
<1>15. Leading'
    BY <1>2, <1>13, <1>14 DEF Leading, Strokes, RoleOf, Crowded
<1>16. RolesKept(kb)' /\ StickyHeld(kb)'
    BY <1>6 DEF Yields, RolesKept, StickyHeld, Strokes, RoleOf
<1>17. StepMods
    BY <1>1 DEF StepMods
<1> QED BY <1>11, <1>12, <1>15, <1>16, <1>17 DEF Lead

\* Each step keeps the invariant and sends modifiers before scancodes.
LEMMA EveryStepLeads == First /\ Lead /\ [Next]_vars => Lead' /\ StepMods
<1> SUFFICES ASSUME First, Lead, [Next]_vars PROVE Lead' /\ StepMods
    OBVIOUS
<1>1. CASE MainLoop
    BY <1>1, InputLeads, BeginCycleLeads, UpdateKeyLeads, FinishCycleLeads DEF MainLoop
<1>2. CASE World
    BY <1>2, WorldLeads
<1>3. CASE UNCHANGED vars
    <2>1. /\ kb' = kb /\ pc' = pc /\ at' = at /\ queuing' = queuing /\ report' = report
          /\ motion' = motion
        BY <1>3 DEF vars, cycle, output
    <2>2. SameOutput(kb, kb')
        BY <2>1 DEF SameOutput, First, Inv, TypeOK
    <2> QED BY <2>1, <2>2, AsideLeads DEF Crowded
<1> QED BY <1>1, <1>2, <1>3 DEF Next

\* In every reachable state the modifiers of a shortcut are ahead of its scancode.
LEMMA LeadInvariant == Spec => [](First /\ Lead)
<1>1. Init => Lead
    <2> SUFFICES ASSUME Init PROVE Lead
        OBVIOUS
    <2>1. /\ kb.resolution.role = "unknown" /\ kb.sticky = NoKey /\ kb.codes = {}
          /\ kb.vector = {} /\ kb.previous = {} /\ pc = "idle"
        BY DEF Init
    <2> QED BY <2>1 DEF Lead, RolesKept, StickyHeld, Reported, LayersAsked, Leading, Strokes
<1>2. First /\ Lead /\ [Next]_vars => Lead'
    BY EveryStepLeads
<1> QED BY <1>1, <1>2, FirstInvariant, PTL DEF Spec

\* A shortcut's scancode is reported only together with its modifiers and after a
\* report that had them (applyKeystrokePrimary postpones it by a cycle, and everybody
\* else with it): for any keys, roles, macros and scanner, as long as the queue is
\* below its limit and neither the pointer nor a layer clears the modifiers.
THEOREM ShortcutsInOrder == Spec => ModifiersFirst
<1>1. First /\ Lead /\ [Next]_vars => [StepMods]_report
    BY EveryStepLeads
<1>2. [StepMods]_report <=>
        [\A k \in ShortcutKeys \cap (report'.codes \ report.codes):
            Len(kb.queue) < MaxFill /\ ~motion /\ kb.secondary = {}
                => k \in report.mods /\ k \in report'.mods]_report
    BY DEF StepMods
<1> QED BY <1>1, <1>2, LeadInvariant, PTL DEF Spec, ModifiersFirst
=============================================================================

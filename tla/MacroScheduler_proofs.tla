----------------------- MODULE MacroScheduler_proofs -----------------------
(***************************************************************************)
(* Proofs about MacroScheduler, for every pool size, batch size and set of *)
(* commands.  First the circle of the run queue as a set with a successor  *)
(* function, then the operators of MacroSlots one by one, then the steps.  *)
(* The second half is about who wakes a sleeping macro: what the same      *)
(* operators do to the macros themselves, and that every sleeper has a     *)
(* caller's call, an armed timer or a wish for key events to wake it.      *)
(***************************************************************************)
EXTENDS MacroScheduler, FiniteSetTheorems, WellFoundedInduction, TLAPS

-----------------------------------------------------------------------------
(* Circles.                                                                *)

\* Only the successors inside the circle matter.
LEMMA CircleAgrees ==
    ASSUME NEW C, NEW f, NEW g, Circle(C, f), \A i \in C : f[i] = g[i]
    PROVE  Circle(C, g)
BY DEF Circle

\* A new element i put after q leaves a circle.
LEMMA CircleInsert ==
    ASSUME NEW C, NEW f, NEW g, NEW q \in C, NEW i, i \notin C, Circle(C, f),
           g[i] = f[q], g[q] = i, \A j \in C \ {q} : g[j] = f[j]
    PROVE  Circle(C \cup {i}, g)
<1>1. \A j \in C \cup {i} : g[j] \in C \cup {i}
    BY DEF Circle
<1>2. ASSUME NEW T \in SUBSET (C \cup {i}), T # {}, \A j \in T : g[j] \in T
      PROVE  T = C \cup {i}
    <2>1. \A j \in T \ {i} : f[j] \in T \ {i}
        <3> SUFFICES ASSUME NEW j \in T \ {i} PROVE f[j] \in T \ {i}
            OBVIOUS
        <3>1. j \in C /\ f[j] \in C
            BY DEF Circle
        <3>2. CASE j = q
            BY <1>2, <3>1, <3>2
        <3>3. CASE j # q
            BY <1>2, <3>1, <3>3
        <3> QED BY <3>2, <3>3
    <2>2. T \ {i} # {}
        <3>1. CASE i \in T
            <4>1. f[q] \in T /\ f[q] \in C
                BY <1>2, <3>1 DEF Circle
            <4> QED BY <4>1
        <3> QED BY <1>2, <3>1
    <2>3. T \ {i} = C
        BY <2>1, <2>2 DEF Circle
    <2> QED BY <1>2, <2>3
<1> QED BY <1>1, <1>2 DEF Circle

\* No element of a finite circle has two predecessors.
LEMMA CircleInjective ==
    ASSUME NEW C, NEW f, IsFiniteSet(C), Circle(C, f),
           NEW i \in C, NEW j \in C, f[i] = f[j]
    PROVE  i = j
<1> DEFINE h == [k \in C |-> f[k]]
           T == {f[k] : k \in C}
<1>1. T \in SUBSET C /\ T # {} /\ \A k \in T : f[k] \in T
    BY DEF Circle
<1>2. T = C
    BY <1>1 DEF Circle
<1>3. h \in [C -> C]
    BY DEF Circle
<1>4. \A t \in C : \E k \in C : h[k] = t
    BY <1>2
<1>5. h \in Surjection(C, C)
    BY <1>3, <1>4 DEF Surjection
<1>6. h \in Injection(C, C)
    <2> HIDE DEF h
    <2> QED BY <1>5, FS_Surjection
<1> QED
    <2>1. h[i] = h[j]
        OBVIOUS
    <2> QED BY <1>6, <2>1 DEF Injection, IsInjective

\* Taking out c, whose predecessor p is made to skip it, leaves a circle.
LEMMA CircleRemove ==
    ASSUME NEW C, NEW f, NEW g, NEW p \in C, NEW c \in C, IsFiniteSet(C),
           Circle(C, f), f[p] = c, g[p] = f[c], \A j \in C \ {p} : g[j] = f[j]
    PROVE  Circle(C \ {c}, g)
<1>1. CASE p = c
    <2>1. {c} \in SUBSET C /\ {c} # {} /\ \A i \in {c} : f[i] \in {c}
        BY <1>1
    <2>2. {c} = C
        BY <2>1 DEF Circle
    <2> QED BY <2>2 DEF Circle
<1>2. CASE p # c
    <2>1. \A j \in C : f[j] = c => j = p
        BY CircleInjective
    <2>2. f[c] # c
        BY <1>2, <2>1
    <2>3. \A j \in C \ {c} : g[j] \in C \ {c}
        BY <2>1, <2>2 DEF Circle
    <2>4. ASSUME NEW T \in SUBSET (C \ {c}), T # {}, \A j \in T : g[j] \in T
          PROVE  T = C \ {c}
        <3>1. CASE p \in T
            <4>1. T \cup {c} \in SUBSET C /\ T \cup {c} # {}
                OBVIOUS
            <4>2. \A j \in T \cup {c} : f[j] \in T \cup {c}
                BY <2>4, <3>1
            <4>3. T \cup {c} = C
                BY <4>1, <4>2 DEF Circle
            <4> QED BY <4>3
        <3>2. CASE p \notin T
            <4>1. \A j \in T : f[j] \in T
                BY <2>4, <3>2
            <4>2. T = C
                BY <2>4, <4>1 DEF Circle
            <4> QED BY <4>2
        <3> QED BY <3>1, <3>2
    <2> QED BY <2>3, <2>4 DEF Circle
<1> QED BY <1>1, <1>2

-----------------------------------------------------------------------------
(* The run queue operators.                                                *)

\* The pool is a finite set of slots, the first of which is slot 0.
LEMMA SlotsFacts == /\ IsFiniteSet(Slots) /\ Slots \subseteq Nat /\ 0 \in Slots
                    /\ NoSlot \notin Slots
<1>1. IsFiniteSet(Slots)
    BY PoolAssumption, FS_Interval DEF Slots
<1> QED BY <1>1, PoolAssumption DEF Slots, NoSlot

\* The run queue is a finite set of slots.
LEMMA ScheduledFinite ==
    ASSUME NEW n \in Pool
    PROVE  IsFiniteSet(n.scheduled) /\ n.scheduled \subseteq Slots
<1>1. n.scheduled \in SUBSET Slots
    BY DEF Pool
<1> QED BY <1>1, SlotsFacts, FS_Subset

\* Nobody is scheduled exactly when nobody is counted.
LEMMA ActiveCount ==
    ASSUME NEW n \in Pool, Ring(n)
    PROVE  n.activeSlotCount = 0 <=> n.scheduled = {}
BY ScheduledFinite, FS_EmptySet DEF Ring

\* scheduleSlot adds one slot to the circle and keeps it linked.
LEMMA ScheduleSlot ==
    ASSUME NEW n \in Pool, Ring(n), NEW i \in Slots \ n.scheduled,
           NEW r, r = scheduleSlot(n, i)
    PROVE  /\ r \in Pool
           /\ Ring(r)
           /\ Linked(n) => Linked(r)
           /\ r.scheduled = n.scheduled \cup {i}
           /\ r.activeSlotCount = n.activeSlotCount + 1
           /\ r.remainingCount = n.remainingCount + 1
           /\ n.scheduled # {} => r.currentSlotIdx = n.currentSlotIdx
           /\ r.playing = n.playing /\ r.sleeping = n.sleeping
           /\ r.parent = n.parent
<1>1. Cardinality(n.scheduled \cup {i}) = n.activeSlotCount + 1
    BY ScheduledFinite, FS_AddElement DEF Ring
<1>2. CASE n.activeSlotCount = 0
    <2>1. n.scheduled = {}
        BY <1>2, ActiveCount
    <2>2. r = [n EXCEPT !.scheduled = @ \cup {i}, !.nextSlot[i] = i,
                   !.previousSlotIdx = i, !.currentSlotIdx = i, !.lastQueuedSlot = i,
                   !.activeSlotCount = @ + 1, !.remainingCount = @ + 1]
        BY <1>2 DEF scheduleSlot
    <2>3. r \in Pool
        <3>1. r = [n EXCEPT !.scheduled = n.scheduled \cup {i},
                       !.nextSlot = [n.nextSlot EXCEPT ![i] = i],
                       !.previousSlotIdx = i, !.currentSlotIdx = i, !.lastQueuedSlot = i,
                       !.activeSlotCount = n.activeSlotCount + 1,
                       !.remainingCount = n.remainingCount + 1]
            BY <2>2
        <3>2. /\ n.scheduled \cup {i} \in SUBSET Slots
              /\ [n.nextSlot EXCEPT ![i] = i] \in [Slots -> Slots]
              /\ n.activeSlotCount + 1 \in Nat /\ n.remainingCount + 1 \in Nat
            BY DEF Pool
        <3> QED BY <3>1, <3>2 DEF Pool
    <2>4. /\ r.scheduled = {i} /\ r.nextSlot[i] = i /\ r.activeSlotCount = 1
          /\ r.currentSlotIdx = i /\ r.previousSlotIdx = i /\ r.lastQueuedSlot = i
          /\ r.remainingCount = n.remainingCount + 1
          /\ r.playing = n.playing /\ r.sleeping = n.sleeping /\ r.parent = n.parent
        BY <1>2, <2>1, <2>2 DEF Pool
    <2>5. Circle(r.scheduled, r.nextSlot)
        BY <2>4 DEF Circle
    <2> QED BY <1>1, <1>2, <2>1, <2>3, <2>4, <2>5 DEF Ring, Linked
<1>3. CASE n.activeSlotCount # 0
    <2> DEFINE q == n.lastQueuedSlot
    <2>1. n.scheduled # {} /\ q \in n.scheduled
        BY <1>3, ActiveCount DEF Ring
    <2>2. r = [n EXCEPT !.scheduled = @ \cup {i},
                       !.nextSlot = [@ EXCEPT ![i] = n.nextSlot[q], ![q] = i],
                       !.lastQueuedSlot = i,
                       !.previousSlotIdx = IF q = @ THEN i ELSE @,
                       !.activeSlotCount = @ + 1, !.remainingCount = @ + 1]
        BY <1>3 DEF scheduleSlot
    <2>3. r \in Pool
        <3> DEFINE f == [n.nextSlot EXCEPT ![i] = n.nextSlot[q], ![q] = i]
                   p == IF q = n.previousSlotIdx THEN i ELSE n.previousSlotIdx
        <3>1. r = [n EXCEPT !.scheduled = n.scheduled \cup {i}, !.nextSlot = f,
                       !.previousSlotIdx = p, !.currentSlotIdx = n.currentSlotIdx,
                       !.lastQueuedSlot = i,
                       !.activeSlotCount = n.activeSlotCount + 1,
                       !.remainingCount = n.remainingCount + 1]
            BY <2>2 DEF Pool
        <3>2. /\ n.scheduled \cup {i} \in SUBSET Slots
              /\ f \in [Slots -> Slots] /\ p \in Slots /\ n.currentSlotIdx \in Slots
              /\ n.activeSlotCount + 1 \in Nat /\ n.remainingCount + 1 \in Nat
            BY DEF Pool
        <3> HIDE DEF f, p
        <3> QED BY <3>1, <3>2 DEF Pool
    <2>4. /\ r.scheduled = n.scheduled \cup {i}
          /\ r.nextSlot = [n.nextSlot EXCEPT ![i] = n.nextSlot[q], ![q] = i]
          /\ r.lastQueuedSlot = i
          /\ r.currentSlotIdx = n.currentSlotIdx
          /\ r.previousSlotIdx = IF q = n.previousSlotIdx THEN i ELSE n.previousSlotIdx
          /\ r.activeSlotCount = n.activeSlotCount + 1
          /\ r.remainingCount = n.remainingCount + 1
          /\ r.playing = n.playing /\ r.sleeping = n.sleeping /\ r.parent = n.parent
        BY <2>2 DEF Pool
    <2>5. /\ r.nextSlot[i] = n.nextSlot[q] /\ r.nextSlot[q] = i
          /\ \A j \in n.scheduled \ {q} : r.nextSlot[j] = n.nextSlot[j]
        BY <2>1, <2>4, ScheduledFinite DEF Pool
    <2>6. Circle(r.scheduled, r.nextSlot)
        <3>1. Circle(n.scheduled, n.nextSlot)
            BY DEF Ring
        <3>2. Circle(n.scheduled \cup {i}, r.nextSlot)
            <4> HIDE DEF q
            <4> QED BY <2>1, <2>5, <3>1, CircleInsert
        <3> QED BY <2>4, <3>2
    <2>7. Linked(n) => Linked(r)
        BY <2>1, <2>4, <2>5 DEF Linked, Ring
    <2> QED BY <1>1, <2>1, <2>3, <2>4, <2>6, <2>7 DEF Ring
<1> QED BY <1>2, <1>3 DEF Pool

\* unscheduleCurrentSlot takes the current slot out of a linked circle.
LEMMA UnscheduleCurrent ==
    ASSUME NEW n \in Pool, Ring(n), Linked(n), NEW s \in n.scheduled,
           s = n.currentSlotIdx, NEW r, r = unscheduleCurrentSlot(n, s)
    PROVE  /\ r \in Pool
           /\ Ring(r)
           /\ r.scheduled = n.scheduled \ {s}
           /\ r.activeSlotCount = n.activeSlotCount - 1
           /\ r.remainingCount = n.remainingCount
           /\ r.playing = n.playing /\ r.sleeping = n.sleeping
           /\ r.parent = n.parent
<1> DEFINE p == n.previousSlotIdx
           f == [n.nextSlot EXCEPT ![p] = n.nextSlot[s]]
           q == IF n.lastQueuedSlot = s THEN p ELSE n.lastQueuedSlot
<1>1. /\ s \in Slots /\ p \in n.scheduled /\ n.nextSlot[p] = s
      /\ n.lastQueuedSlot \in n.scheduled /\ n.scheduled \subseteq Slots
    BY ScheduledFinite DEF Ring, Linked
<1>2. r = [n EXCEPT !.scheduled = n.scheduled \ {s}, !.nextSlot = f,
                    !.lastQueuedSlot = q, !.currentSlotIdx = p,
                    !.activeSlotCount = n.activeSlotCount - 1]
    BY DEF unscheduleCurrentSlot, Pool
<1>3. n.activeSlotCount - 1 \in Nat
    BY ActiveCount DEF Pool
<1>4. /\ n.scheduled \ {s} \in SUBSET Slots
      /\ f \in [Slots -> Slots] /\ p \in Slots /\ q \in Slots
    BY <1>1 DEF Pool
<1>5. r \in Pool
    <2> HIDE DEF f, q, p
    <2> QED BY <1>2, <1>3, <1>4 DEF Pool
<1>6. /\ r.scheduled = n.scheduled \ {s} /\ r.nextSlot = f
      /\ r.lastQueuedSlot = q /\ r.currentSlotIdx = p /\ r.previousSlotIdx = p
      /\ r.activeSlotCount = n.activeSlotCount - 1
      /\ r.remainingCount = n.remainingCount
      /\ r.playing = n.playing /\ r.sleeping = n.sleeping /\ r.parent = n.parent
    <2> HIDE DEF f, q
    <2> QED BY <1>2 DEF Pool
<1>7. Cardinality(n.scheduled \ {s}) = n.activeSlotCount - 1
    BY ScheduledFinite, FS_RemoveElement DEF Ring
<1>8. Circle(n.scheduled \ {s}, f)
    <2>1. Circle(n.scheduled, n.nextSlot) /\ IsFiniteSet(n.scheduled)
        BY ScheduledFinite DEF Ring
    <2>2. f[p] = n.nextSlot[s] /\ \A j \in n.scheduled \ {p} : f[j] = n.nextSlot[j]
        BY <1>1 DEF Pool
    <2> HIDE DEF f, p
    <2> QED BY <1>1, <2>1, <2>2, CircleRemove
<1>9. n.scheduled \ {s} # {} => p \in n.scheduled \ {s}
    <2> SUFFICES ASSUME p = s PROVE n.scheduled = {s}
        BY <1>1
    <2>1. {s} \in SUBSET n.scheduled /\ \A j \in {s} : n.nextSlot[j] \in {s}
        BY <1>1
    <2> QED BY <2>1 DEF Ring, Circle
<1> QED
    <2> HIDE DEF f, p
    <2> QED BY <1>1, <1>5, <1>6, <1>7, <1>8, <1>9 DEF Ring

\* getNextScheduledSlot links the pointers again, whatever happened to the
\* current slot.
LEMMA GetNext ==
    ASSUME NEW n \in Pool, Ring(n), n.remainingCount > 0,
           NEW r, r = getNextScheduledSlot(n)
    PROVE  /\ r \in Pool
           /\ Ring(r) /\ Linked(r)
           /\ r.scheduled = n.scheduled
           /\ r.activeSlotCount = n.activeSlotCount
           /\ r.remainingCount = n.remainingCount - 1
           /\ r.playing = n.playing /\ r.sleeping = n.sleeping
<1> DEFINE c == n.currentSlotIdx
           f == n.nextSlot[c]
           q == IF n.lastQueuedSlot = c THEN f ELSE n.lastQueuedSlot
<1>1. r = [n EXCEPT !.previousSlotIdx = c, !.lastQueuedSlot = q,
                    !.currentSlotIdx = f, !.remainingCount = n.remainingCount - 1]
    BY DEF getNextScheduledSlot, Pool
<1>2. c \in Slots /\ f \in Slots /\ q \in Slots /\ n.remainingCount - 1 \in Nat
    BY DEF Pool
<1>3. r \in Pool
    <2> HIDE DEF c, f, q
    <2> QED BY <1>1, <1>2 DEF Pool
<1>4. /\ r.scheduled = n.scheduled /\ r.nextSlot = n.nextSlot
      /\ r.previousSlotIdx = c /\ r.currentSlotIdx = f /\ r.lastQueuedSlot = q
      /\ r.activeSlotCount = n.activeSlotCount
      /\ r.remainingCount = n.remainingCount - 1
      /\ r.playing = n.playing /\ r.sleeping = n.sleeping
    <2> HIDE DEF c, f, q
    <2> QED BY <1>1 DEF Pool
<1> QED BY <1>3, <1>4 DEF Ring, Linked, Circle

-----------------------------------------------------------------------------
(* The pool.  Good is the invariant between two steps; Mid is what holds   *)
(* inside a loop iteration, before getNextScheduledSlot: the current slot  *)
(* may just have been unlinked, and its turn is still counted.             *)

Sound(n) ==
    /\ n \in Pool
    /\ Ring(n)
    /\ n.scheduled \subseteq Awake(n)
    /\ n.sleeping \subseteq n.playing

Good(n) == Sound(n) /\ Linked(n) /\ n.remainingCount <= n.activeSlotCount

Mid(n) == Sound(n) /\ n.remainingCount \in 1..(n.activeSlotCount + 1)

\* What stopAllMacros breaks.
AllQueued(n) == Awake(n) \subseteq n.scheduled

\* While turns remain, an intact pool is also one in the middle of a turn.
LEMMA GoodIsMid ==
    ASSUME NEW n, Good(n), n.remainingCount > 0
    PROVE  Mid(n)
BY DEF Good, Mid, Sound, Pool

\* While turns remain, the current slot is on the run queue.
LEMMA CurrentScheduled ==
    ASSUME NEW n, Good(n), n.remainingCount > 0
    PROVE  n.currentSlotIdx \in n.scheduled
BY ActiveCount DEF Good, Sound, Ring, Pool

\* Passing the turn on makes a pool in the middle of a turn intact again.
LEMMA NextIsGood ==
    ASSUME NEW n, Mid(n)
    PROVE  /\ Good(getNextScheduledSlot(n))
           /\ AllQueued(n) => AllQueued(getNextScheduledSlot(n))
<1> DEFINE r == getNextScheduledSlot(n)
<1>1. n \in Pool /\ Ring(n) /\ n.remainingCount > 0
    BY DEF Mid, Sound
<1>2. /\ r \in Pool /\ Ring(r) /\ Linked(r)
      /\ r.scheduled = n.scheduled /\ r.activeSlotCount = n.activeSlotCount
      /\ r.remainingCount = n.remainingCount - 1
      /\ r.playing = n.playing /\ r.sleeping = n.sleeping
    BY <1>1, GetNext
<1> HIDE DEF r
<1>3. Good(r) /\ (AllQueued(n) => AllQueued(r))
    BY <1>2 DEF Good, Mid, Sound, Awake, Pool, AllQueued
<1> QED BY <1>3 DEF r

\* Waking a macro: it leaves the sleepers and enters the run queue.
LEMMA WakeKeeps ==
    ASSUME NEW n, Sound(n), NEW i \in Slots, NEW r, r = wakeMacroInSlot(n, i)
    PROVE  /\ Good(n) => Good(r)
           /\ Mid(n) => Mid(r)
           /\ AllQueued(n) => AllQueued(r)
<1>1. CASE i \notin n.sleeping
    BY <1>1 DEF wakeMacroInSlot
<1>2. CASE i \in n.sleeping
    <2> DEFINE w == [n EXCEPT !.sleeping = n.sleeping \ {i},
                              !.wakeOnKey = n.wakeOnKey \ {i},
                              !.wakeOnTime = n.wakeOnTime \ {i}]
    <2>1. r = scheduleSlot(w, i)
        BY <1>2 DEF wakeMacroInSlot
    <2>2. w \in Pool
        BY DEF Sound, Pool
    <2>3. /\ w.playing = n.playing /\ w.sleeping = n.sleeping \ {i}
          /\ w.scheduled = n.scheduled /\ w.nextSlot = n.nextSlot
          /\ w.currentSlotIdx = n.currentSlotIdx
          /\ w.previousSlotIdx = n.previousSlotIdx
          /\ w.lastQueuedSlot = n.lastQueuedSlot
          /\ w.activeSlotCount = n.activeSlotCount
          /\ w.remainingCount = n.remainingCount
        BY DEF Sound, Pool
    <2> HIDE DEF w
    <2>4. Ring(w) /\ (Linked(n) => Linked(w))
        BY <2>3 DEF Sound, Ring, Linked
    <2>5. i \in Slots \ w.scheduled
        BY <1>2, <2>3 DEF Sound, Awake
    <2>6. /\ r \in Pool /\ Ring(r) /\ (Linked(w) => Linked(r))
          /\ r.scheduled = w.scheduled \cup {i}
          /\ r.activeSlotCount = w.activeSlotCount + 1
          /\ r.remainingCount = w.remainingCount + 1
          /\ r.playing = w.playing /\ r.sleeping = w.sleeping
        BY <2>1, <2>2, <2>4, <2>5, ScheduleSlot
    <2>7. /\ r.scheduled \subseteq Awake(r) /\ r.sleeping \subseteq r.playing
          /\ AllQueued(n) => AllQueued(r)
        BY <1>2, <2>3, <2>6 DEF Sound, Awake, AllQueued
    <2> QED BY <2>3, <2>4, <2>6, <2>7 DEF Good, Mid, Sound, Pool
<1> QED BY <1>1, <1>2

\* A non-empty set of slots has a first one.
LEMMA FirstSlotOf ==
    ASSUME NEW W \in SUBSET Slots, W # {}
    PROVE  FirstSlot(W) \in W
<1> DEFINE R == OpToRel(<, Nat)
<1>1. W \subseteq Nat
    BY SlotsFacts
<1>2. PICK i \in W : \A j \in W : ~ (<<j, i>> \in R)
    <2> HIDE DEF R
    <2>1. IsWellFoundedOn(R, Nat)
        BY NatLessThanWellFounded DEF R
    <2> QED BY <1>1, <2>1, WFMin
<1>3. \A k, j \in Nat : j < k => <<j, k>> \in R
    BY DEF OpToRel
<1> HIDE DEF R
<1>4. \A j \in W : i <= j
    <2>1. \A j \in W : ~ (j < i)
        BY <1>1, <1>2, <1>3, Zenon
    <2> QED BY <1>1, <2>1
<1> QED BY <1>4, Zenon DEF FirstSlot

\* findFreeStateSlot returns a slot that is not playing.
LEMMA FreeSlotIsFree ==
    ASSUME NEW n, FreeSlots(n) # {}
    PROVE  FreeSlot(n) \in Slots \ n.playing
BY FirstSlotOf DEF FreeSlot, FreeSlots

\* A new macro in a free slot does not touch the run queue.
LEMMA InitMacro ==
    ASSUME NEW n, Good(n), NEW i \in Slots \ n.playing,
           NEW par \in Slots \cup {NoSlot}, NEW r, r = initMacro(n, i, par)
    PROVE  /\ r \in Pool /\ Ring(r) /\ Linked(r)
           /\ i \notin n.scheduled
           /\ r.playing = n.playing \cup {i} /\ r.sleeping = n.sleeping
           /\ r.scheduled = n.scheduled /\ r.currentSlotIdx = n.currentSlotIdx
           /\ r.activeSlotCount = n.activeSlotCount
           /\ r.remainingCount = n.remainingCount
           /\ r.parent[i] = par
           /\ \A j \in Slots \ {i} : r.parent[j] = n.parent[j]
<1>1. i \notin n.scheduled /\ i \notin n.sleeping
    BY DEF Good, Sound, Awake
<1> DEFINE f == [n.nextSlot EXCEPT ![i] = 0]
           g == [n.parent EXCEPT ![i] = par]
           h == [n.awaits EXCEPT ![i] = NoSlot]
<1>2. r = [n EXCEPT !.playing = n.playing \cup {i}, !.sleeping = n.sleeping \ {i},
                    !.broken = n.broken \ {i}, !.scheduled = n.scheduled \ {i},
                    !.wakeOnKey = n.wakeOnKey \ {i}, !.wakeOnTime = n.wakeOnTime \ {i},
                    !.nextSlot = f, !.parent = g, !.awaits = h]
    BY DEF initMacro, Good, Sound, Pool
<1>3. /\ f \in [Slots -> Slots] /\ g \in [Slots -> Slots \cup {NoSlot}]
      /\ h \in [Slots -> Slots \cup {NoSlot}]
    BY SlotsFacts DEF Good, Sound, Pool
<1>4. r \in Pool
    <2> DEFINE a == n.playing \cup {i}
               b == n.sleeping \ {i}
               c == n.broken \ {i}
               d == n.scheduled \ {i}
               k == n.wakeOnKey \ {i}
               t == n.wakeOnTime \ {i}
    <2>1. /\ n \in Pool /\ a \in SUBSET Slots /\ b \in SUBSET Slots
          /\ c \in SUBSET Slots /\ d \in SUBSET Slots
          /\ k \in SUBSET Slots /\ t \in SUBSET Slots
        BY DEF Good, Sound, Pool
    <2> DEFINE v == [n EXCEPT !.playing = a, !.sleeping = b, !.broken = c]
               w == [v EXCEPT !.scheduled = d, !.wakeOnKey = k, !.wakeOnTime = t]
    <2>2. v \in Pool
        <3> HIDE DEF a, b, c
        <3> QED BY <2>1 DEF Pool
    <2>3. w \in Pool
        <3> HIDE DEF d, k, t, v
        <3> QED BY <2>1, <2>2 DEF Pool
    <2>4. r = [w EXCEPT !.nextSlot = f, !.parent = g, !.awaits = h]
        <3> HIDE DEF f, g, h, a, b, c, d, k, t
        <3>1. r = [n EXCEPT !.playing = a, !.sleeping = b, !.broken = c, !.scheduled = d,
                            !.wakeOnKey = k, !.wakeOnTime = t,
                            !.nextSlot = f, !.parent = g, !.awaits = h]
            BY <1>2 DEF a, b, c, d, k, t
        <3> QED BY <2>1, <3>1 DEF Pool
    <2> HIDE DEF w, f, g, h
    <2> QED BY <1>3, <2>3, <2>4 DEF Pool
<1>5. /\ r.playing = n.playing \cup {i} /\ r.sleeping = n.sleeping
      /\ r.scheduled = n.scheduled /\ r.nextSlot = f /\ r.parent = g
      /\ r.currentSlotIdx = n.currentSlotIdx
      /\ r.previousSlotIdx = n.previousSlotIdx /\ r.lastQueuedSlot = n.lastQueuedSlot
      /\ r.activeSlotCount = n.activeSlotCount
      /\ r.remainingCount = n.remainingCount
    <2> HIDE DEF f, g, h
    <2> QED BY <1>1, <1>2 DEF Good, Sound, Pool
<1>6. \A j \in n.scheduled : f[j] = n.nextSlot[j]
    BY <1>1 DEF Good, Sound, Pool
<1>7. Ring(r) /\ Linked(r)
    <2>1. Ring(n) /\ Linked(n)
        BY DEF Good, Sound
    <2>2. Circle(r.scheduled, r.nextSlot)
        <3>1. Circle(n.scheduled, n.nextSlot)
            BY <2>1 DEF Ring
        <3> HIDE DEF f
        <3>2. Circle(n.scheduled, f)
            BY <1>6, <3>1, CircleAgrees
        <3> QED BY <1>5, <3>2
    <2> HIDE DEF f
    <2> QED BY <1>5, <1>6, <2>1, <2>2 DEF Ring, Linked
<1>8. r.parent[i] = par /\ \A j \in Slots \ {i} : r.parent[j] = n.parent[j]
    BY <1>5 DEF Good, Sound, Pool
<1> QED BY <1>1, <1>4, <1>5, <1>7, <1>8

\* Macros_StartMacro: one more macro on the run queue, the turn stays where it is.
LEMMA StartKeeps ==
    ASSUME NEW n, Good(n), NEW par \in Slots \cup {NoSlot}, NEW answer,
           NEW r, r = startMacro(n, par, answer)
    PROVE  /\ Good(r)
           /\ AllQueued(n) => AllQueued(r)
           /\ n.scheduled \subseteq r.scheduled /\ n.playing \subseteq r.playing
           /\ n.scheduled # {} => r.currentSlotIdx = n.currentSlotIdx
           /\ n.remainingCount <= r.remainingCount
           /\ Starts(n, answer) => /\ FreeSlot(n) \in r.playing
                                  /\ r.parent[FreeSlot(n)] = par
<1>1. CASE ~Starts(n, answer)
    BY <1>1 DEF startMacro, Good, Sound, Pool
<1>2. CASE Starts(n, answer)
    <2> DEFINE i == FreeSlot(n)
               w == initMacro(n, i, par)
    <2>1. r = scheduleSlot(w, i)
        BY <1>2 DEF startMacro
    <2>2. i \in Slots \ n.playing
        BY <1>2, FreeSlotIsFree DEF Starts
    <2> HIDE DEF i
    <2>3. /\ w \in Pool /\ Ring(w) /\ Linked(w)
          /\ i \notin n.scheduled
          /\ w.playing = n.playing \cup {i} /\ w.sleeping = n.sleeping
          /\ w.scheduled = n.scheduled /\ w.currentSlotIdx = n.currentSlotIdx
          /\ w.activeSlotCount = n.activeSlotCount
          /\ w.remainingCount = n.remainingCount
          /\ w.parent[i] = par
        BY <2>2, InitMacro
    <2> HIDE DEF w
    <2>4. /\ r \in Pool /\ Ring(r) /\ Linked(r)
          /\ r.scheduled = w.scheduled \cup {i}
          /\ r.activeSlotCount = w.activeSlotCount + 1
          /\ r.remainingCount = w.remainingCount + 1
          /\ w.scheduled # {} => r.currentSlotIdx = w.currentSlotIdx
          /\ r.playing = w.playing /\ r.sleeping = w.sleeping /\ r.parent = w.parent
        BY <2>1, <2>2, <2>3, ScheduleSlot
    <2>5. i \in r.playing /\ r.parent[i] = par
        BY <2>2, <2>3, <2>4 DEF Good, Sound, Pool
    <2>6. Good(r) /\ (AllQueued(n) => AllQueued(r))
        BY <2>2, <2>3, <2>4 DEF Good, Sound, Awake, AllQueued, Pool
    <2> QED BY <2>3, <2>4, <2>5, <2>6 DEF i, Good, Sound, Pool
<1> QED BY <1>1, <1>2

\* Ending a macro: the current one, or one that is not on the run queue.
LEMMA EndKeeps ==
    ASSUME NEW n, Mid(n), NEW s \in Slots,
           s \in n.scheduled =>
               s = n.currentSlotIdx /\ Linked(n) /\ n.remainingCount <= n.activeSlotCount,
           NEW r, r = endMacro(n, s)
    PROVE  Mid(r) /\ (AllQueued(n) => AllQueued(r))
<1> DEFINE g == forget(n, s)
           w == [n EXCEPT !.playing = n.playing \ {s}, !.sleeping = n.sleeping \ {s},
                          !.broken = n.broken \ {s}, !.awaits = g]
           u == unscheduleCurrentSlot(w, s)
<1>1. w \in Pool
    <2>1. g \in [Slots -> Slots \cup {NoSlot}]
        BY DEF forget, Mid, Sound, Pool
    <2> HIDE DEF g
    <2> QED BY <2>1 DEF Mid, Sound, Pool
<1>2. /\ w.playing = n.playing \ {s} /\ w.sleeping = n.sleeping \ {s}
      /\ w.scheduled = n.scheduled /\ w.nextSlot = n.nextSlot
      /\ w.currentSlotIdx = n.currentSlotIdx /\ w.parent = n.parent
      /\ w.previousSlotIdx = n.previousSlotIdx /\ w.lastQueuedSlot = n.lastQueuedSlot
      /\ w.activeSlotCount = n.activeSlotCount /\ w.remainingCount = n.remainingCount
    <2> HIDE DEF g
    <2> QED BY DEF Mid, Sound, Pool
<1>3. r = IF u.parent[s] # NoSlot THEN wakeMacroInSlot(u, u.parent[s]) ELSE u
    BY DEF endMacro, Mid, Sound, Pool
<1> HIDE DEF w
<1>4. Ring(w) /\ (Linked(n) => Linked(w))
    BY <1>2 DEF Mid, Sound, Ring, Linked
<1>5. Mid(u) /\ (AllQueued(n) => AllQueued(u))
    <2>1. CASE s \in n.scheduled
        <3>1. s \in w.scheduled /\ s = w.currentSlotIdx /\ Linked(w)
            BY <1>2, <1>4, <2>1
        <3>2. /\ u \in Pool /\ Ring(u)
              /\ u.scheduled = w.scheduled \ {s}
              /\ u.activeSlotCount = w.activeSlotCount - 1
              /\ u.remainingCount = w.remainingCount
              /\ u.playing = w.playing /\ u.sleeping = w.sleeping
            BY <1>1, <1>4, <3>1, UnscheduleCurrent
        <3> HIDE DEF u
        <3> QED BY <1>2, <2>1, <3>2 DEF Mid, Sound, Awake, AllQueued, Pool
    <2>2. CASE s \notin n.scheduled
        <3>1. u = w
            BY <1>2, <2>2 DEF unscheduleCurrentSlot
        <3> HIDE DEF u
        <3> QED BY <1>1, <1>2, <1>4, <2>2, <3>1 DEF Mid, Sound, Awake, AllQueued
    <2> QED BY <2>1, <2>2
<1> HIDE DEF u
<1>6. CASE u.parent[s] # NoSlot
    <2>1. u.parent[s] \in Slots
        BY <1>5, <1>6 DEF Mid, Sound, Pool
    <2>2. r = wakeMacroInSlot(u, u.parent[s]) /\ Sound(u)
        BY <1>3, <1>5, <1>6 DEF Mid
    <2> QED BY <1>5, <2>1, <2>2, WakeKeeps
<1>7. CASE u.parent[s] = NoSlot
    BY <1>3, <1>5, <1>7
<1> QED BY <1>6, <1>7

\* The current macro goes to sleep.
LEMMA SleepKeeps ==
    ASSUME NEW n, Good(n), n.remainingCount > 0,
           NEW s, s = n.currentSlotIdx, NEW onKey \in BOOLEAN, NEW onTime \in BOOLEAN,
           NEW r, r = sleepMacro(n, s, onKey, onTime)
    PROVE  Mid(r) /\ (AllQueued(n) => AllQueued(r)) /\ s \notin Awake(r)
<1> DEFINE u == unscheduleCurrentSlot(n, s)
<1>1. s \in n.scheduled /\ n \in Pool /\ Ring(n) /\ Linked(n)
    BY CurrentScheduled DEF Good, Sound
<1>2. /\ u \in Pool /\ Ring(u)
      /\ u.scheduled = n.scheduled \ {s}
      /\ u.activeSlotCount = n.activeSlotCount - 1
      /\ u.remainingCount = n.remainingCount
      /\ u.playing = n.playing /\ u.sleeping = n.sleeping
    BY <1>1, UnscheduleCurrent
<1>3. s \in Slots /\ s \in n.playing
    BY <1>1, ScheduledFinite DEF Good, Sound, Awake
<1> DEFINE K == IF onKey THEN u.wakeOnKey \cup {s} ELSE u.wakeOnKey
           T == IF onTime THEN u.wakeOnTime \cup {s} ELSE u.wakeOnTime
<1>4. r = [u EXCEPT !.sleeping = u.sleeping \cup {s}, !.wakeOnKey = K, !.wakeOnTime = T]
    <2> HIDE DEF u
    <2> QED BY <1>2 DEF sleepMacro, u, Pool
<1> HIDE DEF u
<1>5. K \in SUBSET Slots /\ T \in SUBSET Slots
    BY <1>2, <1>3 DEF Pool
<1> HIDE DEF K, T
<1>6. /\ r \in Pool
      /\ r.playing = u.playing /\ r.sleeping = u.sleeping \cup {s}
      /\ r.scheduled = u.scheduled /\ r.nextSlot = u.nextSlot
      /\ r.currentSlotIdx = u.currentSlotIdx
      /\ r.previousSlotIdx = u.previousSlotIdx /\ r.lastQueuedSlot = u.lastQueuedSlot
      /\ r.activeSlotCount = u.activeSlotCount /\ r.remainingCount = u.remainingCount
    <2>1. u.sleeping \cup {s} \in SUBSET Slots
        BY <1>2, <1>3 DEF Pool
    <2>2. r \in Pool
        BY <1>2, <1>4, <1>5, <2>1 DEF Pool
    <2> QED BY <1>2, <1>4, <2>2 DEF Pool
<1>7. Ring(r)
    BY <1>2, <1>6 DEF Ring
<1> QED BY <1>1, <1>2, <1>3, <1>6, <1>7 DEF Good, Mid, Sound, Awake, AllQueued, Pool

\* The current macro calls another one: it leaves the run queue.
LEMMA CallKeeps ==
    ASSUME NEW n, Good(n), n.remainingCount > 0,
           NEW s, s = n.currentSlotIdx, NEW answer, Starts(n, answer),
           NEW r, r = callMacro(n, s, answer)
    PROVE  Mid(r) /\ (AllQueued(n) => AllQueued(r)) /\ s \notin Awake(r)
<1> DEFINE w == startMacro(n, s, answer)
           u == unscheduleCurrentSlot(w, s)
           a == FreeSlot(n)
<1>1. s \in n.scheduled /\ s \in Slots
    BY CurrentScheduled, ScheduledFinite DEF Good, Sound
<1>2. /\ Good(w) /\ (AllQueued(n) => AllQueued(w))
      /\ s \in w.scheduled /\ w.currentSlotIdx = s
      /\ w.remainingCount > 0
    <2>1. /\ Good(w) /\ (AllQueued(n) => AllQueued(w))
          /\ n.scheduled \subseteq w.scheduled
          /\ n.scheduled # {} => w.currentSlotIdx = n.currentSlotIdx
          /\ n.remainingCount <= w.remainingCount
        <3> HIDE DEF w
        <3> QED BY <1>1, StartKeeps DEF w
    <2> HIDE DEF w
    <2> QED BY <1>1, <2>1 DEF Good, Sound, Pool
<1>3. r = [u EXCEPT !.sleeping = u.sleeping \cup {s}, !.wakeOnKey = u.wakeOnKey \ {s},
                    !.wakeOnTime = u.wakeOnTime \ {s},
                    !.awaits = [u.awaits EXCEPT ![s] = a]]
    BY Zenon DEF callMacro
<1> HIDE DEF w
<1>4. /\ u \in Pool /\ Ring(u)
      /\ u.scheduled = w.scheduled \ {s}
      /\ u.activeSlotCount = w.activeSlotCount - 1
      /\ u.remainingCount = w.remainingCount
      /\ u.playing = w.playing /\ u.sleeping = w.sleeping
    BY <1>2, UnscheduleCurrent DEF Good, Sound
<1>5. a \in Slots
    BY FreeSlotIsFree DEF Starts
<1> HIDE DEF u, a
<1> DEFINE b == u.sleeping \cup {s}
           k == u.wakeOnKey \ {s}
           t == u.wakeOnTime \ {s}
           h == [u.awaits EXCEPT ![s] = a]
<1>6. /\ b \in SUBSET Slots /\ k \in SUBSET Slots /\ t \in SUBSET Slots
      /\ h \in [Slots -> Slots \cup {NoSlot}]
    BY <1>1, <1>4, <1>5 DEF Pool
<1>7. r = [u EXCEPT !.sleeping = b, !.wakeOnKey = k, !.wakeOnTime = t, !.awaits = h]
    BY <1>3
<1>8. /\ r \in Pool
      /\ r.playing = u.playing /\ r.sleeping = b
      /\ r.scheduled = u.scheduled /\ r.nextSlot = u.nextSlot
      /\ r.currentSlotIdx = u.currentSlotIdx
      /\ r.previousSlotIdx = u.previousSlotIdx /\ r.lastQueuedSlot = u.lastQueuedSlot
      /\ r.activeSlotCount = u.activeSlotCount /\ r.remainingCount = u.remainingCount
    <2> HIDE DEF b, k, t, h
    <2>1. r \in Pool
        BY <1>4, <1>6, <1>7 DEF Pool
    <2> QED BY <1>4, <1>7, <2>1 DEF Pool
<1>9. Ring(r)
    BY <1>4, <1>8 DEF Ring
<1> QED BY <1>1, <1>2, <1>4, <1>8, <1>9 DEF Good, Mid, Sound, Awake, AllQueued, Pool

\* stopAllMacros leaves the run queue alone; those it wakes are not on it.
LEMMA StopAllKeeps ==
    ASSUME NEW n, Good(n), NEW s, s \in n.scheduled, NEW r, r = stopAllMacros(n, s)
    PROVE  /\ Good(r)
           /\ r.scheduled = n.scheduled /\ r.currentSlotIdx = n.currentSlotIdx
           /\ r.remainingCount = n.remainingCount
<1> DEFINE a == n.broken \cup (n.playing \ {s})
           b == n.sleeping \cap {s}
<1>1. a \in SUBSET Slots /\ b \in SUBSET Slots /\ n \in Pool /\ b = {}
    BY DEF Good, Sound, Pool, Awake
<1>2. r = [n EXCEPT !.broken = a, !.sleeping = b]
    BY DEF stopAllMacros
<1> HIDE DEF a, b
<1>3. /\ r \in Pool
      /\ r.playing = n.playing /\ r.sleeping = b
      /\ r.scheduled = n.scheduled /\ r.nextSlot = n.nextSlot
      /\ r.currentSlotIdx = n.currentSlotIdx
      /\ r.previousSlotIdx = n.previousSlotIdx /\ r.lastQueuedSlot = n.lastQueuedSlot
      /\ r.activeSlotCount = n.activeSlotCount /\ r.remainingCount = n.remainingCount
    BY <1>1, <1>2 DEF Pool
<1>4. Ring(r) /\ Linked(r)
    BY <1>3 DEF Good, Sound, Ring, Linked
<1> QED BY <1>1, <1>3, <1>4 DEF Good, Sound, Awake

\* A macro queued behind another sleeps outside the run queue.
LEMMA QueueKeeps ==
    ASSUME NEW n, Good(n), FreeSlots(n) # {},
           NEW after \in n.playing, n.parent[after] = NoSlot,
           NEW r, r = queueMacro(n, after)
    PROVE  /\ Good(r)
           /\ AllQueued(n) => AllQueued(r)
           /\ r.scheduled = n.scheduled /\ r.currentSlotIdx = n.currentSlotIdx
           /\ r.remainingCount = n.remainingCount
           /\ n.playing \subseteq r.playing
<1> DEFINE i == FreeSlot(n)
           w == initMacro(n, i, NoSlot)
           j == chainEnd(w, after)
<1>1. i \in Slots \ n.playing
    BY FreeSlotIsFree
<1>2. j \in Slots
    <2>1. after \in Slots /\ after # i
        BY <1>1 DEF Good, Sound, Pool
    <2>2. w.parent[after] = NoSlot
        <3>1. w = initMacro(n, i, NoSlot)
            OBVIOUS
        <3> HIDE DEF i, w
        <3> QED BY <1>1, <2>1, <3>1, InitMacro
    <2> HIDE DEF i, w
    <2>3. after \in parentChain(w, after)
        BY <2>1 DEF parentChain
    <2>4. j \in parentChain(w, after)
        BY <2>2, <2>3, Zenon DEF chainEnd
    <2> QED BY <2>4 DEF parentChain
<1>3. r = [w EXCEPT !.parent = [w.parent EXCEPT ![j] = i],
                    !.sleeping = w.sleeping \cup {i},
                    !.awaits = [w.awaits EXCEPT ![i] = j]]
    BY Zenon DEF queueMacro
<1> HIDE DEF i
<1>4. /\ w \in Pool /\ Ring(w) /\ Linked(w)
      /\ i \notin n.scheduled
      /\ w.playing = n.playing \cup {i} /\ w.sleeping = n.sleeping
      /\ w.scheduled = n.scheduled /\ w.currentSlotIdx = n.currentSlotIdx
      /\ w.activeSlotCount = n.activeSlotCount
      /\ w.remainingCount = n.remainingCount
    <2>1. w = initMacro(n, i, NoSlot)
        OBVIOUS
    <2> HIDE DEF w
    <2> QED BY <1>1, <2>1, InitMacro
<1> HIDE DEF w, j
<1> DEFINE g == [w.parent EXCEPT ![j] = i]
           b == w.sleeping \cup {i}
           h == [w.awaits EXCEPT ![i] = j]
<1>5. /\ g \in [Slots -> Slots \cup {NoSlot}] /\ b \in SUBSET Slots
      /\ h \in [Slots -> Slots \cup {NoSlot}]
    BY <1>1, <1>2, <1>4 DEF Pool
<1>6. /\ r \in Pool
      /\ r.playing = w.playing /\ r.sleeping = b
      /\ r.scheduled = w.scheduled /\ r.nextSlot = w.nextSlot
      /\ r.currentSlotIdx = w.currentSlotIdx
      /\ r.previousSlotIdx = w.previousSlotIdx /\ r.lastQueuedSlot = w.lastQueuedSlot
      /\ r.activeSlotCount = w.activeSlotCount /\ r.remainingCount = w.remainingCount
    <2>1. r = [w EXCEPT !.parent = g, !.sleeping = b, !.awaits = h]
        BY <1>3
    <2> HIDE DEF g, b, h
    <2>2. r \in Pool
        BY <1>4, <1>5, <2>1 DEF Pool
    <2> QED BY <1>4, <2>1, <2>2 DEF Pool
<1>7. Ring(r) /\ Linked(r)
    BY <1>4, <1>6 DEF Ring, Linked
<1> QED BY <1>1, <1>4, <1>6, <1>7 DEF Good, Sound, Awake, AllQueued

-----------------------------------------------------------------------------
(* The steps.  Inv is the inductive invariant: the pool is Good, and all   *)
(* awake macros are queued unless some macro contains stopAllMacros.       *)

Inv ==
    /\ TypeOK
    /\ Good(m)
    /\ "stopAll" \notin Commands => AllQueued(m)

USE SchedulerAssumption

\* The pool a command leaves for the end of the loop iteration: either the
\* current macro is still the one that runs, or it has left the run queue.
Left(n, s) ==
    /\ Mid(n)
    /\ s \in Awake(n) => Good(n) /\ s = n.currentSlotIdx
    /\ "stopAll" \notin Commands => AllQueued(n)

\* The end of a loop iteration restores the invariant of the pool.
LEMMA IterateKeeps ==
    ASSUME NEW n, Mid(n), NEW s, NEW yields,
           ~yields /\ s \in Awake(n) => Good(n),
           "stopAll" \notin Commands => AllQueued(n),
           TypeOK, batch > 0, Iterate(n, s, yields),
           UNCHANGED <<bits, wakes>>
    PROVE  Inv'
<1>1. Good(m') /\ ("stopAll" \notin Commands => AllQueued(m'))
    <2>1. CASE yields \/ s \notin Awake(n)
        <3>1. m' = getNextScheduledSlot(n)
            BY <2>1 DEF Iterate
        <3> QED BY <3>1, NextIsGood
    <2>2. CASE ~(yields \/ s \notin Awake(n))
        BY <2>2 DEF Iterate
    <2> QED BY <2>1, <2>2
<1>2. TypeOK'
    BY <1>1 DEF TypeOK, Iterate, Good, Sound, bits, wakes
<1> QED BY <1>1, <1>2 DEF Inv, Good, Sound, Linked, Ring, Awake, AllQueued

\* The epilogue of continueMacro, after a command that may be left.
LEMMA FinishKeeps ==
    ASSUME NEW n, NEW s \in Slots, Left(n, s), NEW yields, NEW last \in BOOLEAN,
           TypeOK, batch > 0, Finish(n, s, yields, last),
           UNCHANGED <<bits, wakes>>
    PROVE  Inv'
<1>1. CASE last
    <2> DEFINE r == endMacro(n, s)
    <2>1. s \in n.scheduled => s = n.currentSlotIdx /\ Linked(n)
                               /\ n.remainingCount <= n.activeSlotCount
        BY DEF Left, Mid, Sound, Good
    <2>2. Mid(r) /\ (AllQueued(n) => AllQueued(r))
        <3> HIDE DEF r
        <3> QED BY <2>1, EndKeeps DEF Left, r
    <2>3. Iterate(r, s, TRUE)
        BY <1>1 DEF Finish, Iterate
    <2> HIDE DEF r
    <2> QED BY <2>2, <2>3, IterateKeeps DEF Left
<1>2. CASE ~last
    <2>1. Iterate(n, s, yields)
        BY <1>2 DEF Finish, Iterate
    <2> QED BY <2>1, IterateKeeps DEF Left
<1> QED BY <1>1, <1>2

\* The macro whose turn it is is on the run queue, hence awake.
LEMMA RunsScheduled ==
    ASSUME Inv, NEW s \in Slots, Runs(s)
    PROVE  /\ Good(m) /\ m.remainingCount > 0 /\ batch > 0
           /\ s = m.currentSlotIdx /\ s \in m.scheduled
           /\ Left(m, s)
<1>1. Good(m) /\ m.remainingCount > 0 /\ batch > 0 /\ s = m.currentSlotIdx
    BY DEF Inv, Runs
<1>2. s \in m.scheduled
    BY <1>1, CurrentScheduled
<1>3. Mid(m)
    BY <1>1, GoodIsMid
<1> QED BY <1>1, <1>2, <1>3 DEF Left, Inv

\* A pool that keeps the current macro queued may be left by a command.
LEMMA GoodIsLeft ==
    ASSUME NEW n, Good(n), n.remainingCount > 0, NEW s, s = n.currentSlotIdx,
           "stopAll" \notin Commands => AllQueued(n)
    PROVE  Left(n, s)
BY GoodIsMid DEF Left

\* Whatever the event macros do to a Good pool.
LEMMA AfterEventKeeps ==
    ASSUME Inv, NEW first, NEW second
    PROVE  /\ Good(afterEvent(first, second))
           /\ AllQueued(m) => AllQueued(afterEvent(first, second))
           /\ m.scheduled \subseteq afterEvent(first, second).scheduled
           /\ m.scheduled # {} =>
                afterEvent(first, second).currentSlotIdx = m.currentSlotIdx
           /\ m.remainingCount <= afterEvent(first, second).remainingCount
<1> DEFINE r == afterEvent(first, second)
           w == startMacro(m, NoSlot, first)
<1>1. Good(m) /\ m.remainingCount \in Nat
    BY DEF Inv, Good, Sound, Pool
<1>2. CASE ~Starts(m, first)
    <2>1. r = startMacro(m, NoSlot, second)
        BY <1>2 DEF afterEvent
    <2> HIDE DEF r
    <2>2. /\ Good(r) /\ (AllQueued(m) => AllQueued(r))
          /\ m.scheduled \subseteq r.scheduled
          /\ m.scheduled # {} => r.currentSlotIdx = m.currentSlotIdx
          /\ m.remainingCount <= r.remainingCount
        BY <1>1, <2>1, StartKeeps
    <2> QED BY <2>2 DEF r
<1>3. CASE Starts(m, first)
    <2>1. /\ Good(w) /\ (AllQueued(m) => AllQueued(w))
          /\ m.scheduled \subseteq w.scheduled
          /\ m.scheduled # {} => w.currentSlotIdx = m.currentSlotIdx
          /\ m.remainingCount <= w.remainingCount
          /\ FreeSlot(m) \in w.playing /\ w.parent[FreeSlot(m)] = NoSlot
        <3> HIDE DEF w
        <3> QED BY <1>1, <1>3, StartKeeps DEF w
    <2>2. CASE Starts(w, second)
        <3>1. r = queueMacro(w, FreeSlot(m))
            BY <1>3, <2>2 DEF afterEvent
        <3>2. FreeSlots(w) # {}
            BY <2>2 DEF Starts
        <3> HIDE DEF r, w
        <3>3. /\ Good(r) /\ (AllQueued(w) => AllQueued(r))
              /\ r.scheduled = w.scheduled /\ r.currentSlotIdx = w.currentSlotIdx
              /\ r.remainingCount = w.remainingCount
            BY <2>1, <3>1, <3>2, QueueKeeps
        <3> QED BY <2>1, <3>3 DEF r
    <2>3. CASE ~Starts(w, second)
        <3>1. r = w
            BY <1>3, <2>3 DEF afterEvent
        <3> HIDE DEF w
        <3> QED BY <2>1, <3>1
    <2> QED BY <2>2, <2>3
<1> QED BY <1>2, <1>3

\* The zeroed pool of start-up satisfies the invariant.
LEMMA InitInv == Init => Inv
<1> SUFFICES ASSUME Init PROVE Inv
    OBVIOUS
<1>1. m \in Pool
    BY SlotsFacts DEF Init, EmptyPool, Pool
<1>2. TypeOK
    <2>1. batch \in 0..MaxBatchSize
        BY DEF Init
    <2> QED BY <1>1, <2>1, Zenon DEF Init, TypeOK, PcValues
<1>3. /\ m.scheduled = {} /\ m.playing = {} /\ m.sleeping = {}
      /\ m.activeSlotCount = 0 /\ m.remainingCount = 0
    BY DEF Init, EmptyPool
<1>4. Ring(m) /\ Linked(m)
    BY <1>3, FS_EmptySet DEF Ring, Circle, Linked
<1> QED BY <1>1, <1>2, <1>3, <1>4
        DEF Inv, Good, Sound, Awake, AllQueued, Pool

\* A step outside the commands that leaves a Good pool.
LEMMA KeepsPool ==
    ASSUME Inv, TypeOK', Good(m'), "stopAll" \notin Commands => AllQueued(m')
    PROVE  Inv'
BY DEF Inv, Good, Sound, Ring, Circle, Linked, Awake, AllQueued

\* Whatever happens between two engine cycles keeps the invariant.
LEMMA EventsKeepInv == ASSUME Inv, Events PROVE Inv'
<1>0. TypeOK /\ Good(m) /\ m \in Pool
    BY DEF Inv, Good, Sound
<1>1. ASSUME NEW answer \in Answers, StartMacro(answer) PROVE Inv'
    <2>1. Good(m') /\ (AllQueued(m) => AllQueued(m'))
        BY <1>0, <1>1, StartKeeps DEF StartMacro
    <2>2. TypeOK'
        BY <1>0, <1>1, <2>1 DEF StartMacro, TypeOK, Starts, wakes, Good, Sound
    <2> QED BY <2>1, <2>2, KeepsPool DEF Inv
<1>2. ASSUME NEW first \in Answers, NEW second \in EventAnswers, MacroEvent(first, second)
      PROVE  Inv'
    <2>1. Good(m') /\ (AllQueued(m) => AllQueued(m'))
        BY <1>2, AfterEventKeeps DEF MacroEvent
    <2>2. engine' \in BOOLEAN /\ postponing' \in BOOLEAN
        BY <1>0, <1>2, Zenon DEF MacroEvent, TypeOK
    <2>3. TypeOK'
        BY <1>0, <1>2, <2>1, <2>2 DEF MacroEvent, TypeOK, wakes, Good, Sound
    <2> QED BY <2>1, <2>3, KeepsPool DEF Inv
<1>4. CASE KeystateChange
    <2>1. TypeOK' /\ m' = m
        BY <1>0, <1>4 DEF KeystateChange, TypeOK
    <2> QED BY <1>0, <2>1, KeepsPool DEF Inv
<1>5. CASE TimerExpires
    <2>1. TypeOK' /\ m' = m
        BY <1>0, <1>5 DEF TimerExpires, TypeOK
    <2> QED BY <1>0, <2>1, KeepsPool DEF Inv
<1>6. CASE ProtocolChange
    <2>1. TypeOK' /\ m' = m
        BY <1>0, <1>6 DEF ProtocolChange, TypeOK, wakes
    <2> QED BY <1>0, <2>1, KeepsPool DEF Inv
<1> QED BY <1>1, <1>2, <1>4, <1>5, <1>6 DEF Events

\* Waking one sleeper of a set of slots.
LEMMA WakeOneKeeps ==
    ASSUME Inv, NEW W \in SUBSET Slots, W # {}
    PROVE  /\ Good(wakeMacroInSlot(m, FirstSlot(W)))
           /\ AllQueued(m) => AllQueued(wakeMacroInSlot(m, FirstSlot(W)))
<1>1. FirstSlot(W) \in Slots
    BY FirstSlotOf
<1> QED BY <1>1, WakeKeeps DEF Inv, Good

\* The two loops of wakeSleepers keep the invariant.
LEMMA WakingKeepsInv == ASSUME Inv, WakeOnKey \/ WakeOnTime PROVE Inv'
<1>0. TypeOK /\ Good(m) /\ m \in Pool
    BY DEF Inv, Good, Sound
<1>1. CASE WakeOnKey
    <2> DEFINE W == m.wakeOnKey \cap m.sleeping
    <2>1. W \in SUBSET Slots
        BY <1>0 DEF Pool
    <2>2. \/ W # {} /\ m' = wakeMacroInSlot(m, FirstSlot(W))
          \/ m' = m
        BY <1>1 DEF WakeOnKey
    <2> HIDE DEF W
    <2>3. Good(m') /\ (AllQueued(m) => AllQueued(m'))
        BY <1>0, <2>1, <2>2, WakeOneKeeps
    <2>4. TypeOK'
        BY <1>0, <1>1, <2>3 DEF WakeOnKey, TypeOK, PcValues, bits, Good, Sound
    <2> QED BY <2>3, <2>4, KeepsPool DEF Inv
<1>2. CASE WakeOnTime
    <2> DEFINE W == m.wakeOnTime \cap m.sleeping
    <2>1. W \in SUBSET Slots
        BY <1>0 DEF Pool
    <2>2. \/ W # {} /\ m' = wakeMacroInSlot(m, FirstSlot(W))
          \/ m' = [m EXCEPT !.remainingCount = m.activeSlotCount]
        BY <1>2 DEF WakeOnTime
    <2> HIDE DEF W
    <2>3. Good(m') /\ (AllQueued(m) => AllQueued(m'))
        <3>1. CASE W # {} /\ m' = wakeMacroInSlot(m, FirstSlot(W))
            BY <2>1, <3>1, WakeOneKeeps
        <3>2. CASE m' = [m EXCEPT !.remainingCount = m.activeSlotCount]
            <4>1. m.activeSlotCount \in Nat
                BY <1>0 DEF Pool
            <4>2. m' \in Pool
                BY <1>0, <3>2, <4>1 DEF Pool
            <4>3. /\ m'.playing = m.playing /\ m'.sleeping = m.sleeping
                  /\ m'.scheduled = m.scheduled /\ m'.nextSlot = m.nextSlot
                  /\ m'.currentSlotIdx = m.currentSlotIdx
                  /\ m'.previousSlotIdx = m.previousSlotIdx
                  /\ m'.lastQueuedSlot = m.lastQueuedSlot
                  /\ m'.activeSlotCount = m.activeSlotCount
                  /\ m'.remainingCount = m.activeSlotCount
                BY <1>0, <3>2 DEF Pool
            <4> QED BY <1>0, <4>1, <4>2, <4>3
                    DEF Good, Sound, Ring, Linked, Awake, AllQueued
        <3> QED BY <2>2, <3>1, <3>2
    <2>4. TypeOK'
        <3>1. batch' \in 0..MaxBatchSize /\ pc' \in PcValues
            BY <1>0, <1>2 DEF WakeOnTime, TypeOK, PcValues
        <3> QED BY <1>0, <1>2, <2>3, <3>1 DEF WakeOnTime, TypeOK, bits, Good, Sound
    <2> QED BY <2>3, <2>4, KeepsPool DEF Inv
<1> QED BY <1>1, <1>2

\* One step of an engine cycle.
LEMMA CycleKeepsInv == ASSUME Inv, Cycle PROVE Inv'
<1>0. TypeOK /\ Good(m) /\ m \in Pool
    BY DEF Inv, Good, Sound
<1>1. CASE BeginCycle
    <2>1. TypeOK' /\ m' = m
        BY <1>0, <1>1 DEF BeginCycle, TypeOK, PcValues, bits, wakes
    <2> QED BY <1>0, <2>1, KeepsPool DEF Inv
<1>2. CASE WakeOnKey \/ WakeOnTime
    BY <1>2, WakingKeepsInv
<1>3. CASE EndBroken
    <2>1. PICK s \in Slots : /\ Runs(s) /\ Finish(m, s, TRUE, TRUE)
                             /\ UNCHANGED <<bits, wakes>>
        BY <1>3 DEF EndBroken
    <2> QED BY <1>0, <2>1, RunsScheduled, FinishKeeps
<1>4. ASSUME NEW last \in BOOLEAN, Work(last) PROVE Inv'
    <2>1. PICK s \in Slots : /\ Runs(s) /\ Finish(m, s, FALSE, last)
                             /\ UNCHANGED <<bits, wakes>>
        BY <1>4 DEF Work, Executes
    <2> QED BY <1>0, <2>1, RunsScheduled, FinishKeeps
<1>5. ASSUME NEW last \in BOOLEAN, Yield(last) PROVE Inv'
    <2>1. PICK s \in Slots : /\ Runs(s) /\ Finish(m, s, TRUE, last)
                             /\ UNCHANGED <<bits, wakes>>
        BY <1>5 DEF Yield, Executes
    <2> QED BY <1>0, <2>1, RunsScheduled, FinishKeeps
<1>6. CASE Block \/ EndCycle
    <2>1. batch' \in 0..MaxBatchSize
        BY <1>0, <1>6 DEF Block, EndCycle, TypeOK
    <2>2. engine' \in BOOLEAN /\ postponing' \in BOOLEAN
        BY <1>0, <1>6, Zenon DEF Block, EndCycle, TypeOK, bits
    <2>3. TypeOK' /\ m' = m
        BY <1>0, <1>6, <2>1, <2>2 DEF Block, EndCycle, TypeOK, PcValues, wakes
    <2> QED BY <1>0, <2>3, KeepsPool DEF Inv
<1>7. ASSUME NEW onKey \in BOOLEAN, NEW onTime \in BOOLEAN, Sleep(onKey, onTime)
      PROVE  Inv'
    <2> DEFINE r(s) == sleepMacro(m, s, onKey, onTime)
    <2>1. PICK s \in Slots : /\ Runs(s) /\ Iterate(r(s), s, TRUE)
                             /\ UNCHANGED <<bits, wokenByKey, wokenByTime>>
                             /\ wakeMeOnKey' = (wakeMeOnKey \/ onKey)
                             /\ wakeTimer' = (wakeTimer \/ onTime)
        BY <1>7 DEF Sleep, Executes
    <2>2. Mid(r(s)) /\ (AllQueued(m) => AllQueued(r(s)))
        <3> HIDE DEF r
        <3> QED BY <2>1, RunsScheduled, SleepKeeps DEF r
    <2> HIDE DEF r
    <2>3. Good(m') /\ ("stopAll" \notin Commands => AllQueued(m'))
        <3>1. m' = getNextScheduledSlot(r(s))
            BY <2>1 DEF Iterate
        <3> QED BY <2>2, <3>1, NextIsGood DEF Inv
    <2>4. wakeMeOnKey' \in BOOLEAN /\ wakeTimer' \in BOOLEAN
        BY <1>0, <2>1, Zenon DEF TypeOK
    <2>5. TypeOK'
        BY <1>0, <2>1, <2>3, <2>4 DEF TypeOK, Iterate, Runs, bits, Good, Sound
    <2> QED BY <2>3, <2>5, KeepsPool
<1>8. ASSUME NEW answer \in Answers, NEW last \in BOOLEAN, Call(answer, last)
      PROVE  Inv'
    <2> DEFINE r(s) == callMacro(m, s, answer)
    <2>1. PICK s \in Slots : /\ Runs(s) /\ Finish(r(s), s, TRUE, last)
                             /\ UNCHANGED <<bits, wakes>>
        BY <1>8 DEF Call, Executes
    <2>2. Left(r(s), s)
        <3>1. CASE Starts(m, answer)
            <4>1. Mid(r(s)) /\ (AllQueued(m) => AllQueued(r(s))) /\ s \notin Awake(r(s))
                <5> HIDE DEF r
                <5> QED BY <2>1, <3>1, RunsScheduled, CallKeeps DEF r
            <4> QED BY <4>1 DEF Left, Inv
        <3>2. CASE ~Starts(m, answer)
            <4>1. r(s) = m
                BY <3>2 DEF callMacro
            <4> QED BY <2>1, <4>1, RunsScheduled
        <3> QED BY <3>1, <3>2
    <2> HIDE DEF r
    <2> QED BY <1>0, <2>1, <2>2, RunsScheduled, FinishKeeps
<1>9. ASSUME NEW answer \in Answers, NEW last \in BOOLEAN, Fork(answer, last)
      PROVE  Inv'
    <2> DEFINE r == startMacro(m, NoSlot, answer)
    <2>1. PICK s \in Slots : /\ Runs(s) /\ Finish(r, s, FALSE, last)
                             /\ UNCHANGED <<bits, wakes>>
        BY <1>9 DEF Fork, Executes
    <2>2. /\ Good(r) /\ (AllQueued(m) => AllQueued(r))
          /\ m.scheduled # {} => r.currentSlotIdx = m.currentSlotIdx
          /\ m.remainingCount <= r.remainingCount
        <3> HIDE DEF r
        <3> QED BY <1>0, StartKeeps DEF r
    <2> HIDE DEF r
    <2>3. r.remainingCount > 0 /\ s = r.currentSlotIdx
        BY <1>0, <2>1, <2>2, RunsScheduled DEF Good, Sound, Pool
    <2>4. Left(r, s)
        BY <2>2, <2>3, GoodIsLeft DEF Inv
    <2> QED BY <1>0, <2>1, <2>4, RunsScheduled, FinishKeeps
<1>10. ASSUME NEW last \in BOOLEAN, StopAll(last) PROVE Inv'
    <2> DEFINE r(s) == stopAllMacros(m, s)
    <2>1. PICK s \in Slots : /\ Runs(s) /\ Finish(r(s), s, FALSE, last)
                             /\ UNCHANGED <<bits, wakes>>
                             /\ "stopAll" \in Commands
        BY <1>10 DEF StopAll, Executes
    <2>2. /\ Good(r(s)) /\ r(s).currentSlotIdx = m.currentSlotIdx
          /\ r(s).remainingCount = m.remainingCount
        <3> HIDE DEF r
        <3> QED BY <2>1, RunsScheduled, StopAllKeeps DEF r
    <2> HIDE DEF r
    <2>3. Left(r(s), s)
        BY <2>1, <2>2, RunsScheduled, GoodIsLeft
    <2> QED BY <1>0, <2>1, <2>3, RunsScheduled, FinishKeeps
<1>11. ASSUME NEW first \in Answers, NEW second \in EventAnswers, NEW last \in BOOLEAN,
              SwitchKeymap(first, second, last)
       PROVE  Inv'
    <2> DEFINE n == afterEvent(first, second)
               i == FreeSlot(startMacro(m, NoSlot, first))
               r == endMacro(n, i)
    <2>1. PICK s \in Slots :
             /\ Runs(s)
             /\ \/ ~LeavesS(first, second) /\ Finish(n, s, FALSE, last)
                \/ LeavesS(first, second) /\ Iterate(r, i, TRUE)
             /\ UNCHANGED <<bits, wakes>>
        BY <1>11 DEF SwitchKeymap, Executes
    <2>2. /\ Good(n) /\ (AllQueued(m) => AllQueued(n))
          /\ m.scheduled \subseteq n.scheduled
          /\ m.scheduled # {} => n.currentSlotIdx = m.currentSlotIdx
          /\ m.remainingCount <= n.remainingCount
        BY AfterEventKeeps
    <2>3. n.remainingCount > 0 /\ s = n.currentSlotIdx
        <3> HIDE DEF n
        <3> QED BY <1>0, <2>1, <2>2, RunsScheduled DEF Good, Sound, Pool
    <2>4. CASE ~LeavesS(first, second)
        <3> HIDE DEF n
        <3>1. Left(n, s)
            BY <2>2, <2>3, GoodIsLeft DEF Inv
        <3> QED BY <1>0, <2>1, <2>4, <3>1, RunsScheduled, FinishKeeps
    <2>5. CASE LeavesS(first, second)
        <3>1. Iterate(r, i, TRUE)
            BY <2>1, <2>5
        <3>2. i \in Slots /\ i \notin n.scheduled
            <4> DEFINE w == startMacro(m, NoSlot, first)
            <4>1. n = w
                BY <2>5 DEF LeavesS, afterEvent, Starts
            <4>2. i \in Slots \ w.playing
                <5> HIDE DEF w
                <5> QED BY <2>5, FreeSlotIsFree DEF LeavesS, w
            <4> QED BY <2>2, <4>1, <4>2 DEF Good, Sound, Awake
        <3>3. Mid(n)
            <4> HIDE DEF n
            <4> QED BY <2>2, <2>3, GoodIsMid
        <3> HIDE DEF i, n
        <3>4. Mid(r) /\ (AllQueued(n) => AllQueued(r))
            <4> HIDE DEF r
            <4> QED BY <3>2, <3>3, EndKeeps DEF r
        <3> HIDE DEF r
        <3> QED BY <1>0, <2>1, <2>2, <3>1, <3>4, RunsScheduled, IterateKeeps DEF Inv
    <2> QED BY <2>4, <2>5
<1> QED BY <1>1, <1>2, <1>3, <1>4, <1>5, <1>6, <1>7, <1>8, <1>9, <1>10, <1>11 DEF Cycle

-----------------------------------------------------------------------------
(* The theorems.                                                           *)

\* The inductive invariant holds for every pool size, batch size and set of
\* commands.
THEOREM Invariance == Spec => []Inv
<1>1. Inv /\ [Next]_vars => Inv'
    <2> SUFFICES ASSUME Inv, [Next]_vars PROVE Inv'
        OBVIOUS
    <2>1. CASE Next
        BY <2>1, CycleKeepsInv, EventsKeepInv DEF Next
    <2>2. CASE UNCHANGED vars
        <3>1. TypeOK' /\ m' = m
            BY <2>2 DEF Inv, TypeOK, vars, bits, wakes
        <3> QED BY <3>1, KeepsPool DEF Inv
    <2> QED BY <2>1, <2>2
<1> QED BY <1>1, InitInv, PTL DEF Spec

\* Every variable of the engine stays in its type; in particular no slot index
\* leaves the pool (currentSlotIdx, previousSlotIdx, lastQueuedSlot, nextSlot
\* and parentMacroSlot index MacroState[] without a check).
THEOREM TypeCorrect == Spec => []TypeOK
BY Invariance, PTL DEF Inv

\* The run queue is one circle through exactly the scheduled slots after every
\* sequence of starts, calls, forks, sleeps, wake-ups and ends.
THEOREM RunQueueStaysIntact == Spec => []RunQueueIntact
<1>1. Inv => RunQueueIntact
    BY DEF Inv, Good, Sound, RunQueueIntact
<1> QED BY <1>1, Invariance, PTL

\* Only awake macros are on the run queue, and a round promises no more turns
\* than there are macros on it.
THEOREM OnlyAwakeAreScheduled == Spec => []ScheduledAreAwake
<1>1. Inv => ScheduledAreAwake
    BY DEF Inv, Good, Sound, ScheduledAreAwake
<1> QED BY <1>1, Invariance, PTL

\* The test of executeBlocking that the current slot is playing and not
\* sleeping never fails.
THEOREM CurrentCanRun == Spec => []CurrentRunnable
<1>1. Inv => CurrentRunnable
    BY CurrentScheduled DEF Inv, Good, Sound, CurrentRunnable
<1> QED BY <1>1, Invariance, PTL

\* Without stopAllMacros no macro is awake and forgotten by the run queue.
THEOREM NobodyForgotten ==
    ASSUME "stopAll" \notin Commands
    PROVE  Spec => []AwakeAreScheduled
<1>1. Inv => AwakeAreScheduled
    BY DEF Inv, AllQueued, AwakeAreScheduled
<1> QED BY <1>1, Invariance, PTL

-----------------------------------------------------------------------------
(* The EventVector bit of the engine.                                      *)

\* EngineRequested is not inductive: EndCycle overwrites the bit, and is right
\* to because the wake-ups were consumed before the cycle executed.
Requested ==
    /\ EngineRequested
    /\ pc = "wakeOnTime" => ~wokenByKey
    /\ pc \in {"executing", "blocked"} => ~wokenByKey /\ ~wokenByTime

\* When nothing was started, nothing changed.
LEMMA PlayingGrows ==
    ASSUME Inv, NEW first, NEW second,
           afterEvent(first, second).playing = m.playing
    PROVE  afterEvent(first, second) = m
<1> DEFINE w == startMacro(m, NoSlot, first)
<1>1. Good(m) /\ (FreeSlots(m) # {} => FreeSlot(m) \notin m.playing)
    BY FreeSlotIsFree DEF Inv
<1>2. ~Starts(m, first)
    <2> SUFFICES ASSUME Starts(m, first) PROVE FALSE
        OBVIOUS
    <2>1. Good(w) /\ FreeSlot(m) \in w.playing
        <3> HIDE DEF w
        <3> QED BY <1>1, StartKeeps DEF w
    <2>2. \/ afterEvent(first, second) = w
          \/ /\ afterEvent(first, second) = queueMacro(w, FreeSlot(m))
             /\ FreeSlots(w) # {}
        BY DEF afterEvent, Starts
    <2>3. w.parent[FreeSlot(m)] = NoSlot
        <3> HIDE DEF w
        <3> QED BY <1>1, StartKeeps DEF w
    <2> HIDE DEF w
    <2>4. w.playing \subseteq afterEvent(first, second).playing
        BY <2>1, <2>2, <2>3, QueueKeeps
    <2> QED BY <1>1, <2>1, <2>4 DEF Starts
<1>3. ~Starts(m, second)
    BY <1>1, <1>2, StartKeeps DEF afterEvent, Starts
<1> QED BY <1>2, <1>3 DEF afterEvent, startMacro

\* Whenever a macro can run or a sleeper is to be woken, the main loop is asked
\* to run the engine.
THEOREM EngineStaysRequested == Spec => []EngineRequested
<1>1. Init => Requested
    BY DEF Init, EmptyPool, Requested, EngineRequested, Awake
<1>2. Inv /\ Requested /\ [Next]_vars => Requested'
    <2> SUFFICES ASSUME Inv, Requested, [Next]_vars PROVE Requested'
        OBVIOUS
    <2>1. ASSUME NEW answer, StartMacro(answer) PROVE Requested'
        <3>1. ~Starts(m, answer) => m' = m
            BY <2>1 DEF StartMacro, startMacro
        <3>2. pc = "idle" /\ pc' = "idle" /\ (Starts(m, answer) => engine')
            BY <2>1 DEF StartMacro
        <3>3. UNCHANGED <<wokenByKey, wokenByTime>> /\ (engine => engine')
            BY <2>1 DEF StartMacro, wakes
        <3> QED BY <3>1, <3>2, <3>3 DEF Requested, EngineRequested, Awake
    <2>2. ASSUME NEW first, NEW second, MacroEvent(first, second) PROVE Requested'
        <3>1. pc = "idle" /\ pc' = "idle" /\ UNCHANGED <<wokenByKey, wokenByTime>>
            BY <2>2 DEF MacroEvent, wakes
        <3>2. (engine => engine') /\ (m'.playing # m.playing => engine')
            BY <2>2, Zenon DEF MacroEvent
        <3>3. m'.playing = m.playing => m' = m
            BY <2>2, PlayingGrows DEF MacroEvent
        <3> QED BY <3>1, <3>2, <3>3 DEF Requested, EngineRequested, Awake
    <2>3. CASE KeystateChange \/ TimerExpires \/ ProtocolChange
        BY <2>3 DEF KeystateChange, TimerExpires, ProtocolChange,
                    Requested, EngineRequested
    <2>5. CASE BeginCycle \/ WakeOnKey \/ WakeOnTime
        BY <2>5 DEF BeginCycle, WakeOnKey, WakeOnTime, Requested, EngineRequested, bits, wakes
    <2>6. CASE EndCycle \/ Block
        <3>1. CASE EndCycle
            <4>1. ~wokenByKey /\ ~wokenByTime
                BY <3>1 DEF EndCycle, Requested
            <4>2. UNCHANGED <<m, wokenByKey, wokenByTime>> /\ pc' = "idle"
                BY <3>1 DEF EndCycle, wakes
            <4>3. Awake(m) # {} => engine'
                BY <3>1, Zenon DEF EndCycle
            <4> QED BY <4>1, <4>2, <4>3 DEF Requested, EngineRequested
        <3>2. CASE Block
            BY <3>2 DEF Block, Executes, Runs, Requested, EngineRequested, wakes
        <3> QED BY <2>6, <3>1, <3>2
    <2>7. ASSUME pc = "executing", pc' = pc, UNCHANGED <<wokenByKey, wokenByTime>>
          PROVE  Requested'
        BY <2>7 DEF Requested, EngineRequested
    <2>8. ASSUME NEW s, NEW n, NEW yields, NEW last, Runs(s), Finish(n, s, yields, last),
                 UNCHANGED <<wokenByKey, wokenByTime>>
          PROVE  Requested'
        BY <2>7, <2>8 DEF Runs, Finish, Iterate
    <2>9. CASE EndBroken
        BY <2>8, <2>9 DEF EndBroken, wakes
    <2>10. ASSUME NEW last \in BOOLEAN, Work(last) \/ Yield(last) \/ StopAll(last)
           PROVE  Requested'
        BY <2>8, <2>10 DEF Work, Yield, StopAll, Executes, wakes
    <2>11. ASSUME NEW onKey, NEW onTime, Sleep(onKey, onTime) PROVE Requested'
        BY <2>7, <2>11 DEF Sleep, Executes, Runs, Iterate
    <2>12. ASSUME NEW answer, NEW last,
                  Call(answer, last) \/ Fork(answer, last)
           PROVE  Requested'
        BY <2>8, <2>12 DEF Call, Fork, Executes, wakes
    <2>13. ASSUME NEW first, NEW second, NEW last, SwitchKeymap(first, second, last)
           PROVE Requested'
        BY <2>7, <2>13 DEF SwitchKeymap, Executes, Runs, Finish, Iterate, wakes
    <2>14. CASE UNCHANGED vars
        BY <2>14 DEF vars, bits, wakes, Requested, EngineRequested, Awake
    <2> QED BY <2>1, <2>2, <2>3, <2>5, <2>6, <2>9, <2>10, <2>11, <2>12, <2>13, <2>14
            DEF Next, Cycle, Events
<1>3. Requested => EngineRequested
    BY DEF Requested
<1> QED BY <1>1, <1>2, <1>3, Invariance, PTL DEF Spec

-----------------------------------------------------------------------------
(* What the operators of MacroSlots do to the macros themselves.           *)

\* A pool value has the fields of a pool.
IsPool(n) ==
    n = [playing |-> n.playing, sleeping |-> n.sleeping, broken |-> n.broken,
         scheduled |-> n.scheduled, wakeOnKey |-> n.wakeOnKey, wakeOnTime |-> n.wakeOnTime,
         nextSlot |-> n.nextSlot, parent |-> n.parent, awaits |-> n.awaits,
         previousSlotIdx |-> n.previousSlotIdx, currentSlotIdx |-> n.currentSlotIdx,
         lastQueuedSlot |-> n.lastQueuedSlot, activeSlotCount |-> n.activeSlotCount,
         remainingCount |-> n.remainingCount]

\* Pools n and r differ in their run queues only.
SameMacros(n, r) ==
    /\ r.playing = n.playing /\ r.sleeping = n.sleeping /\ r.broken = n.broken
    /\ r.wakeOnKey = n.wakeOnKey /\ r.wakeOnTime = n.wakeOnTime
    /\ r.parent = n.parent /\ r.awaits = n.awaits

\* A macro that is woken is not registered any more.
Wakes(n, i, r) ==
    /\ r.playing = n.playing /\ r.sleeping = n.sleeping \ {i}
    /\ r.broken = n.broken /\ r.parent = n.parent /\ r.awaits = n.awaits
    /\ r.wakeOnKey = IF i \in n.sleeping THEN n.wakeOnKey \ {i} ELSE n.wakeOnKey
    /\ r.wakeOnTime = IF i \in n.sleeping THEN n.wakeOnTime \ {i} ELSE n.wakeOnTime

\* A macro that is new is awake and has the parent it was given.
Enters(n, i, par, r) ==
    /\ r.playing = n.playing \cup {i} /\ r.sleeping = n.sleeping \ {i}
    /\ r.broken = n.broken \ {i}
    /\ r.wakeOnKey = n.wakeOnKey \ {i} /\ r.wakeOnTime = n.wakeOnTime \ {i}
    /\ r.parent = [n.parent EXCEPT ![i] = par]
    /\ r.awaits = [n.awaits EXCEPT ![i] = NoSlot]

\* A macro that ends wakes its parent.
Ends(n, s, r) ==
    /\ r.playing = n.playing \ {s} /\ r.sleeping = n.sleeping \ {s, n.parent[s]}
    /\ r.broken = n.broken \ {s} /\ r.parent = n.parent /\ r.awaits = forget(n, s)
    /\ LET woken == n.sleeping \cap ({n.parent[s]} \ {s})
       IN  r.wakeOnKey = n.wakeOnKey \ woken /\ r.wakeOnTime = n.wakeOnTime \ woken

\* A macro falls asleep with the registrations it asks for.
Sleeps(n, s, onKey, onTime, r) ==
    /\ r.playing = n.playing /\ r.sleeping = n.sleeping \cup {s}
    /\ r.broken = n.broken /\ r.parent = n.parent /\ r.awaits = n.awaits
    /\ r.wakeOnKey = IF onKey THEN n.wakeOnKey \cup {s} ELSE n.wakeOnKey
    /\ r.wakeOnTime = IF onTime THEN n.wakeOnTime \cup {s} ELSE n.wakeOnTime

\* Macro i is called by s, which sleeps without a registration.
Calls(n, s, i, r) ==
    /\ r.playing = n.playing \cup {i}
    /\ r.sleeping = (n.sleeping \ {i}) \cup {s} /\ r.broken = n.broken \ {i}
    /\ r.wakeOnKey = n.wakeOnKey \ {i, s} /\ r.wakeOnTime = n.wakeOnTime \ {i, s}
    /\ r.parent = [n.parent EXCEPT ![i] = s]
    /\ r.awaits = [[n.awaits EXCEPT ![i] = NoSlot] EXCEPT ![s] = i]

\* Macro i sleeps behind macro a, and becomes its parent.
Queues(n, a, i, r) ==
    /\ r.playing = n.playing \cup {i}
    /\ r.sleeping = n.sleeping \cup {i} /\ r.broken = n.broken \ {i}
    /\ r.wakeOnKey = n.wakeOnKey \ {i} /\ r.wakeOnTime = n.wakeOnTime \ {i}
    /\ r.parent = [[n.parent EXCEPT ![i] = NoSlot] EXCEPT ![a] = i]
    /\ r.awaits = [[n.awaits EXCEPT ![i] = NoSlot] EXCEPT ![i] = a]

\* The members of Pool have its fields.
LEMMA PoolsArePools == ASSUME NEW n \in Pool PROVE IsPool(n)
BY DEF Pool, IsPool

\* The run queue is all that scheduling touches.
LEMMA QueueOnly ==
    ASSUME NEW n, IsPool(n), NEW i
    PROVE  /\ IsPool(scheduleSlot(n, i)) /\ SameMacros(n, scheduleSlot(n, i))
           /\ IsPool(unscheduleCurrentSlot(n, i)) /\ SameMacros(n, unscheduleCurrentSlot(n, i))
           /\ IsPool(getNextScheduledSlot(n)) /\ SameMacros(n, getNextScheduledSlot(n))
<1>1. IsPool(scheduleSlot(n, i)) /\ SameMacros(n, scheduleSlot(n, i))
    BY DEF IsPool, SameMacros, scheduleSlot
<1>2. IsPool(unscheduleCurrentSlot(n, i)) /\ SameMacros(n, unscheduleCurrentSlot(n, i))
    BY DEF IsPool, SameMacros, unscheduleCurrentSlot
<1>3. IsPool(getNextScheduledSlot(n)) /\ SameMacros(n, getNextScheduledSlot(n))
    BY DEF IsPool, SameMacros, getNextScheduledSlot
<1> QED BY <1>1, <1>2, <1>3

\* wakeMacroInSlot
LEMMA WakeMacros ==
    ASSUME NEW n, IsPool(n), NEW i
    PROVE  IsPool(wakeMacroInSlot(n, i)) /\ Wakes(n, i, wakeMacroInSlot(n, i))
<1>1. CASE i \in n.sleeping
    <2> DEFINE a == n.sleeping \ {i}
               b == n.wakeOnKey \ {i}
               c == n.wakeOnTime \ {i}
               w == [n EXCEPT !.sleeping = a, !.wakeOnKey = b, !.wakeOnTime = c]
               r == scheduleSlot(w, i)
    <2>1. wakeMacroInSlot(n, i) = r
        BY <1>1 DEF wakeMacroInSlot
    <2>2. w = [n EXCEPT !.sleeping = a, !.wakeOnKey = b, !.wakeOnTime = c]
        OBVIOUS
    <2> HIDE DEF w
    <2>3. IsPool(r) /\ SameMacros(w, r)
        <3>1. IsPool(w)
            <4> HIDE DEF a, b, c
            <4> QED BY <2>2 DEF IsPool
        <3> QED BY <3>1, QueueOnly
    <2> HIDE DEF a, b, c, r
    <2>4. /\ w.playing = n.playing /\ w.sleeping = a /\ w.wakeOnKey = b /\ w.wakeOnTime = c
          /\ w.broken = n.broken /\ w.parent = n.parent /\ w.awaits = n.awaits
        BY <2>2 DEF IsPool
    <2>5. Wakes(n, i, r)
        BY <1>1, <2>3, <2>4 DEF SameMacros, Wakes, a, b, c
    <2> QED BY <2>1, <2>3, <2>5
<1>2. CASE i \notin n.sleeping
    BY <1>2 DEF wakeMacroInSlot, Wakes
<1> QED BY <1>1, <1>2

\* initMacro
LEMMA InitMacros ==
    ASSUME NEW n, IsPool(n), NEW i, NEW par
    PROVE  IsPool(initMacro(n, i, par)) /\ Enters(n, i, par, initMacro(n, i, par))
<1> SUFFICES ASSUME NEW r, r = initMacro(n, i, par) PROVE IsPool(r) /\ Enters(n, i, par, r)
    OBVIOUS
<1> QED BY DEF IsPool, initMacro, Enters

\* Macros_StartMacro: nothing, or one more macro in a free slot.
LEMMA StartMacros ==
    ASSUME NEW n, IsPool(n), NEW par, NEW answer, NEW r, r = startMacro(n, par, answer)
    PROVE  /\ ~Starts(n, answer) => r = n
           /\ Starts(n, answer) =>
                /\ FreeSlot(n) \in Slots \ n.playing
                /\ IsPool(r) /\ Enters(n, FreeSlot(n), par, r)
<1>1. CASE ~Starts(n, answer)
    BY <1>1 DEF startMacro
<1>2. CASE Starts(n, answer)
    <2> DEFINE i == FreeSlot(n)
               w == initMacro(n, i, par)
    <2>1. r = scheduleSlot(w, i)
        BY <1>2 DEF startMacro
    <2>2. i \in Slots \ n.playing
        BY <1>2, FreeSlotIsFree DEF Starts
    <2>3. IsPool(w) /\ Enters(n, i, par, w)
        BY InitMacros
    <2> HIDE DEF i, w
    <2>4. IsPool(r) /\ SameMacros(w, r)
        BY <2>1, <2>3, QueueOnly
    <2>5. Enters(n, i, par, r)
        BY <2>3, <2>4 DEF SameMacros, Enters
    <2> QED BY <1>2, <2>2, <2>4, <2>5 DEF i
<1> QED BY <1>1, <1>2

\* endMacro
LEMMA EndMacros ==
    ASSUME NEW n \in Pool, NEW s \in Slots
    PROVE  IsPool(endMacro(n, s)) /\ Ends(n, s, endMacro(n, s))
<1> DEFINE a == n.playing \ {s}
           b == n.sleeping \ {s}
           c == n.broken \ {s}
           g == forget(n, s)
           w == [n EXCEPT !.playing = a, !.sleeping = b, !.broken = c, !.awaits = g]
           u == unscheduleCurrentSlot(w, s)
           p == n.parent[s]
           r == endMacro(n, s)
<1>1. IsPool(n) /\ n.sleeping \subseteq Slots /\ NoSlot \notin Slots
    BY PoolsArePools, SlotsFacts DEF Pool
<1>2. /\ w = [n EXCEPT !.playing = a, !.sleeping = b, !.broken = c, !.awaits = g]
      /\ r = IF u.parent[s] # NoSlot THEN wakeMacroInSlot(u, u.parent[s]) ELSE u
    BY DEF endMacro
<1> HIDE DEF w, r
<1>3. /\ IsPool(w) /\ w.playing = a /\ w.sleeping = b /\ w.broken = c /\ w.parent = n.parent
      /\ w.awaits = g /\ w.wakeOnKey = n.wakeOnKey /\ w.wakeOnTime = n.wakeOnTime
    <2> HIDE DEF a, b, c, g
    <2> QED BY <1>1, <1>2 DEF IsPool
<1>4. IsPool(u) /\ SameMacros(w, u)
    BY <1>3, QueueOnly
<1> HIDE DEF u, p, g
<1>5. u.parent[s] = p
    BY <1>3, <1>4 DEF SameMacros, p
<1>6. CASE p = NoSlot
    <2>1. r = u /\ IsPool(u)
        BY <1>2, <1>4, <1>5, <1>6
    <2>2. Ends(n, s, r)
        BY <1>1, <1>3, <1>4, <1>6, <2>1 DEF SameMacros, Ends, p, g
    <2> QED BY <2>1, <2>2 DEF r
<1>7. CASE p # NoSlot
    <2>1. r = wakeMacroInSlot(u, p)
        BY <1>2, <1>5, <1>7
    <2>2. IsPool(r) /\ Wakes(u, p, r)
        BY <1>4, <2>1, WakeMacros
    <2>3. Ends(n, s, r)
        BY <1>3, <1>4, <2>2 DEF SameMacros, Wakes, Ends, p, g
    <2> QED BY <2>2, <2>3 DEF r
<1> QED BY <1>6, <1>7

\* Macros_SleepTillKeystateChange and Macros_SleepTillTime
LEMMA SleepMacros ==
    ASSUME NEW n, IsPool(n), NEW s, NEW onKey, NEW onTime
    PROVE  /\ IsPool(sleepMacro(n, s, onKey, onTime))
           /\ Sleeps(n, s, onKey, onTime, sleepMacro(n, s, onKey, onTime))
<1> DEFINE u == unscheduleCurrentSlot(n, s)
           a == u.sleeping \cup {s}
           b == IF onKey THEN u.wakeOnKey \cup {s} ELSE u.wakeOnKey
           c == IF onTime THEN u.wakeOnTime \cup {s} ELSE u.wakeOnTime
           r == sleepMacro(n, s, onKey, onTime)
<1>1. IsPool(u) /\ SameMacros(n, u)
    BY QueueOnly
<1>2. r = [u EXCEPT !.sleeping = a, !.wakeOnKey = b, !.wakeOnTime = c]
    BY DEF sleepMacro
<1> HIDE DEF u, a, b, c, r
<1>3. /\ IsPool(r) /\ r.playing = u.playing /\ r.sleeping = a /\ r.wakeOnKey = b /\ r.wakeOnTime = c
      /\ r.broken = u.broken /\ r.parent = u.parent /\ r.awaits = u.awaits
    BY <1>1, <1>2 DEF IsPool
<1>4. Sleeps(n, s, onKey, onTime, r)
    BY <1>1, <1>3 DEF SameMacros, Sleeps, a, b, c
<1> QED BY <1>3, <1>4 DEF r

\* callMacro
LEMMA CallMacros ==
    ASSUME NEW n, IsPool(n), NEW s, NEW answer, Starts(n, answer)
    PROVE  /\ FreeSlot(n) \in Slots \ n.playing
           /\ IsPool(callMacro(n, s, answer)) /\ Calls(n, s, FreeSlot(n), callMacro(n, s, answer))
<1> DEFINE i == FreeSlot(n)
           w == startMacro(n, s, answer)
           u == unscheduleCurrentSlot(w, s)
           a == u.sleeping \cup {s}
           b == u.wakeOnKey \ {s}
           c == u.wakeOnTime \ {s}
           h == [u.awaits EXCEPT ![s] = i]
           r == callMacro(n, s, answer)
<1>1. i \in Slots \ n.playing /\ IsPool(w) /\ Enters(n, i, s, w)
    BY StartMacros
<1>2. IsPool(u) /\ SameMacros(w, u)
    <2> HIDE DEF w
    <2> QED BY <1>1, QueueOnly
<1>3. r = [u EXCEPT !.sleeping = a, !.wakeOnKey = b, !.wakeOnTime = c, !.awaits = h]
    BY DEF callMacro
<1> HIDE DEF i, w, u, a, b, c, h, r
<1>4. /\ IsPool(r) /\ r.playing = u.playing /\ r.sleeping = a /\ r.wakeOnKey = b /\ r.wakeOnTime = c
      /\ r.broken = u.broken /\ r.parent = u.parent /\ r.awaits = h
    BY <1>2, <1>3 DEF IsPool
<1>5. Calls(n, s, i, r)
    BY <1>1, <1>2, <1>4 DEF Enters, SameMacros, Calls, a, b, c, h
<1> QED BY <1>1, <1>4, <1>5 DEF i, r

\* Macros_QueueMacro behind a macro that has no parent.
LEMMA QueueMacros ==
    ASSUME NEW n \in Pool, FreeSlots(n) # {}, NEW after \in n.playing, n.parent[after] = NoSlot
    PROVE  /\ FreeSlot(n) \in Slots \ n.playing
           /\ IsPool(queueMacro(n, after)) /\ Queues(n, after, FreeSlot(n), queueMacro(n, after))
<1> DEFINE i == FreeSlot(n)
           w == initMacro(n, i, NoSlot)
           a == chainEnd(w, after)
           b == w.sleeping \cup {i}
           g == [w.parent EXCEPT ![a] = i]
           h == [w.awaits EXCEPT ![i] = a]
           r == queueMacro(n, after)
<1>1. /\ i \in Slots \ n.playing /\ after \in Slots /\ after # i
      /\ n.parent \in [Slots -> Slots \cup {NoSlot}]
    BY FreeSlotIsFree DEF Pool
<1>2. IsPool(w) /\ Enters(n, i, NoSlot, w)
    BY PoolsArePools, InitMacros
<1>3. r = [w EXCEPT !.parent = g, !.sleeping = b, !.awaits = h]
    BY Zenon DEF queueMacro
<1> HIDE DEF i, w, r
<1>4. a = after
    <2>1. w.parent[after] = NoSlot
        BY <1>1, <1>2 DEF Enters
    <2>2. parentChain(w, after) = {after}
        <3>1. after \in parentChain(w, after)
            BY <1>1 DEF parentChain
        <3>2. \A j \in parentChain(w, after) : j \in {after}
            <4>1. {after} \in SUBSET Slots /\ \A k \in {after} : w.parent[k] # NoSlot => w.parent[k] \in {after}
                BY <1>1, <2>1
            <4> QED BY <4>1 DEF parentChain
        <3> QED BY <3>1, <3>2
    <2> QED BY <2>1, <2>2 DEF chainEnd
<1> HIDE DEF a, b, g, h
<1>5. /\ IsPool(r) /\ r.playing = w.playing /\ r.sleeping = b /\ r.broken = w.broken
      /\ r.wakeOnKey = w.wakeOnKey /\ r.wakeOnTime = w.wakeOnTime
      /\ r.parent = g /\ r.awaits = h
    BY <1>2, <1>3 DEF IsPool
<1>6. Queues(n, after, i, r)
    <2>1. r.sleeping = n.sleeping \cup {i}
        BY <1>2, <1>5 DEF Enters, b
    <2> QED BY <1>2, <1>4, <1>5, <2>1 DEF Enters, Queues, g, h
<1> QED BY <1>1, <1>5, <1>6 DEF i, r

-----------------------------------------------------------------------------
(* Somebody wakes every sleeper.                                           *)

\* SleepersHaveWakers for pool n, if key changes (key) and times (time) are
\* noticed.
Woken(n, key, time) ==
    \A i \in n.sleeping :
        \/ i \in n.wakeOnKey /\ key
        \/ i \in n.wakeOnTime /\ time
        \/ \E j \in n.playing : n.parent[j] = i

\* Calls and queueing pair macros up: the one that waits sleeps without a
\* registration, and is the parent of the one it waits for; and a sleeper
\* waits for a macro or is registered.
Family(n) ==
    /\ n.broken = {} /\ n.sleeping \subseteq n.playing
    /\ n.wakeOnKey \cup n.wakeOnTime \subseteq n.sleeping
    /\ \A i \in n.playing : n.awaits[i] # NoSlot =>
         /\ i \in n.sleeping \ (n.wakeOnKey \cup n.wakeOnTime)
         /\ n.awaits[i] \in n.playing /\ n.parent[n.awaits[i]] = i
    /\ \A j \in n.playing : n.parent[j] # NoSlot =>
         n.parent[j] \in n.playing /\ n.awaits[n.parent[j]] = j

\* Only the macros matter, not their order in the run queue.
LEMMA QueueIndifferent ==
    ASSUME NEW n, NEW r, SameMacros(n, r), NEW k, NEW t
    PROVE  /\ Woken(n, k, t) => Woken(r, k, t)
           /\ Family(n) => Family(r)
BY DEF SameMacros, Woken, Family

\* A macro that is woken by its event.
LEMMA WakesWell ==
    ASSUME NEW n \in Pool, NEW i \in n.wakeOnKey \cup n.wakeOnTime, NEW r, Wakes(n, i, r),
           NEW k, NEW t
    PROVE  /\ Woken(n, k, t) => Woken(r, k, t)
           /\ Family(n) => Family(r)
<1>1. Woken(n, k, t) => Woken(r, k, t)
    BY DEF Wakes, Woken
<1>2. Family(n) => Family(r)
    <2> SUFFICES ASSUME Family(n) PROVE Family(r)
        OBVIOUS
    <2>1. /\ r.broken = {} /\ r.playing = n.playing /\ r.sleeping = n.sleeping \ {i}
          /\ r.wakeOnKey = n.wakeOnKey \ {i} /\ r.wakeOnTime = n.wakeOnTime \ {i}
          /\ r.parent = n.parent /\ r.awaits = n.awaits
        BY DEF Wakes, Family
    <2>2. n.awaits[i] = NoSlot
        BY DEF Family
    <2> QED BY <2>1, <2>2 DEF Family
<1> QED BY <1>1, <1>2

\* A new macro without a parent.
LEMMA EntersWell ==
    ASSUME NEW n \in Pool, n.sleeping \subseteq n.playing, NEW i \in Slots \ n.playing,
           NEW r, Enters(n, i, NoSlot, r), NEW k, NEW t
    PROVE  /\ Woken(n, k, t) => Woken(r, k, t)
           /\ Family(n) => Family(r)
<1>1. /\ n.playing \subseteq Slots /\ i \notin n.playing /\ i \notin n.sleeping
      /\ r.playing = n.playing \cup {i} /\ r.sleeping = n.sleeping
      /\ r.parent[i] = NoSlot /\ r.awaits[i] = NoSlot
      /\ \A j \in n.playing : r.parent[j] = n.parent[j] /\ r.awaits[j] = n.awaits[j]
      /\ r.broken = n.broken \ {i}
      /\ r.wakeOnKey = n.wakeOnKey \ {i} /\ r.wakeOnTime = n.wakeOnTime \ {i}
    BY DEF Enters, Pool
<1>2. Woken(n, k, t) => Woken(r, k, t)
    BY <1>1 DEF Woken
<1>3. Family(n) => Family(r)
    <2> SUFFICES ASSUME Family(n) PROVE Family(r)
        OBVIOUS
    <2>1. r.wakeOnKey = n.wakeOnKey /\ r.wakeOnTime = n.wakeOnTime /\ r.broken = {}
        BY <1>1 DEF Family
    <2>2. r.sleeping \subseteq r.playing /\ r.wakeOnKey \cup r.wakeOnTime \subseteq r.sleeping
        BY <1>1, <2>1 DEF Family
    <2>3. \A x \in r.playing : r.awaits[x] # NoSlot =>
            /\ x \in r.sleeping \ (r.wakeOnKey \cup r.wakeOnTime)
            /\ r.awaits[x] \in r.playing /\ r.parent[r.awaits[x]] = x
        BY <1>1, <2>1 DEF Family
    <2>4. \A j \in r.playing : r.parent[j] # NoSlot =>
            r.parent[j] \in r.playing /\ r.awaits[r.parent[j]] = j
        BY <1>1 DEF Family
    <2> QED BY <2>1, <2>2, <2>3, <2>4 DEF Family
<1> QED BY <1>2, <1>3

\* The end of a macro wakes whoever has it for a waker.
LEMMA EndsWell ==
    ASSUME NEW n \in Pool, NEW s \in Slots, NEW r, Ends(n, s, r), NEW k, NEW t
    PROVE  /\ Woken(n, k, t) => Woken(r, k, t)
           /\ Family(n) /\ s \in Awake(n) => Family(r)
<1>1. Woken(n, k, t) => Woken(r, k, t)
    BY DEF Ends, Woken
<1>2. Family(n) /\ s \in Awake(n) => Family(r)
    <2> SUFFICES ASSUME Family(n), s \in n.playing, s \notin n.sleeping PROVE Family(r)
        BY DEF Awake
    <2> DEFINE p == n.parent[s]
    <2>1. n.playing \subseteq Slots /\ NoSlot \notin Slots /\ s # NoSlot
        BY SlotsFacts DEF Pool
    <2>2. n.awaits[s] = NoSlot /\ \A j \in n.playing : n.parent[j] # s
        BY <2>1 DEF Family
    <2>3. p # NoSlot => p \in n.playing /\ n.awaits[p] = s /\ p \in n.sleeping
                        /\ p \notin n.wakeOnKey \cup n.wakeOnTime
        BY <2>1 DEF Family
    <2>4. p \notin n.wakeOnKey \cup n.wakeOnTime
        BY <2>1, <2>3 DEF Family
    <2>5. /\ r.playing = n.playing \ {s} /\ r.sleeping = n.sleeping \ {p} /\ r.broken = {}
          /\ r.wakeOnKey = n.wakeOnKey /\ r.wakeOnTime = n.wakeOnTime /\ r.parent = n.parent
          /\ \A i \in n.playing \ {s} :
               r.awaits[i] = IF n.awaits[i] = s THEN NoSlot ELSE n.awaits[i]
        BY <2>1, <2>4 DEF Ends, forget, Family
    <2>6. r.sleeping \subseteq r.playing /\ r.wakeOnKey \cup r.wakeOnTime \subseteq r.sleeping
        BY <2>4, <2>5 DEF Family
    <2>7. ASSUME NEW i \in r.playing, r.awaits[i] # NoSlot
          PROVE  /\ i \in r.sleeping \ (r.wakeOnKey \cup r.wakeOnTime)
                 /\ r.awaits[i] \in r.playing /\ r.parent[r.awaits[i]] = i
        <3>1. n.awaits[i] # s /\ r.awaits[i] = n.awaits[i] /\ i \in n.playing
            BY <2>5, <2>7
        <3>2. i # p
            BY <2>1, <2>3, <3>1
        <3> QED BY <2>5, <2>7, <3>1, <3>2 DEF Family
    <2>8. ASSUME NEW j \in r.playing, r.parent[j] # NoSlot
          PROVE  r.parent[j] \in r.playing /\ r.awaits[r.parent[j]] = j
        <3>1. j \in n.playing /\ j # s /\ n.parent[j] # s /\ r.parent[j] = n.parent[j]
            BY <2>2, <2>5
        <3>2. n.parent[j] \in n.playing /\ n.awaits[n.parent[j]] = j
            BY <2>8, <3>1 DEF Family
        <3> QED BY <2>5, <3>1, <3>2
    <2> QED BY <2>5, <2>6, <2>7, <2>8 DEF Family
<1> QED BY <1>1, <1>2

\* A macro that falls asleep registers itself.
LEMMA SleepsWell ==
    ASSUME NEW n \in Pool, NEW s \in Awake(n), NEW onKey \in BOOLEAN, NEW onTime \in BOOLEAN,
           onKey \/ onTime, NEW r, Sleeps(n, s, onKey, onTime, r), NEW k, NEW t
    PROVE  /\ Woken(n, k, t) => Woken(r, k \/ onKey, t \/ onTime)
           /\ Family(n) => Family(r)
<1>1. Woken(n, k, t) => Woken(r, k \/ onKey, t \/ onTime)
    BY DEF Sleeps, Woken
<1>2. Family(n) => Family(r)
    <2> SUFFICES ASSUME Family(n) PROVE Family(r)
        OBVIOUS
    <2>1. n.awaits[s] = NoSlot /\ s \in n.playing
        BY DEF Family, Awake
    <2> QED BY <2>1 DEF Sleeps, Family
<1> QED BY <1>1, <1>2

\* A call makes the caller the parent of the macro that is called.
LEMMA CallsWell ==
    ASSUME NEW n \in Pool, n.sleeping \subseteq n.playing, NEW s \in Awake(n),
           NEW i \in Slots \ n.playing, NEW r, Calls(n, s, i, r), NEW k, NEW t
    PROVE  /\ Woken(n, k, t) => Woken(r, k, t)
           /\ Family(n) => Family(r)
<1>1. /\ n.playing \subseteq Slots /\ s \in n.playing /\ s \notin n.sleeping /\ i \notin n.sleeping /\ i # s
      /\ r.playing = n.playing \cup {i} /\ r.sleeping = n.sleeping \cup {s}
      /\ r.broken = n.broken \ {i}
      /\ r.wakeOnKey = n.wakeOnKey \ {i, s} /\ r.wakeOnTime = n.wakeOnTime \ {i, s}
      /\ r.parent[i] = s /\ \A j \in n.playing : r.parent[j] = n.parent[j]
      /\ r.awaits[i] = NoSlot /\ r.awaits[s] = i
      /\ \A j \in n.playing \ {s} : r.awaits[j] = n.awaits[j]
    BY DEF Calls, Awake, Pool
<1>2. Woken(n, k, t) => Woken(r, k, t)
    BY <1>1 DEF Woken
<1>3. Family(n) => Family(r)
    <2> SUFFICES ASSUME Family(n) PROVE Family(r)
        OBVIOUS
    <2>1. n.awaits[s] = NoSlot /\ NoSlot \notin Slots
        BY <1>1, SlotsFacts DEF Family
    <2>2. r.wakeOnKey = n.wakeOnKey /\ r.wakeOnTime = n.wakeOnTime /\ r.broken = {}
        BY <1>1 DEF Family
    <2>3. r.sleeping \subseteq r.playing /\ r.wakeOnKey \cup r.wakeOnTime \subseteq r.sleeping
        BY <1>1, <2>2 DEF Family
    <2>4. ASSUME NEW x \in r.playing, r.awaits[x] # NoSlot
          PROVE  /\ x \in r.sleeping \ (r.wakeOnKey \cup r.wakeOnTime)
                 /\ r.awaits[x] \in r.playing /\ r.parent[r.awaits[x]] = x
        <3>1. CASE x = s
            BY <1>1, <2>2, <3>1 DEF Family
        <3>2. CASE x # s
            <4>1. x \in n.playing /\ r.awaits[x] = n.awaits[x]
                BY <1>1, <2>4, <3>2
            <4> QED BY <1>1, <2>2, <2>4, <4>1 DEF Family
        <3> QED BY <3>1, <3>2
    <2>5. ASSUME NEW j \in r.playing, r.parent[j] # NoSlot
          PROVE  r.parent[j] \in r.playing /\ r.awaits[r.parent[j]] = j
        <3>1. CASE j = i
            BY <1>1, <3>1
        <3>2. CASE j # i
            <4>1. j \in n.playing /\ j \in Slots /\ r.parent[j] = n.parent[j]
                BY <1>1, <3>2
            <4>2. n.parent[j] \in n.playing /\ n.awaits[n.parent[j]] = j
                BY <2>5, <4>1 DEF Family
            <4> QED BY <1>1, <2>1, <4>1, <4>2
        <3> QED BY <3>1, <3>2
    <2> QED BY <2>2, <2>3, <2>4, <2>5 DEF Family
<1> QED BY <1>2, <1>3

\* A macro queued behind another becomes its parent.
LEMMA QueuesWell ==
    ASSUME NEW n \in Pool, n.sleeping \subseteq n.playing, NEW a \in n.playing, n.parent[a] = NoSlot,
           NEW i \in Slots \ n.playing, NEW r, Queues(n, a, i, r), NEW k, NEW t
    PROVE  /\ Woken(n, k, t) => Woken(r, k, t)
           /\ Family(n) => Family(r)
<1>1. /\ n.playing \subseteq Slots /\ NoSlot \notin Slots /\ a \in Slots /\ i \notin n.sleeping /\ i # a
      /\ r.playing = n.playing \cup {i} /\ r.sleeping = n.sleeping \cup {i}
      /\ r.broken = n.broken \ {i}
      /\ r.wakeOnKey = n.wakeOnKey \ {i} /\ r.wakeOnTime = n.wakeOnTime \ {i}
      /\ r.parent[i] = NoSlot /\ r.parent[a] = i /\ \A j \in n.playing \ {a} : r.parent[j] = n.parent[j]
      /\ r.awaits[i] = a /\ \A j \in n.playing : r.awaits[j] = n.awaits[j]
    BY SlotsFacts DEF Queues, Pool
<1>2. Woken(n, k, t) => Woken(r, k, t)
    <2> SUFFICES ASSUME Woken(n, k, t), NEW x \in r.sleeping
                 PROVE  \/ x \in r.wakeOnKey /\ k
                        \/ x \in r.wakeOnTime /\ t
                        \/ \E j \in r.playing : r.parent[j] = x
        BY DEF Woken
    <2>1. CASE x = i
        BY <1>1, <2>1
    <2>2. CASE x # i
        <3>1. x \in n.sleeping /\ x # NoSlot
            BY <1>1, <2>2
        <3> QED BY <1>1, <2>2, <3>1 DEF Woken
    <2> QED BY <2>1, <2>2
<1>3. Family(n) => Family(r)
    <2> SUFFICES ASSUME Family(n) PROVE Family(r)
        OBVIOUS
    <2>1. r.wakeOnKey = n.wakeOnKey /\ r.wakeOnTime = n.wakeOnTime /\ r.broken = {}
        BY <1>1 DEF Family
    <2>2. /\ r.sleeping \subseteq r.playing /\ r.wakeOnKey \cup r.wakeOnTime \subseteq r.sleeping
          /\ i \notin r.wakeOnKey \cup r.wakeOnTime
        BY <1>1, <2>1 DEF Family
    <2>3. ASSUME NEW x \in r.playing, r.awaits[x] # NoSlot
          PROVE  /\ x \in r.sleeping \ (r.wakeOnKey \cup r.wakeOnTime)
                 /\ r.awaits[x] \in r.playing /\ r.parent[r.awaits[x]] = x
        <3>1. CASE x = i
            BY <1>1, <2>2, <3>1
        <3>2. CASE x # i
            <4>1. x \in n.playing /\ x # NoSlot /\ r.awaits[x] = n.awaits[x]
                BY <1>1, <3>2
            <4>2. /\ x \in n.sleeping \ (n.wakeOnKey \cup n.wakeOnTime)
                  /\ n.awaits[x] \in n.playing /\ n.parent[n.awaits[x]] = x
                BY <2>3, <4>1 DEF Family
            <4> QED BY <1>1, <2>1, <4>1, <4>2
        <3> QED BY <3>1, <3>2
    <2>4. ASSUME NEW j \in r.playing, r.parent[j] # NoSlot
          PROVE  r.parent[j] \in r.playing /\ r.awaits[r.parent[j]] = j
        <3>1. CASE j = a
            BY <1>1, <3>1
        <3>2. CASE j # a
            <4>1. j \in n.playing /\ r.parent[j] = n.parent[j]
                BY <1>1, <2>4, <3>2
            <4>2. n.parent[j] \in n.playing /\ n.awaits[n.parent[j]] = j
                BY <2>4, <4>1 DEF Family
            <4> QED BY <1>1, <4>1, <4>2
        <3> QED BY <3>1, <3>2
    <2> QED BY <2>1, <2>2, <2>3, <2>4 DEF Family
<1> QED BY <1>2, <1>3

\* stopAllMacros wakes all but one, who stays as it was.
LEMMA StopsWell ==
    ASSUME NEW n \in Pool, NEW s, NEW k, NEW t, Woken(n, k, t)
    PROVE  Woken(stopAllMacros(n, s), k, t)
<1> DEFINE r == stopAllMacros(n, s)
<1>1. r.sleeping = n.sleeping \cap {s} /\ r.wakeOnKey = n.wakeOnKey /\ r.wakeOnTime = n.wakeOnTime
      /\ r.playing = n.playing /\ r.parent = n.parent
    BY DEF stopAllMacros, Pool
<1> HIDE DEF r
<1>2. Woken(r, k, t)
    BY <1>1 DEF Woken
<1> QED BY <1>2 DEF r

\* The macros do not stop one another, call only with a command to follow, and
\* have scopes enough.
Cooperative == "stopAll" \notin Commands /\ ~TailCalls /\ "noScope" \notin Answers

Kin(n, k, t) == Woken(n, k, t) /\ (Cooperative => Family(n))

\* The event macros: one starts, and a second waits behind it.
LEMMA AfterEventWell ==
    ASSUME Inv, NEW first, NEW second, NEW k, NEW t, Kin(m, k, t)
    PROVE  /\ Kin(afterEvent(first, second), k, t)
           /\ Awake(m) \subseteq Awake(afterEvent(first, second))
<1> DEFINE r == afterEvent(first, second)
           w == startMacro(m, NoSlot, first)
<1>1. Good(m) /\ m \in Pool /\ m.sleeping \subseteq m.playing /\ IsPool(m)
    BY PoolsArePools DEF Inv, Good, Sound
<1>2. ASSUME NEW answer, NEW x, x = startMacro(m, NoSlot, answer)
      PROVE  Kin(x, k, t) /\ Awake(m) \subseteq Awake(x)
    <2>1. CASE ~Starts(m, answer)
        BY <1>2, <2>1 DEF startMacro
    <2>2. CASE Starts(m, answer)
        <3>1. FreeSlot(m) \in Slots \ m.playing /\ Enters(m, FreeSlot(m), NoSlot, x)
            BY <1>1, <1>2, <2>2, StartMacros
        <3>2. Kin(x, k, t)
            BY <1>1, <3>1, EntersWell DEF Kin
        <3>3. Awake(m) \subseteq Awake(x)
            BY <3>1 DEF Enters, Awake
        <3> QED BY <3>2, <3>3
    <2> QED BY <2>1, <2>2
<1>3. Kin(w, k, t) /\ Awake(m) \subseteq Awake(w)
    <2> HIDE DEF w
    <2> QED BY <1>2 DEF w
<1>4. CASE ~Starts(m, first)
    <2>1. r = startMacro(m, NoSlot, second)
        BY <1>4 DEF afterEvent
    <2> HIDE DEF r
    <2>2. Kin(r, k, t) /\ Awake(m) \subseteq Awake(r)
        BY <1>2, <2>1
    <2> QED BY <2>2 DEF r
<1>5. CASE Starts(m, first) /\ ~Starts(w, second)
    <2>1. r = w
        BY <1>5 DEF afterEvent
    <2> HIDE DEF r, w
    <2> QED BY <1>3, <2>1 DEF r
<1>6. CASE Starts(m, first) /\ Starts(w, second)
    <2> DEFINE a == FreeSlot(m)
    <2>1. r = queueMacro(w, a) /\ FreeSlots(w) # {}
        BY <1>6 DEF afterEvent, Starts
    <2>2. Good(w) /\ a \in w.playing /\ w.parent[a] = NoSlot
        <3>1. w = startMacro(m, NoSlot, first)
            OBVIOUS
        <3> HIDE DEF w
        <3> QED BY <1>1, <1>6, <3>1, StartKeeps
    <2> HIDE DEF r, w, a
    <2>3. w \in Pool /\ w.sleeping \subseteq w.playing
        BY <2>2 DEF Good, Sound
    <2>4. FreeSlot(w) \in Slots \ w.playing /\ Queues(w, a, FreeSlot(w), r)
        BY <2>1, <2>2, <2>3, QueueMacros
    <2>5. Kin(r, k, t)
        BY <1>3, <2>2, <2>3, <2>4, QueuesWell DEF Kin
    <2>6. Awake(w) \subseteq Awake(r)
        BY <2>4 DEF Queues, Awake
    <2> QED BY <1>3, <2>5, <2>6 DEF r
<1> QED BY <1>4, <1>5, <1>6

\* The end of a loop iteration.
LEMMA IterateWell ==
    ASSUME NEW n, IsPool(n), NEW s, NEW yields, Iterate(n, s, yields), NEW k, NEW t, Kin(n, k, t)
    PROVE  Kin(m', k, t)
<1>1. SameMacros(n, m')
    BY QueueOnly DEF Iterate, SameMacros
<1> QED BY <1>1, QueueIndifferent DEF Kin

\* The epilogue of continueMacro.
LEMMA FinishWell ==
    ASSUME NEW n \in Pool, NEW s \in Slots, NEW yields, NEW last \in BOOLEAN,
           Finish(n, s, yields, last), NEW k, NEW t, Kin(n, k, t),
           Cooperative /\ last => s \in Awake(n)
    PROVE  Kin(m', k, t)
<1>1. CASE last
    <2> DEFINE r == endMacro(n, s)
    <2>1. IsPool(r) /\ Ends(n, s, r)
        BY EndMacros
    <2>2. Iterate(r, s, TRUE)
        BY <1>1 DEF Finish, Iterate
    <2> HIDE DEF r
    <2>3. Kin(r, k, t)
        BY <1>1, <2>1, EndsWell DEF Kin
    <2> QED BY <2>1, <2>2, <2>3, IterateWell
<1>2. CASE ~last
    <2>1. Iterate(n, s, yields)
        BY <1>2 DEF Finish, Iterate
    <2> QED BY <2>1, PoolsArePools, IterateWell
<1> QED BY <1>1, <1>2

\* Everybody is woken, and the macros are paired.
Bond == Kin(m, wakeMeOnKey, wakeTimer \/ wokenByTime)

\* The two loops of wakeSleepers use a notice up only when no sleeper needs it.
LEMMA WakingKeepsBond ==
    ASSUME Inv, Bond, WakeOnKey \/ WakeOnTime
    PROVE  Bond'
<1>1. m \in Pool /\ IsPool(m)
    BY PoolsArePools DEF Inv, Good, Sound
<1>2. CASE WakeOnKey
    <2> DEFINE W == m.wakeOnKey \cap m.sleeping
               i == FirstSlot(W)
    <2>1. UNCHANGED <<wakeTimer, wokenByTime>>
        BY <1>2 DEF WakeOnKey
    <2>2. CASE wokenByKey /\ W # {}
        <3>1. m' = wakeMacroInSlot(m, i) /\ wakeMeOnKey' = wakeMeOnKey
            BY <1>2, <2>2 DEF WakeOnKey
        <3>2. i \in W
            <4>1. W \in SUBSET Slots
                BY <1>1 DEF Pool
            <4> HIDE DEF W
            <4> QED BY <2>2, <4>1, FirstSlotOf
        <3> HIDE DEF i
        <3>3. Wakes(m, i, m')
            BY <1>1, <3>1, WakeMacros
        <3>4. Kin(m', wakeMeOnKey, wakeTimer \/ wokenByTime)
            BY <1>1, <3>2, <3>3, WakesWell DEF Bond, Kin
        <3> QED BY <2>1, <3>1, <3>4 DEF Bond
    <2>3. CASE ~(wokenByKey /\ W # {})
        <3>1. m' = m /\ wakeMeOnKey' = (wakeMeOnKey /\ ~wokenByKey)
            BY <1>2, <2>3 DEF WakeOnKey
        <3>2. \A x \in m.sleeping : wokenByKey => x \notin m.wakeOnKey
            BY <2>3
        <3>3. Woken(m, wakeMeOnKey /\ ~wokenByKey, wakeTimer \/ wokenByTime)
            BY <3>2 DEF Bond, Kin, Woken
        <3>4. Woken(m', wakeMeOnKey', wakeTimer' \/ wokenByTime')
            BY <2>1, <3>1, <3>3
        <3> QED BY <3>1, <3>4 DEF Bond, Kin
    <2> QED BY <2>2, <2>3
<1>3. CASE WakeOnTime
    <2> DEFINE W == m.wakeOnTime \cap m.sleeping
               i == FirstSlot(W)
    <2>1. UNCHANGED <<wakeTimer, wakeMeOnKey>>
        BY <1>3 DEF WakeOnTime
    <2>2. CASE wokenByTime /\ W # {}
        <3>1. m' = wakeMacroInSlot(m, i) /\ wokenByTime' = wokenByTime
            BY <1>3, <2>2 DEF WakeOnTime
        <3>2. i \in W
            <4>1. W \in SUBSET Slots
                BY <1>1 DEF Pool
            <4> HIDE DEF W
            <4> QED BY <2>2, <4>1, FirstSlotOf
        <3> HIDE DEF i
        <3>3. Wakes(m, i, m')
            BY <1>1, <3>1, WakeMacros
        <3>4. Kin(m', wakeMeOnKey, wakeTimer \/ wokenByTime)
            BY <1>1, <3>2, <3>3, WakesWell DEF Bond, Kin
        <3> QED BY <2>1, <3>1, <3>4 DEF Bond
    <2>3. CASE ~(wokenByTime /\ W # {})
        <3>1. m' = [m EXCEPT !.remainingCount = m.activeSlotCount] /\ wokenByTime' = FALSE
            BY <1>3, <2>3 DEF WakeOnTime
        <3>2. SameMacros(m, m')
            BY <1>1, <3>1 DEF IsPool, SameMacros
        <3>3. \A x \in m.sleeping : wokenByTime => x \notin m.wakeOnTime
            BY <2>3
        <3>4. Woken(m, wakeMeOnKey, wakeTimer \/ wokenByTime')
            BY <3>3 DEF Bond, Kin, Woken
        <3>5. Kin(m', wakeMeOnKey, wakeTimer \/ wokenByTime')
            BY <3>2, <3>4, QueueIndifferent DEF Bond, Kin
        <3> QED BY <2>1, <3>5 DEF Bond
    <2> QED BY <2>2, <2>3
<1> QED BY <1>2, <1>3

\* What happens between two engine cycles takes no waker away.
LEMMA EventsKeepBond ==
    ASSUME Inv, Bond, Events
    PROVE  Bond'
<1>1. m \in Pool /\ IsPool(m) /\ m.sleeping \subseteq m.playing
    BY PoolsArePools DEF Inv, Good, Sound
<1>2. ASSUME NEW answer \in Answers, StartMacro(answer) PROVE Bond'
    <2>1. m' = startMacro(m, NoSlot, answer) /\ UNCHANGED wakes
        BY <1>2 DEF StartMacro
    <2>2. Kin(m', wakeMeOnKey, wakeTimer \/ wokenByTime)
        <3>1. CASE Starts(m, answer)
            <4>1. FreeSlot(m) \in Slots \ m.playing /\ Enters(m, FreeSlot(m), NoSlot, m')
                BY <1>1, <2>1, <3>1, StartMacros
            <4> QED BY <1>1, <4>1, EntersWell DEF Bond, Kin
        <3>2. CASE ~Starts(m, answer)
            BY <2>1, <3>2 DEF startMacro, Bond
        <3> QED BY <3>1, <3>2
    <2> QED BY <2>1, <2>2 DEF Bond, wakes
<1>3. ASSUME NEW first \in Answers, NEW second \in EventAnswers, MacroEvent(first, second)
      PROVE  Bond'
    <2>1. m' = afterEvent(first, second) /\ UNCHANGED wakes
        BY <1>3 DEF MacroEvent
    <2>2. Kin(m', wakeMeOnKey, wakeTimer \/ wokenByTime)
        BY <2>1, AfterEventWell DEF Bond
    <2> QED BY <2>1, <2>2 DEF Bond, wakes
<1>4. CASE KeystateChange \/ ProtocolChange
    BY <1>4 DEF KeystateChange, ProtocolChange, wakes, Bond
<1>5. CASE TimerExpires
    <2>1. m' = m /\ wakeMeOnKey' = wakeMeOnKey /\ wokenByTime'
        BY <1>5 DEF TimerExpires
    <2>2. Woken(m, wakeMeOnKey, wakeTimer' \/ wokenByTime')
        BY <2>1 DEF Bond, Kin, Woken
    <2> QED BY <2>1, <2>2 DEF Bond, Kin
<1> QED BY <1>2, <1>3, <1>4, <1>5 DEF Events

\* A command leaves everybody with a waker.
LEMMA CommandsKeepBond ==
    ASSUME Inv, Bond, NEW s \in Slots, Runs(s)
    PROVE  LET k == wakeMeOnKey t == wakeTimer \/ wokenByTime
           IN  /\ m \in Pool /\ IsPool(m) /\ m.sleeping \subseteq m.playing /\ s \in Awake(m)
               /\ \A yields, last \in BOOLEAN : Finish(m, s, yields, last) => Kin(m', k, t)
               /\ \A answer \in Answers : \A last \in BOOLEAN :
                    (last => TailCalls) /\ Finish(callMacro(m, s, answer), s, TRUE, last) => Kin(m', k, t)
<1> DEFINE k == wakeMeOnKey
           t == wakeTimer \/ wokenByTime
<1>1. m \in Pool /\ IsPool(m) /\ m.sleeping \subseteq m.playing /\ s \in Awake(m)
    BY RunsScheduled, PoolsArePools DEF Good, Sound
<1>2. Kin(m, k, t)
    BY DEF Bond
<1> HIDE DEF k, t
<1>3. ASSUME NEW yields \in BOOLEAN, NEW last \in BOOLEAN, Finish(m, s, yields, last)
      PROVE  Kin(m', k, t)
    BY <1>1, <1>2, <1>3, FinishWell
<1>4. ASSUME NEW answer, NEW last \in BOOLEAN, last => TailCalls,
             Finish(callMacro(m, s, answer), s, TRUE, last)
      PROVE  Kin(m', k, t)
    <2>1. CASE Starts(m, answer)
        <3> DEFINE r == callMacro(m, s, answer)
        <3>1. FreeSlot(m) \in Slots \ m.playing /\ Calls(m, s, FreeSlot(m), r)
            BY <1>1, <2>1, CallMacros
        <3>2. r \in Pool
            <4>1. r = callMacro(m, s, answer)
                OBVIOUS
            <4> HIDE DEF r
            <4> QED BY <2>1, <4>1, RunsScheduled, CallKeeps DEF Mid, Sound
        <3> HIDE DEF r
        <3>3. Kin(r, k, t)
            BY <1>1, <1>2, <3>1, CallsWell DEF Kin
        <3>4. Finish(r, s, TRUE, last)
            BY <1>4 DEF r
        <3> QED BY <1>4, <3>2, <3>3, <3>4, FinishWell DEF Cooperative
    <2>2. CASE ~Starts(m, answer)
        <3>1. callMacro(m, s, answer) = m
            BY <2>2 DEF callMacro
        <3> QED BY <1>3, <1>4, <3>1
    <2> QED BY <2>1, <2>2
<1> QED BY <1>1, <1>3, <1>4 DEF k, t

\* One step of an engine cycle.
LEMMA CycleKeepsBond ==
    ASSUME Inv, Inv', Bond, Cycle
    PROVE  Bond'
<1> DEFINE k == wakeMeOnKey
           t == wakeTimer \/ wokenByTime
<1>1. Kin(m, k, t)
    BY DEF Bond
<1>2. ASSUME UNCHANGED wakes, Kin(m', k, t) PROVE Bond'
    BY <1>2 DEF Bond, wakes
<1> HIDE DEF k, t
<1>3. CASE BeginCycle \/ Block \/ EndCycle
    BY <1>3 DEF BeginCycle, Block, EndCycle, wakes, Bond
<1>4. CASE WakeOnKey \/ WakeOnTime
    BY <1>4, WakingKeepsBond
<1>5. ASSUME NEW last \in BOOLEAN, EndBroken \/ Work(last) \/ Yield(last) PROVE Bond'
    <2>1. PICK s \in Slots : /\ Runs(s) /\ \E y, l \in BOOLEAN : Finish(m, s, y, l)
                             /\ UNCHANGED wakes
        BY <1>5 DEF EndBroken, Work, Yield, Executes
    <2> QED BY <1>2, <2>1, CommandsKeepBond DEF k, t
<1>6. ASSUME NEW onKey \in BOOLEAN, NEW onTime \in BOOLEAN, Sleep(onKey, onTime)
      PROVE  Bond'
    <2> DEFINE r(s) == sleepMacro(m, s, onKey, onTime)
    <2>1. PICK s \in Slots : /\ Runs(s) /\ Iterate(r(s), s, TRUE) /\ (onKey \/ onTime)
                             /\ UNCHANGED wokenByTime
                             /\ wakeMeOnKey' = (wakeMeOnKey \/ onKey)
                             /\ wakeTimer' = (wakeTimer \/ onTime)
        BY <1>6 DEF Sleep, Executes
    <2>2. m \in Pool /\ IsPool(m) /\ s \in Awake(m)
        BY <2>1, CommandsKeepBond
    <2>3. IsPool(r(s)) /\ Sleeps(m, s, onKey, onTime, r(s))
        BY <2>2, SleepMacros
    <2> HIDE DEF r
    <2>4. Kin(r(s), k \/ onKey, t \/ onTime)
        BY <1>1, <2>1, <2>2, <2>3, SleepsWell DEF Kin
    <2>5. Kin(m', k \/ onKey, t \/ onTime)
        BY <2>1, <2>3, <2>4, IterateWell
    <2>6. (k \/ onKey => wakeMeOnKey') /\ (t \/ onTime => wakeTimer' \/ wokenByTime')
        BY <2>1 DEF k, t
    <2>7. Woken(m', wakeMeOnKey', wakeTimer' \/ wokenByTime')
        BY <2>5, <2>6 DEF Kin, Woken
    <2> QED BY <2>5, <2>7 DEF Bond, Kin
<1>7. ASSUME NEW answer \in Answers, NEW last \in BOOLEAN, Call(answer, last)
      PROVE  Bond'
    <2>1. PICK s \in Slots : /\ Runs(s) /\ Finish(callMacro(m, s, answer), s, TRUE, last)
                             /\ (last => TailCalls) /\ UNCHANGED wakes
        BY <1>7 DEF Call, Executes
    <2>2. Kin(m', k, t)
        BY <2>1, CommandsKeepBond DEF k, t
    <2> QED BY <1>2, <2>1, <2>2
<1>8. ASSUME NEW answer \in Answers, NEW last \in BOOLEAN, Fork(answer, last)
      PROVE  Bond'
    <2> DEFINE r == startMacro(m, NoSlot, answer)
    <2>1. PICK s \in Slots : /\ Runs(s) /\ Finish(r, s, FALSE, last) /\ UNCHANGED wakes
        BY <1>8 DEF Fork, Executes
    <2>2. m \in Pool /\ IsPool(m) /\ m.sleeping \subseteq m.playing /\ s \in Awake(m) /\ Good(m)
        BY <2>1, CommandsKeepBond, RunsScheduled
    <2>3. r = startMacro(m, NoSlot, answer)
        OBVIOUS
    <2> HIDE DEF r
    <2>4. r \in Pool
        BY <2>2, <2>3, StartKeeps DEF Good, Sound
    <2>5. Kin(r, k, t) /\ s \in Awake(r)
        <3>1. CASE Starts(m, answer)
            <4>1. FreeSlot(m) \in Slots \ m.playing /\ Enters(m, FreeSlot(m), NoSlot, r)
                BY <2>2, <2>3, <3>1, StartMacros
            <4>2. s \in Awake(r)
                BY <2>2, <4>1 DEF Enters, Awake
            <4> QED BY <1>1, <2>2, <4>1, <4>2, EntersWell DEF Kin
        <3>2. CASE ~Starts(m, answer)
            BY <1>1, <2>2, <2>3, <3>2 DEF startMacro
        <3> QED BY <3>1, <3>2
    <2>6. Kin(m', k, t)
        BY <2>1, <2>4, <2>5, FinishWell
    <2> QED BY <1>2, <2>1, <2>6
<1>9. ASSUME NEW last \in BOOLEAN, StopAll(last) PROVE Bond'
    <2> DEFINE r(s) == stopAllMacros(m, s)
    <2>1. PICK s \in Slots : /\ Runs(s) /\ Finish(r(s), s, FALSE, last)
                             /\ UNCHANGED wakes /\ "stopAll" \in Commands
        BY <1>9 DEF StopAll, Executes
    <2>2. m \in Pool /\ Good(m) /\ s \in m.scheduled
        BY <2>1, RunsScheduled DEF Good, Sound
    <2>3. Woken(r(s), k, t)
        BY <1>1, <2>2, StopsWell DEF Kin
    <2>4. r(s) \in Pool
        <3>1. r(s) = stopAllMacros(m, s)
            OBVIOUS
        <3> HIDE DEF r
        <3> QED BY <2>2, <3>1, StopAllKeeps DEF Good, Sound
    <2> HIDE DEF r
    <2>5. Kin(r(s), k, t) /\ ~Cooperative
        BY <2>1, <2>3 DEF Kin, Cooperative
    <2>6. Kin(m', k, t)
        BY <2>1, <2>4, <2>5, FinishWell
    <2> QED BY <1>2, <2>1, <2>6
<1>10. ASSUME NEW first \in Answers, NEW second \in EventAnswers, NEW last \in BOOLEAN,
              SwitchKeymap(first, second, last)
       PROVE  Bond'
    <2> DEFINE n == afterEvent(first, second)
               i == FreeSlot(startMacro(m, NoSlot, first))
               r == endMacro(n, i)
    <2>1. PICK s \in Slots :
             /\ Runs(s)
             /\ \/ ~LeavesS(first, second) /\ Finish(n, s, FALSE, last)
                \/ LeavesS(first, second) /\ Iterate(r, i, TRUE)
             /\ UNCHANGED wakes
        BY <1>10 DEF SwitchKeymap, Executes
    <2>2. Kin(n, k, t) /\ s \in Awake(n) /\ n \in Pool
        BY <1>1, <2>1, CommandsKeepBond, AfterEventWell, AfterEventKeeps DEF Good, Sound
    <2>3. CASE ~LeavesS(first, second)
        <3> HIDE DEF n
        <3>1. Kin(m', k, t)
            BY <2>1, <2>2, <2>3, FinishWell
        <3> QED BY <1>2, <2>1, <3>1
    <2>4. CASE LeavesS(first, second)
        <3>1. i \in Slots
            BY <2>4, FreeSlotIsFree DEF LeavesS
        <3>2. ~Cooperative
            BY <2>4 DEF LeavesS, EventAnswers, Cooperative
        <3> HIDE DEF n, i
        <3>3. IsPool(r) /\ Ends(n, i, r)
            BY <2>2, <3>1, EndMacros
        <3>4. Iterate(r, i, TRUE)
            BY <2>1, <2>4
        <3> HIDE DEF r
        <3>5. Kin(r, k, t)
            BY <2>2, <3>1, <3>2, <3>3, EndsWell DEF Kin
        <3>6. Kin(m', k, t)
            BY <3>3, <3>4, <3>5, IterateWell
        <3> QED BY <1>2, <2>1, <3>6
    <2> QED BY <2>3, <2>4
<1> QED BY <1>3, <1>4, <1>5, <1>6, <1>7, <1>8, <1>9, <1>10 DEF Cycle

LEMMA BondHolds == Spec => [](Inv /\ Bond)
<1>1. Init => Bond
    <2>1. Init => m.sleeping = {} /\ m.playing = {} /\ m.broken = {} /\ m.wakeOnKey = {} /\ m.wakeOnTime = {}
        BY DEF Init, EmptyPool
    <2> QED BY <2>1 DEF Bond, Kin, Woken, Family
<1>2. Inv /\ Inv' /\ Bond /\ [Next]_vars => Bond'
    <2>1. ASSUME Inv, Inv', Bond, UNCHANGED vars PROVE Bond'
        BY <2>1 DEF vars, wakes, Bond
    <2> QED BY <2>1, CycleKeepsBond, EventsKeepBond DEF Next
<1> QED BY <1>1, <1>2, Invariance, PTL DEF Spec

\* Every sleeping macro is woken by somebody: no wake-up is lost, whatever the
\* macros call, stop or fork, and however the wake conditions of several
\* sleepers meet (wakeSleepers, Macros_SleepTillTime, core.c).
THEOREM EverySleeperIsWoken == Spec => []SleepersHaveWakers
<1>1. Bond => SleepersHaveWakers
    BY DEF Bond, Kin, Woken, SleepersHaveWakers
<1> QED BY <1>1, BondHolds, PTL

\* A macro that called another, or is queued behind another, sleeps until that
\* one has ended, if the macros do not stop one another, do not end with a call
\* and the scopes suffice (callMacro and Macros_QueueMacro, core.c).
THEOREM CallersSleep ==
    ASSUME Cooperative
    PROVE  Spec => []CallersWait
<1>1. Bond => CallersWait
    BY DEF Bond, Kin, Family, CallersWait
<1> QED BY <1>1, BondHolds, PTL
=============================================================================

--------------------------- MODULE EventLoop_proofs ---------------------------
(***************************************************************************)
(* Proofs about EventLoop, for any set of events and any bound on time:    *)
(* the cached next event is the earliest, the main loop never sleeps past  *)
(* it nor on posted work, and the event scheduler implements Alarms.       *)
(***************************************************************************)
EXTENDS EventLoop, WellFoundedInduction, TLAPS

-----------------------------------------------------------------------------
(* The operators of EventScheduler.                                        *)

\* A non-empty set of natural numbers has a least element.
LEMMA LeastOf ==
    ASSUME NEW T \in SUBSET Nat, T # {}
    PROVE  \E x \in T: \A y \in T: x <= y
<1> DEFINE R == OpToRel(<, Nat)
<1>1. PICK x \in T: \A y \in T: ~ (<<y, x>> \in R)
    <2> HIDE DEF R
    <2>1. IsWellFoundedOn(R, Nat)
        BY NatLessThanWellFounded DEF R
    <2> QED BY <2>1, WFMin
<1>2. \A k, j \in Nat: j < k => <<j, k>> \in R
    BY DEF OpToRel
<1> HIDE DEF R
<1>3. \A y \in T: ~ (y < x)
    BY <1>1, <1>2, Zenon
<1> QED BY <1>3

\* The loop of scheduleNext finds an event with the earliest time.
LEMMA EarliestOf ==
    ASSUME NEW s \in Scheduler, Planned(s) # {}
    PROVE  /\ earliest(s) \in Planned(s)
           /\ \A d \in Planned(s): s.times[earliest(s)] <= s.times[d]
<1> DEFINE P == Planned(s)
           V == {s.times[e]: e \in P}
<1>1. /\ P \subseteq Events /\ P \subseteq Nat /\ P # {}
      /\ \A e \in P: s.times[e] \in Nat
    BY EventAssumption DEF Planned, Scheduler
<1>2. V \in SUBSET Nat /\ V # {}
    BY <1>1
<1>3. PICK v \in V: \A w \in V: v <= w
    BY <1>2, LeastOf
<1> DEFINE F == {e \in P: s.times[e] = v}
<1>4. F \in SUBSET Nat /\ F # {}
    BY <1>1, <1>3
<1>5. PICK e \in F: \A d \in F: e <= d
    BY <1>4, LeastOf
<1>6. \A d \in P: s.times[e] < s.times[d] \/ (s.times[e] = s.times[d] /\ e <= d)
    <2> TAKE d \in P
    <2>1. s.times[e] = v /\ v <= s.times[d] /\ s.times[d] \in Nat /\ v \in Nat
        BY <1>1, <1>2, <1>3, <1>5
    <2>2. CASE s.times[d] = v
        BY <1>5, <2>1, <2>2
    <2>3. CASE s.times[d] # v
        BY <2>1, <2>3
    <2> QED BY <2>2, <2>3
<1>7. e \in P
    BY <1>5
<1>8. /\ earliest(s) \in P
      /\ \A d \in P: \/ s.times[earliest(s)] < s.times[d]
                     \/ s.times[earliest(s)] = s.times[d] /\ earliest(s) <= d
    BY <1>6, <1>7, Zenon DEF earliest
<1> QED BY <1>1, <1>8

\* scheduleNext repairs the cache, whatever it was, and touches nothing else.
LEMMA ScheduleNextKeeps ==
    ASSUME NEW s \in Scheduler, NEW r, r = scheduleNext(s)
    PROVE  /\ r \in Scheduler /\ Consistent(r)
           /\ r.times = s.times /\ r.wake = s.wake
<1>1. CASE Planned(s) = {}
    BY <1>1 DEF scheduleNext, Scheduler, Consistent, Planned
<1>2. CASE Planned(s) # {}
    <2> DEFINE e == earliest(s)
    <2>1. e \in Planned(s) /\ \A d \in Planned(s): s.times[e] <= s.times[d]
        BY <1>2, EarliestOf
    <2>2. e \in Events
        BY <2>1 DEF Planned
    <2>3. r = [s EXCEPT !.nextEvent = e, !.nextEventAt = s.times[e], !.bit = TRUE]
        BY <1>2 DEF scheduleNext
    <2> HIDE DEF e
    <2>4. r \in Scheduler /\ r.times = s.times /\ r.wake = s.wake
          /\ r.bit /\ r.nextEvent = e /\ r.nextEventAt = s.times[e]
        BY <2>2, <2>3 DEF Scheduler
    <2>5. Planned(r) = Planned(s)
        BY <2>4 DEF Planned
    <2> QED BY <1>2, <2>1, <2>4, <2>5 DEF Consistent
<1> QED BY <1>1, <1>2

\* What every call of the scheduler leaves true; later says that it never makes
\* the next event earlier without giving the semaphore.
Called(s, r) ==
    /\ r \in Scheduler
    /\ s.wake => r.wake
    /\ Consistent(s) =>
           /\ Consistent(r)
           /\ r.bit => r.wake \/ (s.bit /\ s.nextEventAt <= r.nextEventAt)

\* makeNext after the time has been entered.
LEMMA MakeNextKeeps ==
    ASSUME NEW s \in Scheduler, NEW evt \in Events, NEW at \in Nat \ {0},
           s.times[evt] = at, NEW r, r = makeNext(s, at, evt),
           \A e \in Planned(s): at <= s.times[e]
    PROVE  r \in Scheduler /\ Consistent(r) /\ r.wake /\ r.times = s.times
<1>1. /\ r \in Scheduler /\ r.times = s.times /\ r.wake /\ r.bit
      /\ r.nextEvent = evt /\ r.nextEventAt = at
    BY DEF makeNext, Scheduler
<1>2. Planned(r) = Planned(s) /\ evt \in Planned(s)
    BY <1>1 DEF Planned
<1> QED BY <1>1, <1>2 DEF Consistent

\* The types alone, for the states in which the cache may be wrong.
LEMMA CallTypes ==
    ASSUME NEW s \in Scheduler, NEW evt \in Events, NEW at \in Nat
    PROVE  /\ Schedule(s, at, evt) \in Scheduler
           /\ Reschedule(s, at, evt) \in Scheduler
           /\ Unschedule(s, evt) \in Scheduler
           /\ s.wake => /\ Schedule(s, at, evt).wake
                        /\ Reschedule(s, at, evt).wake
                        /\ Unschedule(s, evt).wake
<1>1. \A x \in Nat: /\ [s EXCEPT !.times[evt] = x] \in Scheduler
                    /\ [s EXCEPT !.times[evt] = x].wake = s.wake
    BY DEF Scheduler
<1>2. \A t \in Scheduler: /\ makeNext(t, at, evt) \in Scheduler
                          /\ makeNext(t, at, evt).wake
    BY DEF makeNext, Scheduler
<1>3. \A t \in Scheduler: /\ scheduleNext(t) \in Scheduler
                          /\ scheduleNext(t).wake = t.wake
    BY ScheduleNextKeeps
<1>4. 0 \in Nat
    OBVIOUS
<1>5. Schedule(s, at, evt) \in Scheduler /\ (s.wake => Schedule(s, at, evt).wake)
    BY <1>1, <1>2 DEF Schedule
<1>6. Unschedule(s, evt) \in Scheduler /\ (s.wake => Unschedule(s, evt).wake)
    BY <1>1, <1>3, <1>4 DEF Unschedule
<1>7. Reschedule(s, at, evt) \in Scheduler /\ (s.wake => Reschedule(s, at, evt).wake)
    BY <1>1, <1>2, <1>3 DEF Reschedule
<1> QED BY <1>5, <1>6, <1>7

\* EventScheduler_Schedule keeps the earlier of two times.
LEMMA ScheduleTimes ==
    ASSUME NEW s \in Scheduler, NEW evt \in Events, NEW at \in Nat
    PROVE  Schedule(s, at, evt).times =
               IF s.times[evt] = 0 \/ at < s.times[evt]
               THEN [s.times EXCEPT ![evt] = at] ELSE s.times
<1>1. [s EXCEPT !.times[evt] = at].times = [s.times EXCEPT ![evt] = at]
      /\ [s EXCEPT !.times[evt] = at] \in Scheduler
    BY DEF Scheduler
<1>2. \A t \in Scheduler: makeNext(t, at, evt).times = t.times
    BY DEF makeNext, Scheduler
<1> QED BY <1>1, <1>2 DEF Schedule

\* EventScheduler_Reschedule sets one time, however the cache comes out.
LEMMA RescheduleTimes ==
    ASSUME NEW s \in Scheduler, NEW evt \in Events, NEW at \in Nat
    PROVE  Reschedule(s, at, evt).times = [s.times EXCEPT ![evt] = at]
<1>1. [s EXCEPT !.times[evt] = at].times = [s.times EXCEPT ![evt] = at]
      /\ [s EXCEPT !.times[evt] = at] \in Scheduler
    BY DEF Scheduler
<1>2. \A t \in Scheduler: makeNext(t, at, evt).times = t.times
    BY DEF makeNext, Scheduler
<1>3. \A t \in Scheduler: scheduleNext(t) \in Scheduler /\ scheduleNext(t).times = t.times
    BY ScheduleNextKeeps
<1> QED BY <1>1, <1>2, <1>3 DEF Reschedule

\* EventScheduler_Unschedule clears one time.
LEMMA UnscheduleTimes ==
    ASSUME NEW s \in Scheduler, NEW evt \in Events
    PROVE  Unschedule(s, evt).times = [s.times EXCEPT ![evt] = 0]
<1>1. [s EXCEPT !.times[evt] = 0].times = [s.times EXCEPT ![evt] = 0]
      /\ [s EXCEPT !.times[evt] = 0] \in Scheduler
    BY DEF Scheduler
<1>2. \A t \in Scheduler: scheduleNext(t).times = t.times
    BY ScheduleNextKeeps
<1> QED BY <1>1, <1>2 DEF Unschedule

\* EventScheduler_Schedule keeps the cache right.
LEMMA ScheduleKeeps ==
    ASSUME NEW s \in Scheduler, NEW evt \in Events, NEW at \in Nat \ {0}, Consistent(s)
    PROVE  Called(s, Schedule(s, at, evt))
<1> DEFINE new == s.times[evt] = 0 \/ at < s.times[evt]
           t == IF new THEN [s EXCEPT !.times[evt] = at] ELSE s
           r == Schedule(s, at, evt)
<1>1. /\ t \in Scheduler /\ t.wake = s.wake /\ t.bit = s.bit
      /\ t.nextEvent = s.nextEvent /\ t.nextEventAt = s.nextEventAt
      /\ t.times = IF new THEN [s.times EXCEPT ![evt] = at] ELSE s.times
    BY DEF Scheduler
<1>2. r = IF ComesFirst(t, at) THEN makeNext(t, at, evt) ELSE t
    BY DEF Schedule
<1>3. \A e \in Events: s.times[e] \in Nat
    BY DEF Scheduler
<1>4. /\ t.times[evt] \in Nat /\ t.times[evt] # 0 /\ t.times[evt] <= at
      /\ \A e \in Events: e # evt => t.times[e] = s.times[e]
      /\ ~new => t.times[evt] = s.times[evt] /\ s.times[evt] # 0
      /\ new => t.times[evt] = at
    BY <1>1, <1>3 DEF Scheduler
<1> HIDE DEF t
<1>5. CASE ComesFirst(t, at)
    <2>1. \A e \in Planned(s): at < s.times[e]
        BY <1>1, <1>3, <1>5 DEF ComesFirst, Consistent, Planned, Scheduler
    <2>2. new
        BY <1>3, <2>1 DEF Planned
    <2>3. \A e \in Planned(t): at <= t.times[e]
        BY <1>3, <1>4, <2>1, <2>2 DEF Planned
    <2>4. r \in Scheduler /\ Consistent(r) /\ r.wake
        BY <1>1, <1>2, <1>4, <1>5, <2>2, <2>3, MakeNextKeeps
    <2> QED BY <2>4 DEF Called
<1>6. CASE ~ComesFirst(t, at)
    <2>1. s.bit /\ s.nextEventAt <= at /\ s.nextEventAt \in Nat
        BY <1>1, <1>6 DEF ComesFirst, Scheduler
    <2>2. r = t
        BY <1>2, <1>6
    <2>3. s.nextEvent \in Planned(s) /\ s.times[s.nextEvent] = s.nextEventAt
        BY <2>1 DEF Consistent
    <2>4. s.nextEvent \in Planned(t) /\ t.times[s.nextEvent] = s.nextEventAt
        BY <1>3, <1>4, <2>1, <2>3 DEF Planned
    <2>5. \A e \in Planned(t): s.nextEventAt <= t.times[e]
        BY <1>3, <1>4, <2>1 DEF Planned, Consistent
    <2>6. Consistent(t)
        BY <1>1, <2>1, <2>4, <2>5 DEF Consistent
    <2> QED BY <1>1, <2>1, <2>2, <2>6 DEF Called
<1> QED BY <1>5, <1>6

\* Taking an event out never makes the next one earlier.
LEMMA UnscheduleKeeps ==
    ASSUME NEW s \in Scheduler, NEW evt \in Events, Consistent(s)
    PROVE  Called(s, Unschedule(s, evt))
<1> DEFINE t == [s EXCEPT !.times[evt] = 0]
           r == Unschedule(s, evt)
<1>1. /\ t \in Scheduler /\ t.wake = s.wake /\ t.bit = s.bit
      /\ t.nextEvent = s.nextEvent /\ t.nextEventAt = s.nextEventAt
      /\ t.times = [s.times EXCEPT ![evt] = 0]
    BY DEF Scheduler
<1>2. r = IF s.nextEvent = evt THEN scheduleNext(t) ELSE t
    BY DEF Unschedule
<1> HIDE DEF t
<1>3. Planned(t) = Planned(s) \ {evt} /\ \A e \in Planned(t): t.times[e] = s.times[e]
    BY <1>1 DEF Planned, Scheduler
<1>4. CASE s.nextEvent = evt
    <2>1. r \in Scheduler /\ Consistent(r) /\ r.times = t.times /\ r.wake = t.wake
        BY <1>1, <1>2, <1>4, ScheduleNextKeeps
    <2>2. Planned(r) = Planned(t)
        BY <2>1 DEF Planned
    <2>3. r.bit => s.bit /\ s.nextEventAt <= r.nextEventAt
        BY <1>3, <2>1, <2>2 DEF Consistent
    <2> QED BY <1>1, <2>1, <2>3 DEF Called
<1>5. CASE s.nextEvent # evt
    <2>1. r = t
        BY <1>2, <1>5
    <2>2. Consistent(t)
        BY <1>1, <1>3, <1>5 DEF Consistent, Planned
    <2>3. s.nextEventAt <= t.nextEventAt
        BY <1>1 DEF Scheduler
    <2> QED BY <1>1, <2>1, <2>2, <2>3 DEF Called
<1> QED BY <1>4, <1>5

\* EventScheduler_Reschedule looks for the next event again if it moves the cached
\* one.
LEMMA RescheduleKeeps ==
    ASSUME NEW s \in Scheduler, NEW evt \in Events, NEW at \in Nat \ {0}, Consistent(s)
    PROVE  Called(s, Reschedule(s, at, evt))
<1> DEFINE moved == [s EXCEPT !.times[evt] = at]
           t == IF s.nextEvent = evt THEN scheduleNext(moved) ELSE moved
           r == Reschedule(s, at, evt)
<1>1. /\ moved \in Scheduler /\ moved.wake = s.wake /\ moved.bit = s.bit
      /\ moved.nextEvent = s.nextEvent /\ moved.nextEventAt = s.nextEventAt
      /\ moved.times = [s.times EXCEPT ![evt] = at]
    BY DEF Scheduler
<1>2. r = IF ComesFirst(t, at) \/ t.nextEvent = evt THEN makeNext(t, at, evt) ELSE t
    BY DEF Reschedule
<1> HIDE DEF moved
<1>3. /\ t \in Scheduler /\ t.times = moved.times /\ t.wake = s.wake
      /\ s.nextEvent = evt => Consistent(t)
      /\ s.nextEvent # evt => t = moved
    BY <1>1, ScheduleNextKeeps
<1>4. /\ t.times[evt] = at
      /\ \A e \in Events: t.times[e] \in Nat /\ s.times[e] \in Nat
      /\ \A e \in Events: e # evt => t.times[e] = s.times[e]
    BY <1>1, <1>3 DEF Scheduler
<1> HIDE DEF t
<1>5. CASE ComesFirst(t, at) \/ t.nextEvent = evt
    <2>1. CASE s.nextEvent = evt
        <3>1. \A e \in Planned(t): at <= t.times[e]
            BY <1>3, <1>4, <1>5, <2>1 DEF ComesFirst, Consistent, Planned, Scheduler
        <3> QED BY <1>2, <1>3, <1>4, <1>5, <3>1, MakeNextKeeps DEF Called
    <2>2. CASE s.nextEvent # evt
        <3>1. at < s.nextEventAt \/ ~s.bit
            BY <1>1, <1>3, <1>5, <2>2 DEF ComesFirst
        <3>2. \A e \in Planned(s): at < s.times[e]
            BY <1>4, <3>1 DEF Consistent, Planned, Scheduler
        <3>3. \A e \in Planned(t): at <= t.times[e]
            BY <1>4, <3>2 DEF Planned
        <3> QED BY <1>2, <1>3, <1>4, <1>5, <3>3, MakeNextKeeps DEF Called
    <2> QED BY <2>1, <2>2
<1>6. CASE ~ComesFirst(t, at) /\ t.nextEvent # evt
    <2>1. r = t /\ t.bit /\ t.nextEventAt <= at /\ t.nextEventAt \in Nat
        BY <1>2, <1>3, <1>6 DEF ComesFirst, Scheduler
    <2>2. CASE s.nextEvent = evt
        <3>1. /\ Consistent(t) /\ t.nextEvent \in Planned(t)
              /\ t.times[t.nextEvent] = t.nextEventAt
            BY <1>3, <2>1, <2>2 DEF Consistent
        <3>2. t.nextEvent \in Planned(s) /\ s.times[t.nextEvent] = t.nextEventAt
            BY <1>4, <1>6, <3>1 DEF Planned
        <3>3. s.bit /\ s.nextEventAt <= t.nextEventAt
            BY <3>2 DEF Consistent
        <3> QED BY <1>3, <2>1, <3>1, <3>3 DEF Called
    <2>3. CASE s.nextEvent # evt
        <3>1. s.bit /\ t.nextEvent = s.nextEvent /\ t.nextEventAt = s.nextEventAt
            BY <1>1, <1>3, <2>1, <2>3
        <3>2. t.nextEvent \in Planned(t) /\ t.times[t.nextEvent] = t.nextEventAt
            BY <1>4, <1>6, <3>1 DEF Consistent, Planned
        <3>3. \A e \in Planned(t): t.nextEventAt <= t.times[e]
            BY <1>4, <2>1, <3>1 DEF Consistent, Planned
        <3>4. Consistent(t)
            BY <2>1, <3>2, <3>3 DEF Consistent
        <3> QED BY <1>3, <2>1, <3>1, <3>4 DEF Called
    <2> QED BY <2>2, <2>3
<1> QED BY <1>5, <1>6

\* takeNext takes the cached event and, but for the bit, leaves the cache right.
LEMMA TakeNextKeeps ==
    ASSUME NEW s \in Scheduler
    PROVE  /\ takeNext(s) \in Scheduler
           /\ takeNext(s).times = [s.times EXCEPT ![s.nextEvent] = 0]
           /\ takeNext(s).wake = s.wake
           /\ Consistent([takeNext(s) EXCEPT !.bit = (Planned(takeNext(s)) # {})])
<1> DEFINE t == [s EXCEPT !.times[s.nextEvent] = 0]
           n == scheduleNext(t)
           r == takeNext(s)
<1>1. /\ t \in Scheduler /\ t.wake = s.wake
      /\ t.times = [s.times EXCEPT ![s.nextEvent] = 0]
    BY DEF Scheduler
<1> HIDE DEF t
<1>2. n \in Scheduler /\ Consistent(n) /\ n.times = t.times /\ n.wake = t.wake
    BY <1>1, ScheduleNextKeeps
<1>3. r = [n EXCEPT !.bit = s.bit]
    BY DEF takeNext, t
<1> HIDE DEF n
<1>4. /\ r \in Scheduler /\ r.times = n.times /\ r.wake = n.wake
      /\ r.nextEvent = n.nextEvent /\ r.nextEventAt = n.nextEventAt
    BY <1>2, <1>3 DEF Scheduler
<1> HIDE DEF r
<1>5. Planned(r) = Planned(n)
    BY <1>4 DEF Planned
<1> DEFINE b == Planned(r) # {}
           q == [r EXCEPT !.bit = b]
<1>6. /\ q.bit = b /\ q.times = n.times
      /\ q.nextEvent = n.nextEvent /\ q.nextEventAt = n.nextEventAt
    BY <1>4 DEF Scheduler
<1>7. Planned(q) = Planned(n)
    BY <1>6 DEF Planned
<1>8. Consistent(q)
    BY <1>2, <1>5, <1>6, <1>7 DEF Consistent
<1> QED BY <1>1, <1>2, <1>4, <1>8 DEF r

-----------------------------------------------------------------------------
(* The inductive invariant.                                                *)

\* In the middle of scheduleNext the cache is right but for the bit.
HalfConsistent == ~raced /\ pc = "scan" => Consistent([es EXCEPT !.bit = got])

\* The deadline is the next event's time from the moment it is read; a change that
\* makes it too late gives the semaphore once that is no longer going to be cleared.
DeadlineInTime ==
    ~raced /\ es.bit =>
        /\ pc = "drain" => deadline # Forever /\ deadline <= es.nextEventAt
        /\ pc \in {"check", "asleep"} =>
               es.wake \/ (deadline # Forever /\ deadline <= es.nextEventAt)

Inv ==
    /\ TypeOK
    /\ CurrentTime <= now
    /\ ringing # {} <=> pc \in {"scan", "ring"}
    /\ NextIsEarliest
    /\ HalfConsistent
    /\ DeadlineInTime

\* Nothing is planned and nobody waits at start-up.
LEMMA InitInv == Init => Inv
<1> SUFFICES ASSUME Init PROVE Inv
    OBVIOUS
<1>1. /\ es.times = [e \in Events |-> 0] /\ es.nextEvent = 0 /\ es.nextEventAt = 0
      /\ es.bit = FALSE /\ es.wake = TRUE /\ es \in Scheduler
    BY EventAssumption DEF Init, NothingScheduled, Scheduler
<1>2. Planned(es) = {}
    BY <1>1 DEF Planned
<1>3. Consistent(es)
    BY <1>1, <1>2 DEF Consistent
<1>4. TypeOK
    BY <1>1 DEF Init, TypeOK, PcValues, Forever
<1> QED BY <1>1, <1>3, <1>4
        DEF Init, Inv, NextIsEarliest, HalfConsistent, DeadlineInTime

\* The cache does not depend on the semaphore.
LEMMA WakeIrrelevant ==
    ASSUME NEW s \in Scheduler, NEW b \in BOOLEAN
    PROVE  /\ [s EXCEPT !.wake = b] \in Scheduler
           /\ [s EXCEPT !.wake = b].wake = b
           /\ [s EXCEPT !.wake = b].bit = s.bit
           /\ [s EXCEPT !.wake = b].times = s.times
           /\ [s EXCEPT !.wake = b].nextEvent = s.nextEvent
           /\ [s EXCEPT !.wake = b].nextEventAt = s.nextEventAt
           /\ Consistent([s EXCEPT !.wake = b]) = Consistent(s)
<1> DEFINE r == [s EXCEPT !.wake = b]
<1>1. /\ r \in Scheduler /\ r.wake = b /\ r.bit = s.bit /\ r.times = s.times
      /\ r.nextEvent = s.nextEvent /\ r.nextEventAt = s.nextEventAt
    BY DEF Scheduler
<1> HIDE DEF r
<1>2. Planned(r) = Planned(s)
    BY <1>1 DEF Planned
<1>3. Consistent(r) = Consistent(s)
    BY <1>1, <1>2 DEF Consistent
<1> QED BY <1>1, <1>3 DEF r

\* One call of the scheduler, by whomever.
Call(e, at) ==
    \/ es' = Schedule(es, at, e)
    \/ es' = Reschedule(es, at, e)
    \/ es' = Unschedule(es, e)

\* The three lemmas on calls, for a step.
LEMMA CallKeeps ==
    ASSUME es \in Scheduler, NEW e \in Events, NEW at \in Nat \ {0}, Call(e, at)
    PROVE  /\ es' \in Scheduler
           /\ es.wake => es'.wake
           /\ Consistent(es) => Called(es, es')
BY CallTypes, ScheduleKeeps, RescheduleKeeps, UnscheduleKeeps DEF Call

\* Calls made by the main loop are never in a window.
LEMMA MainCallsKeepsInv == ASSUME Inv, MainCalls PROVE Inv'
<1>1. PICK e \in Events, at \in 1..MaxTime: Call(e, at)
    BY DEF MainCalls, Call
<1>2. at \in Nat \ {0}
    BY LoopAssumption
<1>3. /\ es' \in Scheduler
      /\ Consistent(es) => Called(es, es')
    BY <1>1, <1>2, CallKeeps DEF Inv, TypeOK
<1>4. /\ pc \in {"logic", "ring"} /\ pc' = pc /\ raced' = raced
      /\ UNCHANGED <<now, CurrentTime, work, got, deadline, ringing>>
    BY DEF MainCalls
<1>5. TypeOK'
    BY <1>3, <1>4 DEF Inv, TypeOK
<1>6. ~raced => Consistent(es')
    BY <1>3, <1>4 DEF Inv, NextIsEarliest, Called
<1> QED BY <1>4, <1>5, <1>6
        DEF Inv, NextIsEarliest, HalfConsistent, DeadlineInTime

\* A call by another context is harmless outside the windows.
LEMMA OthersCallKeepsInv == ASSUME Inv, OthersCall PROVE Inv'
<1>1. PICK e \in Events, at \in 1..MaxTime: Call(e, at)
    BY DEF OthersCall, Call
<1>2. at \in Nat \ {0}
    BY LoopAssumption
<1>3. /\ es' \in Scheduler
      /\ Consistent(es) => Called(es, es')
    BY <1>1, <1>2, CallKeeps DEF Inv, TypeOK
<1>4. /\ CurrentTime' \in {CurrentTime, now} /\ raced' = (raced \/ pc \in Window)
      /\ UNCHANGED <<now, work, pc, got, deadline, ringing>>
    BY DEF OthersCall
<1>5. TypeOK' /\ CurrentTime' <= now'
    BY <1>3, <1>4 DEF Inv, TypeOK
<1>6. ~raced' => /\ ~raced /\ pc \notin {"scan", "drain"}
                 /\ Consistent(es) /\ Called(es, es')
    BY <1>3, <1>4 DEF Inv, NextIsEarliest, Window
<1>7. NextIsEarliest' /\ HalfConsistent'
    BY <1>4, <1>6 DEF NextIsEarliest, HalfConsistent, Called
<1>8. DeadlineInTime'
    <2> SUFFICES ASSUME ~raced', es'.bit, pc' \in {"check", "asleep"}
                 PROVE  es'.wake \/ (deadline' # Forever /\ deadline' <= es'.nextEventAt)
        BY <1>4, <1>6 DEF DeadlineInTime
    <2>1. es'.wake \/ (es.bit /\ es.nextEventAt <= es'.nextEventAt)
        BY <1>6 DEF Called
    <2>2. CASE es'.wake
        BY <2>2
    <2>3. CASE ~es'.wake
        <3>1. ~es.wake
            BY <1>6, <2>3 DEF Called
        <3>2. es.bit /\ es.nextEventAt <= es'.nextEventAt
            BY <2>1, <2>3
        <3>3. deadline # Forever /\ deadline <= es.nextEventAt
            BY <1>4, <1>6, <3>1, <3>2 DEF Inv, DeadlineInTime
        <3>4. es.nextEventAt \in Nat /\ es'.nextEventAt \in Nat /\ deadline \in Nat
            BY <1>3 DEF Inv, TypeOK, Scheduler
        <3> QED BY <1>4, <3>2, <3>3, <3>4
    <2> QED BY <2>2, <2>3
<1> QED BY <1>4, <1>5, <1>7, <1>8 DEF Inv

\* Steps that touch neither the scheduler nor the deadline and are in no window.
LEMMA PlainStepsKeepInv ==
    ASSUME Inv, Start \/ EndLogic \/ EndRing \/ MainPosts \/ Tick
    PROVE  Inv'
<1>1. es' = es /\ raced' = raced /\ got' = got /\ deadline' = deadline
    BY DEF Start, EndLogic, EndRing, MainPosts, Tick
<1>2. TypeOK' /\ CurrentTime' <= now'
    <2>1. /\ now' \in {now, now + 1} /\ CurrentTime' \in {CurrentTime, now}
          /\ ringing' \in {ringing, {}}
        BY DEF Start, EndLogic, EndRing, MainPosts, Tick
    <2>2. pc' \in {pc, "logic", "schedule", "process"}
        BY DEF Start, EndLogic, EndRing, MainPosts, Tick
    <2>3. {work, got, raced}' \subseteq BOOLEAN
        BY DEF Inv, TypeOK, Start, EndLogic, EndRing, MainPosts, Tick
    <2>4. /\ now \in Nat /\ CurrentTime \in Nat /\ CurrentTime <= now
        BY DEF Inv, TypeOK
    <2>5. now' \in Nat /\ CurrentTime' \in Nat /\ CurrentTime' <= now'
        <3>1. CASE Start
            BY <2>4, <3>1 DEF Start
        <3>2. CASE Tick
            BY <2>4, <3>2 DEF Tick
        <3>3. CASE EndLogic \/ EndRing \/ MainPosts
            BY <2>4, <3>3 DEF EndLogic, EndRing, MainPosts
        <3> QED BY <3>1, <3>2, <3>3
    <2> QED BY <1>1, <2>1, <2>2, <2>3, <2>5 DEF Inv, TypeOK, PcValues
<1>3. /\ pc' # pc => pc' \notin {"scan", "drain", "check", "asleep"} /\ pc # "scan"
      /\ ringing' # {} <=> pc' \in {"scan", "ring"}
    BY DEF Inv, Start, EndLogic, EndRing, MainPosts, Tick
<1>4. (Consistent(es) <=> Consistent(es)')
      /\ (Consistent([es EXCEPT !.bit = got]) <=> Consistent([es EXCEPT !.bit = got])')
    BY <1>1 DEF Consistent, Planned
<1>5. NextIsEarliest' /\ HalfConsistent'
    BY <1>1, <1>3, <1>4 DEF Inv, NextIsEarliest, HalfConsistent
<1>6. DeadlineInTime'
    BY <1>1, <1>3 DEF Inv, DeadlineInTime
<1> QED BY <1>2, <1>3, <1>5, <1>6 DEF Inv

\* Steps that touch the semaphore only.
LEMMA WakeStepsKeepInv ==
    ASSUME Inv, Drain \/ Check \/ Wake \/ \E wakes \in Posts: OthersPost(wakes)
    PROVE  Inv'
<1>1. PICK b \in BOOLEAN: /\ es' = [es EXCEPT !.wake = b]
                          /\ pc' \in {"check", "asleep"} /\ pc # "drain" => (es.wake => b)
    <2>1. es \in Scheduler /\ es.wake \in BOOLEAN /\ work \in BOOLEAN
        BY DEF Inv, TypeOK, Scheduler
    <2>2. CASE Drain
        BY <2>2 DEF Drain
    <2>3. CASE Check
        <3>1. es' = [es EXCEPT !.wake = es.wake \/ work] /\ (es.wake \/ work) \in BOOLEAN
            BY <2>1, <2>3 DEF Check
        <3> QED BY <2>1, <3>1
    <2>4. CASE Wake
        BY <2>4 DEF Wake
    <2>5. CASE \E wakes \in Posts: OthersPost(wakes)
        <3>1. PICK wakes \in Posts: es' = [es EXCEPT !.wake = es.wake \/ wakes]
            BY <2>1, <2>5 DEF OthersPost
        <3>2. (es.wake \/ wakes) \in BOOLEAN
            BY <2>1, LoopAssumption
        <3> QED BY <2>1, <3>1, <3>2
    <2> QED BY <2>2, <2>3, <2>4, <2>5
<1>2. /\ es' \in Scheduler /\ es'.wake = b /\ es'.bit = es.bit
      /\ es'.nextEventAt = es.nextEventAt
      /\ Consistent(es') = Consistent(es)
    BY <1>1, WakeIrrelevant DEF Inv, TypeOK
<1>3. /\ raced' = raced /\ got' = got /\ deadline' = deadline /\ ringing' = ringing
      /\ pc' = pc \/ (pc \in {"drain", "check", "asleep"}
                      /\ pc' \in {"start", "check", "asleep"})
      /\ pc' = "asleep" => pc # "drain"
      /\ pc = pc' => pc # "drain" \/ \E wakes \in Posts: OthersPost(wakes)
    BY DEF Drain, Check, Wake, OthersPost
<1>4. TypeOK' /\ CurrentTime' <= now'
    <2>1. /\ now' = now /\ CurrentTime' \in {CurrentTime, now}
        BY DEF Drain, Check, Wake, OthersPost
    <2>2. pc' \in {pc, "start", "check", "asleep"}
        BY <1>3
    <2>3. {work, got, raced}' \subseteq BOOLEAN
        BY DEF Inv, TypeOK, Drain, Check, Wake, OthersPost
    <2>4. now' \in Nat /\ CurrentTime' \in Nat /\ CurrentTime' <= now'
        BY <2>1 DEF Inv, TypeOK
    <2> QED BY <1>2, <1>3, <2>2, <2>3, <2>4 DEF Inv, TypeOK, PcValues
<1>5. ringing' # {} <=> pc' \in {"scan", "ring"}
    BY <1>3 DEF Inv
<1>6. NextIsEarliest'
    BY <1>2, <1>3 DEF Inv, NextIsEarliest
<1>7. HalfConsistent'
    <2> SUFFICES ASSUME ~raced', pc' = "scan"
                 PROVE  Consistent([es' EXCEPT !.bit = got'])
        BY DEF HalfConsistent
    <2> DEFINE s == [es EXCEPT !.bit = got]
    <2>1. pc = "scan" /\ ~raced /\ Consistent(s)
        BY <1>3 DEF Inv, HalfConsistent
    <2>2. s \in Scheduler
        BY DEF Inv, TypeOK, Scheduler
    <2>3. [es' EXCEPT !.bit = got'] = [s EXCEPT !.wake = b]
        BY <1>1, <1>3 DEF Inv, TypeOK, Scheduler
    <2> HIDE DEF s
    <2>4. Consistent([s EXCEPT !.wake = b])
        BY <2>1, <2>2, WakeIrrelevant
    <2> QED BY <2>3, <2>4
<1>8. DeadlineInTime'
    BY <1>1, <1>2, <1>3 DEF Inv, DeadlineInTime
<1> QED BY <1>4, <1>5, <1>6, <1>7, <1>8 DEF Inv

\* The steps of EventScheduler_Process and of what surrounds it.
LEMMA ProcessStepsKeepInv ==
    ASSUME Inv, scheduleNextRun \/ TakeEvent \/ SetBit \/ EndProcess
    PROVE  Inv'
<1>1. CASE scheduleNextRun
    <2>1. /\ pc = "schedule" /\ pc' \in {"process", "drain"}
          /\ es' = es /\ raced' = raced /\ deadline' = Forever
          /\ pc' = "drain" => ~es.bit
        BY <1>1 DEF scheduleNextRun
    <2>2. TypeOK' /\ CurrentTime' <= now' /\ ringing' = ringing
        BY <1>1 DEF Inv, TypeOK, PcValues, Forever, scheduleNextRun
    <2>3. Consistent(es) <=> Consistent(es)'
        BY <2>1 DEF Consistent, Planned
    <2> QED BY <2>1, <2>2, <2>3
            DEF Inv, NextIsEarliest, HalfConsistent, DeadlineInTime
<1>2. CASE TakeEvent
    <2>1. /\ pc = "process" /\ pc' = "scan" /\ raced' = raced
          /\ es' = takeNext(es) /\ got' = (Planned(es') # {})
          /\ ringing' = {es.nextEvent}
        BY <1>2 DEF TakeEvent
    <2>2. /\ es' \in Scheduler /\ es.nextEvent \in Events
          /\ Consistent([es' EXCEPT !.bit = got'])
        BY <2>1, TakeNextKeeps DEF Inv, TypeOK, Scheduler
    <2>3. TypeOK' /\ CurrentTime' <= now'
        BY <1>2, <2>2 DEF Inv, TypeOK, PcValues, TakeEvent
    <2> QED BY <2>1, <2>2, <2>3
            DEF Inv, NextIsEarliest, HalfConsistent, DeadlineInTime
<1>3. CASE SetBit
    <2>1. /\ pc = "scan" /\ pc' = "ring" /\ raced' = raced /\ ringing' = ringing
          /\ es' = [es EXCEPT !.bit = got]
        BY <1>3 DEF SetBit
    <2>2. es' \in Scheduler
        BY <2>1 DEF Inv, TypeOK, Scheduler
    <2>3. TypeOK' /\ CurrentTime' <= now'
        BY <1>3, <2>2 DEF Inv, TypeOK, PcValues, SetBit
    <2> QED BY <2>1, <2>3
            DEF Inv, NextIsEarliest, HalfConsistent, DeadlineInTime
<1>4. CASE EndProcess
    <2>1. /\ pc = "process" /\ pc' = "drain" /\ raced' = raced
          /\ es' = es /\ deadline' = es.nextEventAt /\ ringing' = ringing
        BY <1>4 DEF EndProcess
    <2>2. TypeOK' /\ CurrentTime' <= now'
        BY <1>4 DEF Inv, TypeOK, PcValues, Scheduler, EndProcess
    <2>3. ~raced => Consistent(es)
        BY <2>1 DEF Inv, NextIsEarliest
    <2>4. ~raced /\ es.bit => es.nextEventAt # Forever
        BY <2>3 DEF Consistent, Planned, Forever
    <2>5. es.nextEventAt \in Nat
        BY DEF Inv, TypeOK, Scheduler
    <2>6. Consistent(es) <=> Consistent(es)'
        BY <2>1 DEF Consistent, Planned
    <2> QED BY <2>1, <2>2, <2>3, <2>4, <2>5, <2>6
            DEF Inv, NextIsEarliest, HalfConsistent, DeadlineInTime
<1> QED BY <1>1, <1>2, <1>3, <1>4

\* Every step keeps the invariant.
LEMMA NextInv == Inv /\ [Next]_vars => Inv'
<1> SUFFICES ASSUME Inv, [Next]_vars PROVE Inv'
    OBVIOUS
<1>1. CASE MainLoop
    BY <1>1, PlainStepsKeepInv, WakeStepsKeepInv, ProcessStepsKeepInv DEF MainLoop
<1>2. CASE MainCalls
    BY <1>2, MainCallsKeepsInv
<1>3. CASE MainPosts \/ Tick
    BY <1>3, PlainStepsKeepInv
<1>4. CASE OthersCall
    BY <1>4, OthersCallKeepsInv
<1>5. CASE \E wakes \in Posts: OthersPost(wakes)
    BY <1>5, WakeStepsKeepInv
<1>6. CASE UNCHANGED vars
    BY <1>6 DEF vars, Inv, TypeOK, NextIsEarliest, HalfConsistent, DeadlineInTime,
                Consistent, Planned
<1> QED BY <1>1, <1>2, <1>3, <1>4, <1>5, <1>6 DEF Next

\* The inductive invariant holds in every behaviour of the main loop.
THEOREM Invariance == Spec => []Inv
BY InitInv, NextInv, PTL DEF Spec

-----------------------------------------------------------------------------
(* What it gives.                                                          *)

\* The scheduler's arrays and the main loop's variables keep their types: the
\* cached index always names an event.
THEOREM TypeCorrect == Spec => []TypeOK
<1>1. Inv => TypeOK
    BY DEF Inv
<1> QED BY <1>1, Invariance, PTL

\* nextEvent and nextEventAt of event_scheduler.c are those of an earliest event,
\* for every number of events and every time, until a call races a scan.
THEOREM NextEventIsEarliest == Spec => []NextIsEarliest
<1>1. Inv => NextIsEarliest
    BY DEF Inv
<1> QED BY <1>1, Invariance, PTL

\* k_sem_take in main.c never waits longer than to the next event.
THEOREM NoAlarmSleptThrough == Spec => []SleepsUntilNextEvent
<1>1. Inv => SleepsUntilNextEvent
    BY DEF Inv, DeadlineInTime, SleepsUntilNextEvent
<1> QED BY <1>1, Invariance, PTL

\* If everybody who sets a bit of EventVector_UserLogicUpdateMask also wakes the
\* main loop, it never sleeps while a bit is set: the semaphore that Drain throws
\* away is made up for by haveMoreWork.
THEOREM NoWorkSleptOn ==
    ASSUME Posts \subseteq {TRUE}
    PROVE  Spec => []NeverSleepsOnWork
<1>1. Init => NeverSleepsOnWork
    BY DEF Init, NeverSleepsOnWork
<1>2. Inv /\ NeverSleepsOnWork /\ [Next]_vars => NeverSleepsOnWork'
    <2> SUFFICES ASSUME Inv, NeverSleepsOnWork, [Next]_vars, pc' = "asleep", work'
                 PROVE  es'.wake
        BY DEF NeverSleepsOnWork
    <2> USE DEF NeverSleepsOnWork
    <2>1. CASE MainLoop
        \* Only Check puts the main loop to sleep, and only without work.
        BY <2>1 DEF MainLoop, Start, EndLogic, scheduleNextRun, TakeEvent, SetBit,
                    EndRing, EndProcess, Drain, Check, Wake
    <2>2. CASE MainCalls \/ MainPosts
        BY <2>2 DEF MainCalls, MainPosts
    <2>3. CASE OthersCall
        <3>1. PICK e \in Events, at \in 1..MaxTime: Call(e, at)
            BY <2>3 DEF OthersCall, Call
        <3>2. at \in Nat \ {0}
            BY LoopAssumption
        <3>3. es.wake => es'.wake
            BY <3>1, <3>2, CallKeeps DEF Inv, TypeOK
        <3> QED BY <2>3, <3>3 DEF OthersCall
    <2>4. CASE \E wakes \in Posts: OthersPost(wakes)
        <3>1. es' = [es EXCEPT !.wake = es.wake \/ TRUE]
            BY <2>4 DEF OthersPost
        <3> QED BY <3>1 DEF Inv, TypeOK, Scheduler
    <2>5. CASE Tick \/ UNCHANGED vars
        BY <2>5 DEF Tick, vars
    <2> QED BY <2>1, <2>2, <2>3, <2>4, <2>5 DEF Next
<1> QED BY <1>1, <1>2, Invariance, PTL DEF Spec

-----------------------------------------------------------------------------
(* The event scheduler implements Alarms.                                  *)

\* A call of the scheduler is Set, Move or Cancel of one alarm.
LEMMA CallIsKept ==
    ASSUME es \in Scheduler, NEW e \in Events, NEW at \in 1..MaxTime, Call(e, at),
           UNCHANGED <<ringing, now>>
    PROVE  A!Kept
<1>1. at \in Nat
    BY LoopAssumption
<1>2. es.times \in [Events -> Nat]
    BY DEF Scheduler
<1>3. CASE es' = Schedule(es, at, e)
    <2>1. es'.times = IF es.times[e] = 0 \/ at < es.times[e]
                      THEN [es.times EXCEPT ![e] = at] ELSE es.times
        BY <1>1, <1>3, ScheduleTimes
    <2>2. es'.times = [es.times EXCEPT ![e] =
                          IF es.times[e] # 0 /\ es.times[e] <= at THEN es.times[e] ELSE at]
        BY <1>1, <1>2, <2>1
    <2>3. A!Set(e, at)
        BY <2>2 DEF A!Set, A!IsSet
    <2> QED BY <2>3 DEF A!Kept
<1>4. CASE es' = Reschedule(es, at, e)
    <2>1. es'.times = [es.times EXCEPT ![e] = at]
        BY <1>1, <1>4, RescheduleTimes
    <2>2. A!Move(e, at)
        BY <2>1 DEF A!Move
    <2> QED BY <2>2 DEF A!Kept
<1>5. CASE es' = Unschedule(es, e)
    <2>1. es'.times = [es.times EXCEPT ![e] = 0]
        BY <1>5, UnscheduleTimes
    <2>2. A!Cancel(e)
        BY <2>1 DEF A!Cancel
    <2> QED BY <2>2 DEF A!Kept
<1> QED BY <1>3, <1>4, <1>5 DEF Call

\* EventScheduler_Process takes an alarm that is due, and no later one first.
LEMMA TakeEventRings == ASSUME Inv, TakeEvent, ~raced PROVE A!Kept
<1>1. /\ pc = "process" /\ es' = takeNext(es) /\ ringing' = {es.nextEvent} /\ now' = now
      /\ es.bit /\ es.nextEventAt <= CurrentTime
    BY DEF TakeEvent, IsDue
<1>2. /\ es.nextEvent \in Planned(es) /\ es.times[es.nextEvent] = es.nextEventAt
      /\ \A e \in Planned(es): es.nextEventAt <= es.times[e]
    BY <1>1 DEF Inv, NextIsEarliest, Consistent
<1>3. ringing = {}
    BY <1>1 DEF Inv
<1>4. es'.times = [es.times EXCEPT ![es.nextEvent] = 0]
    BY <1>1, TakeNextKeeps DEF Inv, TypeOK
<1>5. es.nextEventAt <= now
    BY <1>1 DEF Inv, TypeOK, Scheduler
<1>6. A!Ring(es.nextEvent)
    BY <1>1, <1>2, <1>3, <1>4, <1>5 DEF A!Ring, A!IsSet, Planned
<1> QED BY <1>2, <1>6 DEF A!Kept, Planned

\* Every step of the main loop and of the others is one of the alarm clock, or none.
LEMMA StepsKept == ASSUME Inv, [Next]_vars PROVE [A!Next]_(A!vars)
<1>1. raced => raced'
    BY DEF Next, MainLoop, Start, EndLogic, scheduleNextRun, TakeEvent, SetBit, EndRing,
           EndProcess, Drain, Check, Wake, MainCalls, MainPosts, OthersCall, OthersPost,
           Tick, vars
<1>2. CASE raced'
    BY <1>1, <1>2 DEF A!Next
<1>3. CASE ~raced'
    <2> SUFFICES A!Kept \/ UNCHANGED A!vars
        BY <1>1 DEF A!Next
    <2>1. ~raced
        BY <1>1, <1>3
    <2>2. CASE TakeEvent
        BY <2>1, <2>2, TakeEventRings
    <2>3. CASE MainCalls
        <3>1. PICK e \in Events, at \in 1..MaxTime: Call(e, at)
            BY <2>3 DEF MainCalls, Call
        <3> QED BY <2>3, <3>1, CallIsKept DEF Inv, TypeOK, MainCalls
    <2>4. CASE OthersCall
        <3>1. PICK e \in Events, at \in 1..MaxTime: Call(e, at)
            BY <2>4 DEF OthersCall, Call
        <3> QED BY <2>4, <3>1, CallIsKept DEF Inv, TypeOK, OthersCall
    <2>5. CASE EndRing
        BY <2>5 DEF EndRing, Inv, A!Kept, A!Silence
    <2>6. CASE Tick
        BY <2>6 DEF Tick, A!Kept, A!Tick
    <2>7. CASE \/ Start \/ EndLogic \/ scheduleNextRun \/ EndProcess \/ MainPosts
               \/ UNCHANGED vars
        BY <2>1, <2>7 DEF Start, EndLogic, scheduleNextRun, EndProcess, MainPosts, vars,
                          A!vars
    <2>8. CASE SetBit \/ Drain \/ Check \/ Wake \/ \E wakes \in Posts: OthersPost(wakes)
        <3>1. es'.times = es.times
            BY <2>8 DEF Inv, TypeOK, Scheduler, SetBit, Drain, Check, Wake, OthersPost
        <3>2. UNCHANGED <<ringing, now, raced>>
            BY <2>8 DEF SetBit, Drain, Check, Wake, OthersPost
        <3> QED BY <3>1, <3>2 DEF A!vars
    <2> QED BY <2>2, <2>3, <2>4, <2>5, <2>6, <2>7, <2>8 DEF Next, MainLoop
<1> QED BY <1>2, <1>3

\* The event scheduler together with the main loop is the alarm clock of Alarms:
\* every alarm rings once, not early and in the order of the times, until another
\* context calls the scheduler in a window.
THEOREM AlarmsKept == Spec => KeepsAlarms
<1>1. Init => A!Init
    BY DEF Init, NothingScheduled, A!Init
<1>2. Inv /\ [Next]_vars => [A!Next]_(A!vars)
    BY StepsKept
<1> QED BY <1>1, <1>2, Invariance, PTL DEF Spec, KeepsAlarms, A!Spec

=============================================================================

------------------------------ MODULE DualRoles ------------------------------
(***************************************************************************)
(* When a dual-role key is what: the advanced strategy of                  *)
(* secondary_role_driver.c and autoshift of postponer.c, which decide by   *)
(* the times of key events.  An event is queued with its time while        *)
(* anybody postpones and replayed later, so the same question is asked of  *)
(* keys that move now and of keys whose movements all lie in the queue.    *)
(*                                                                         *)
(* KeyPipeline has the cycle of the main loop in its detail and no time;   *)
(* here a cycle is one action, and a tick of the clock is the debounce     *)
(* time: a switch changes at most once a tick, and every change wakes the  *)
(* loop again one tick later.  Time passes only while the loop sleeps.     *)
(* The pointer is left out: the UnblockMouse event that a decision queues  *)
(* takes a turn of the replay and has no part in any decision.             *)
(***************************************************************************)
EXTENDS Integers, FiniteSets, Sequences, SequencesExt

CONSTANTS
    Keys,       \* in the order the main loop visits them: 1 .. n
    Configs,    \* the configurations, see Configurations
    MaxTime,    \* bound: the clock
    MaxEvents   \* bound: presses and releases; below POSTPONER_BUFFER_MAX_FILL

Roles == {"primary", "secondary"}
NoKey == 0

\* Dual-role keys and Cfg.SecondaryRoles_AdvancedStrategy...; a doubletap time
\* or an AutoShiftDelay of 0 turns the feature off.
Configurations ==
    [dual : SUBSET Keys, Timeout : 1..MaxTime, TimeoutAction : Roles,
     TriggerByPress : BOOLEAN, TriggerByRelease : BOOLEAN, SafetyMargin : -MaxTime..MaxTime,
     DoubletapTime : 0..MaxTime, AutoShiftDelay : 0..MaxTime]

ASSUME DualRoleAssumption ==
    /\ MaxEvents \in Nat /\ MaxTime \in Nat \ {0}
    /\ Keys = 1..Cardinality(Keys)
    /\ Configs \subseteq Configurations

Never == 4 * MaxTime    \* the time of what has not happened

VARIABLES
    Cfg,        \* the configuration
    now,        \* CurrentTime
    switches,   \* the keys that are down
    log,        \* all key events that were debounced, in their order, with their times
    loop,       \* the state of the main loop, see TypeOK
    macro       \* "before", "postponing" or "after": the macro that postpones once

vars == <<Cfg, now, switches, log, loop, macro>>

Events == [key : Keys, active : BOOLEAN, time : 0..MaxTime]
Alarms == {"NativeActions", "Postponer"}
Bits == Alarms \cup {"StateMatrix", "MacroEngine", "NativePostponing"}

TypeOK ==
    /\ Cfg \in Configs /\ now \in 0..MaxTime
    /\ switches \subseteq Keys /\ log \in Seq(Events)
    /\ macro \in {"before", "postponing", "after"}
    /\ loop.queue \in Seq(DOMAIN log)                       \* buffer: events of the log
    /\ loop.current \subseteq Keys /\ loop.previous \subseteq Keys
    /\ loop.secondary \subseteq Keys
    /\ loop.time \in 0..MaxTime                             \* CurrentPostponedTime
    /\ loop.vector \subseteq Bits                           \* EventScheduler_Vector
    /\ loop.alarms \in [Alarms -> 0..Never]                 \* the times of the event scheduler
    /\ loop.waited \in BOOLEAN                              \* lastSomeonePostponing
    /\ loop.shifted \subseteq DOMAIN log                    \* presses that got a shift
    /\ loop.key \in Keys \cup {NoKey}                       \* resolutionKey
    /\ loop.role \in Roles \cup {"unknown"}                 \* resolutionState
    /\ loop.start \in 0..MaxTime                            \* resolutionStartTime
    /\ loop.lastKey \in Keys \cup {NoKey}                   \* previousResolutionKey
    /\ loop.lastStart \in 0..MaxTime                        \* previousResolutionTime
    /\ loop.since \in 0..MaxTime                            \* when the resolution began

Init ==
    /\ Cfg \in Configs
    /\ now = 0 /\ switches = {} /\ log = <<>> /\ macro = "before"
    /\ loop = [queue |-> <<>>, current |-> {}, previous |-> {}, secondary |-> {}, time |-> 0,
               vector |-> {}, alarms |-> [a \in Alarms |-> Never], waited |-> FALSE,
               shifted |-> {}, key |-> NoKey, role |-> "unknown", start |-> 0,
               lastKey |-> NoKey, lastStart |-> 0, since |-> 0]

-----------------------------------------------------------------------------
(* The queue, the event vector and the event scheduler.  A state s of the  *)
(* loop is looked at together with the log L.                              *)

put(S, k, active) == IF active THEN S \cup {k} ELSE S \ {k}
set(s, bits) == [s EXCEPT !.vector = @ \cup bits]
unset(s, bits) == [s EXCEPT !.vector = @ \ bits]
isSet(s, bits) == s.vector \cap bits # {}

\* EventScheduler_Schedule keeps the earlier of two times.
Schedule(s, at, evt) == [s EXCEPT !.alarms[evt] = Min({@, at})]

SomeonePostponing(s) == isSet(s, {"NativePostponing"}) \/ macro = "postponing"

\* When key k is released, by the queue from place i on.
ReleaseOf(s, L, i, k) ==
    LET releases == {j \in i..Len(s.queue) : L[s.queue[j]].key = k /\ ~L[s.queue[j]].active}
    IN IF releases = {} THEN Never ELSE L[s.queue[Min(releases)]].time

-----------------------------------------------------------------------------
(* Autoshift: a letter that is held long enough gets a shift.              *)

isEligibleForAutoShift(s, L) ==
    s.queue # <<>> /\ L[Head(s.queue)].active /\ L[Head(s.queue)].key \notin Cfg.dual

\* Mutant: whether the key is held is judged by the clock alone.
Held_ByClock(s, L) ==
    now - L[Head(s.queue)].time >= Cfg.AutoShiftDelay

\* The first key of the queue was held for the delay, until now or until it was
\* released.
Held(s, L) ==
    LET e == L[Head(s.queue)]
        release == ReleaseOf(s, L, 1, e.key)
    IN Min({now, release}) - e.time >= Cfg.AutoShiftDelay

AutoShifts == Cfg.AutoShiftDelay > 0
Shifts(s, L) == AutoShifts /\ isEligibleForAutoShift(s, L) /\ Held(s, L)
WaitsForShift(s, L) ==
    /\ AutoShifts /\ isEligibleForAutoShift(s, L) /\ ~Held(s, L)
    /\ ReleaseOf(s, L, 1, L[Head(s.queue)].key) = Never

\* applyEventAndConsume
applyEvent(s, L, shift) ==
    LET i == Head(s.queue)
    IN set([s EXCEPT !.queue = Tail(@), !.time = L[i].time,
                     !.current = put(@, L[i].key, L[i].active),
                     !.shifted = @ \cup {j \in {i} : shift}],
           {"NativeActions"})

\* PostponerCore_RunPostponedEvents
RunPostponedEvents(s, L) ==
    LET waits == WaitsForShift(s, L)
        runs == s.queue # <<>> /\ ~SomeonePostponing(s) /\ ~waits
        t == IF runs THEN applyEvent(s, L, Shifts(s, L))
             ELSE IF waits THEN Schedule(s, L[Head(s.queue)].time + Cfg.AutoShiftDelay, "Postponer")
             ELSE s
    IN IF runs /\ t.queue # <<>> THEN set(t, {"Postponer"}) ELSE unset(t, {"Postponer"})

-----------------------------------------------------------------------------
(* The decision, resolveCurrentKeyRoleIfDontKnowTimeout: the first rule    *)
(* that applies, from what is in the queue.                                *)

Rules(s, L) ==
    LET released == ReleaseOf(s, L, 1, s.key)
        presses == {j \in DOMAIN s.queue : L[s.queue[j]].active}
        action == IF presses = {} THEN 0 ELSE Min(presses)
        pressed == IF action = 0 THEN Never ELSE L[s.queue[action]].time
        lifted == IF action = 0 THEN Never ELSE ReleaseOf(s, L, action, L[s.queue[action]].key)
        activeTime == Min({now, released}) - s.start
        over == released # Never
        alone == pressed = Never
        late == activeTime >= Cfg.Timeout
        margin == Cfg.SafetyMargin
        actsFirst(t) == t # Never /\ IF over THEN t <= released - margin ELSE now - t > margin
        endsFirst(t) == over /\ IF t = Never THEN now - released > -margin ELSE t >= released - margin
        doubletap == s.key = s.lastKey /\ s.start - s.lastStart < Cfg.DoubletapTime
        triggers == Cfg.TriggerByPress \/ Cfg.TriggerByRelease
    IN << [when |-> doubletap, role |-> "primary"],
          [when |-> alone /\ over /\ ~late, role |-> "primary"],
          [when |-> alone /\ late, role |-> Cfg.TimeoutAction],
          [when |-> alone, role |-> "unknown"],
          [when |-> Cfg.TriggerByPress /\ actsFirst(pressed), role |-> "secondary"],
          [when |-> Cfg.TriggerByPress /\ endsFirst(pressed), role |-> "primary"],
          [when |-> Cfg.TriggerByRelease /\ actsFirst(lifted), role |-> "secondary"],
          [when |-> Cfg.TriggerByRelease /\ endsFirst(lifted), role |-> "primary"],
          [when |-> late, role |-> "secondary"],
          [when |-> over /\ ~triggers, role |-> "primary"],
          [when |-> TRUE, role |-> "unknown"] >>

\* Mutant: nobody comes back to an undecided key.
resolve_Sleeps(s, L) ==
    LET rules == Rules(s, L)
    IN [s EXCEPT !.role = rules[Min({i \in DOMAIN rules : rules[i].when})].role]

\* While the role is unknown, sleepTimeoutStrategy asks to be called at the timeout.
resolve(s, L) ==
    LET rules == Rules(s, L)
        role == rules[Min({i \in DOMAIN rules : rules[i].when})].role
        t == [s EXCEPT !.role = role]
    IN IF role = "unknown" THEN Schedule(t, s.start + Cfg.Timeout, "NativeActions") ELSE t

\* Mutant: the press counts from when it is replayed.
startResolution_Now(s, k) ==
    [s EXCEPT !.lastKey = s.key, !.lastStart = s.start, !.key = k,
              !.start = now, !.role = "unknown", !.since = now]

startResolution(s, k) ==
    [s EXCEPT !.lastKey = s.key, !.lastStart = s.start, !.key = k,
              !.start = s.time, !.role = "unknown", !.since = now]

\* SecondaryRoles_ResolveState, SecondaryRoles_FakeActivation and applyKeystroke
applyDualRole(s, L, k) ==
    LET asked == IF k \in s.current \ s.previous THEN startResolution(s, k) ELSE s
        r == IF k = asked.key /\ asked.role = "unknown" THEN resolve(asked, L) ELSE asked
    IN IF k # r.key THEN r
       ELSE IF r.role = "unknown" THEN set(r, {"NativePostponing"})
       ELSE IF asked.role = "unknown"
         THEN [r EXCEPT !.current = @ \cup {k}, !.secondary = put(@, k, r.role = "secondary")]
       ELSE r

-----------------------------------------------------------------------------
(* One cycle of updateActiveUsbReports.                                    *)

Debounced(L) ==
    {k \in Keys : \E i \in DOMAIN L : /\ L[i].key = k /\ L[i].active
                                      /\ \A j \in (i + 1)..Len(L) : L[j].key # k}

\* preprocessKeyState and commitKeyState, on a pair of a state and a log.
preprocess(sl, k, queuing) ==
    LET s == sl.s L == sl.L
        active == k \in switches
        t == Schedule(s, now + 1, "NativeActions")
    IN IF active = (k \in Debounced(L)) THEN sl
       ELSE [L |-> Append(L, [key |-> k, active |-> active, time |-> now]),
             s |-> IF queuing \/ SomeonePostponing(s) THEN [t EXCEPT !.queue = Append(@, Len(L) + 1)]
                   ELSE [t EXCEPT !.current = put(@, k, active)]]

processKey(sl, k) ==
    IF k \notin sl.s.current \cup sl.s.previous THEN sl
    ELSE LET t == IF k \in Cfg.dual THEN applyDualRole(sl.s, sl.L, k) ELSE sl.s
         IN [sl EXCEPT !.s = [t EXCEPT !.previous = put(@, k, k \in t.current)]]

updateActionStates(s, L, queuing) ==
    FoldLeft(LAMBDA sl, k : processKey(preprocess(sl, k, queuing), k),
             [s |-> unset(s, {"NativeActions", "StateMatrix", "NativePostponing"}), L |-> L],
             [k \in Keys |-> k])

\* When nobody postpones any more, the postponer is woken.
wakePostponer(s) ==
    LET postponing == SomeonePostponing(s)
        t == [s EXCEPT !.waited = postponing]
    IN IF s.waited /\ ~postponing /\ s.queue # <<>> THEN set(t, {"Postponer"}) ELSE t

Awake == isSet(loop, Bits \ {"NativePostponing"})

\* If the loop is not awake, something else has the keys looked at.
Cycle ==
    LET woken == IF Awake THEN unset(loop, {"MacroEngine"}) ELSE set(loop, {"NativeActions"})
        s == [woken EXCEPT !.time = IF loop.queue = <<>> THEN now ELSE @]
        queuing == s.queue # <<>> \/ AutoShifts \/ SomeonePostponing(s)
        p == RunPostponedEvents(s, log)
        sl == IF isSet(p, {"NativeActions", "StateMatrix"}) THEN updateActionStates(p, log, queuing)
              ELSE [s |-> p, L |-> log]
    IN /\ loop' = wakePostponer(sl.s)
       /\ log' = sl.L
       /\ UNCHANGED <<Cfg, now, switches, macro>>

-----------------------------------------------------------------------------
(* The world.                                                              *)

Moved == {k \in Keys : (k \in switches) # (k \in Debounced(log))}
Bounces(k) == \E i \in DOMAIN log : log[i].key = k /\ log[i].time = now

Switch(k) ==
    /\ Len(log) + Cardinality(Moved) < MaxEvents
    /\ k \notin Moved /\ ~Bounces(k)
    /\ switches' = put(switches, k, k \notin switches)
    /\ loop' = set(loop, {"StateMatrix"})
    /\ UNCHANGED <<Cfg, now, log, macro>>

\* A macro begins to postpone, or ends.
MacroTurn ==
    /\ \/ macro = "before" /\ macro' = "postponing"
       \/ macro = "postponing" /\ macro' = "after"
    /\ loop' = set(loop, {"MacroEngine"})
    /\ UNCHANGED <<Cfg, now, switches, log>>

\* The event scheduler rings what is due.
Tick ==
    /\ ~Awake /\ now < MaxTime
    /\ now' = now + 1
    /\ LET due == {a \in Alarms : loop.alarms[a] <= now'}
       IN loop' = set([loop EXCEPT !.alarms = [a \in Alarms |-> IF a \in due THEN Never ELSE @[a]]], due)
    /\ UNCHANGED <<Cfg, switches, log, macro>>

Next == Cycle \/ Tick \/ MacroTurn \/ \E k \in Keys : Switch(k)
Spec == Init /\ [][Next]_vars

-----------------------------------------------------------------------------
(* What the roles should be, from the log alone.                           *)

TimeOf(i) == IF i = 0 THEN Never ELSE log[i].time
FirstAfter(i, P(_)) ==
    LET later == {j \in (i + 1)..Len(log) : P(log[j])} IN IF later = {} THEN 0 ELSE Min(later)

Release(i) == FirstAfter(i, LAMBDA e : e.key = log[i].key /\ ~e.active)

\* The first key that is pressed while that of event i is down.
Action(i) ==
    LET a == FirstAfter(i, LAMBDA e : e.active)
    IN IF Release(i) # 0 /\ a > Release(i) THEN 0 ELSE a

Doubletaps(i) ==
    LET taps == {j \in 1..(i - 1) : log[j].active /\ log[j].key \in Cfg.dual}
    IN /\ taps # {} /\ log[Max(taps)].key = log[i].key
       /\ log[i].time - log[Max(taps)].time < Cfg.DoubletapTime

TimeoutOf(i) == log[i].time + Cfg.Timeout
HeldLong(i) == TimeOf(Release(i)) >= TimeoutOf(i)
Before(j, i) == j # 0 /\ TimeOf(j) + Cfg.SafetyMargin <= TimeOf(Release(i))

\* What the other key does to trigger the secondary role.
Trigger(i) ==
    CASE Cfg.TriggerByPress -> Action(i)
      [] ~Cfg.TriggerByPress /\ Cfg.TriggerByRelease /\ Action(i) # 0 -> Release(Action(i))
      [] OTHER -> 0

TriggeredInTime(i) == Trigger(i) # 0 /\ TimeOf(Trigger(i)) + Cfg.SafetyMargin < TimeoutOf(i)

\* reference-manual.md, secondaryRole.advanced: what triggers comes first, then
\* the timeout.
RoleOf(i) ==
    LET secondary ==
            IF HeldLong(i) THEN TriggeredInTime(i) \/ Cfg.TimeoutAction = "secondary"
            ELSE Before(Trigger(i), i)
    IN IF ~Doubletaps(i) /\ secondary THEN "secondary" ELSE "primary"

\* The press that the resolution is about: the last one of its key that was replayed.
Resolved ==
    Max({i \in DOMAIN log : log[i].key = loop.key /\ log[i].active /\ ~Contains(loop.queue, i)})

\* Events at the very instant of the timeout; a key pressed so soon after the
\* release that the margin takes it for earlier.
Tie(i) ==
    \/ TimeOf(Release(i)) = TimeoutOf(i)
    \/ Action(i) # 0 /\ TimeOf(Action(i)) = TimeoutOf(i)
Overtaken(i) ==
    Release(i) # 0 /\ \E j \in (Release(i) + 1)..Len(log) : log[j].active /\ Before(j, i)
HeldBack(i) == HeldLong(i) /\ loop.since - log[i].time >= Cfg.Timeout

\* The timeout is reached with another key pressed that has triggered nothing: the
\* code does not look at a timeoutAction of primary (secondary_role_driver.c:216),
\* which the manual says is activated (reference-manual.md:622).
Disputed(i) ==
    /\ HeldLong(i) /\ ~TriggeredInTime(i) /\ Cfg.TimeoutAction = "primary"
    /\ Action(i) # 0 /\ TimeOf(Action(i)) < TimeoutOf(i)

Clear(i) == ~Tie(i) /\ ~Overtaken(i) /\ ~HeldBack(i)
Decided == loop.key # NoKey /\ loop.role # "unknown"

(* The role of a dual-role key follows from the times at which keys were   *)
(* pressed and released and not from when the main loop looked at them: it *)
(* is the same whether the key was resolved as it moved or replayed from   *)
(* the queue, and no later event can prove it wrong (resolveCurrentKey-    *)
(* RoleIfDontKnowTimeout, CurrentPostponedTime).  Except for ties, for a   *)
(* key that is replayed only after it was held for the timeout, and for    *)
(* the case in which the code and the manual disagree.                     *)
TimelineDecides ==
    Decided /\ Clear(Resolved) /\ ~Disputed(Resolved) => loop.role = RoleOf(Resolved)

(* A dual-role key is not undecided for longer than the timeout (and a     *)
(* negative margin), although the loop sleeps: some alarm rings for it     *)
(* (sleepTimeoutStrategy).                                                 *)
DecidedInTime ==
    ~Awake /\ loop.key # NoKey /\ loop.role = "unknown" =>
        now < loop.start + Cfg.Timeout + Max({0, -Cfg.SafetyMargin})

(* A letter gets its shift if and only if it is held for AutoShiftDelay,   *)
(* however long its press and its release have waited in the queue         *)
(* (autoShift).                                                            *)
ShiftedByHold ==
    AutoShifts => \A i \in DOMAIN log :
        log[i].active /\ log[i].key \notin Cfg.dual /\ ~Contains(loop.queue, i) =>
            (i \in loop.shifted <=> TimeOf(Release(i)) - log[i].time >= Cfg.AutoShiftDelay)
=============================================================================

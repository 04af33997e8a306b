---------------------------- MODULE KeyPipeline ----------------------------
(***************************************************************************)
(* The path of a key event on the right half (right/src/                   *)
(* usb_report_updater.c, postponer.c, secondary_role_driver.c): from the   *)
(* switch matrix through the hardware bit, the debouncer and the postponer *)
(* queue to the key state the actions see, and on to the keyboard report.  *)
(* A dual-role key, a macro or a shortcut holds later events back in the   *)
(* queue; the main loop sleeps whenever no bit of the event vector that    *)
(* wakes it is set.                                                        *)
(*                                                                         *)
(* The right half of the UHK 60 scans its switches in the main loop.  Its  *)
(* left half is polled by an interrupt handler, and the UHK 80 scans in a  *)
(* thread; both write hardware bits while the main loop runs.  All flags   *)
(* of a key share one byte (key_states.h), so such a write between the     *)
(* load and the store of the main loop's update of another flag of that    *)
(* key is lost.  The interrupt handler compares every time it polls and    *)
(* writes again; the thread writes when a switch has changed.              *)
(*                                                                         *)
(* Time is abstract: a debounce time, the keystroke delay and a macro's    *)
(* wake-up elapse at any moment.  Secondary roles follow the simple        *)
(* strategy (the default) and select a layer.  Macros are MacroScheduler;  *)
(* here one of them may postpone, sleep and end as it likes.               *)
(***************************************************************************)
EXTENDS Naturals, Sequences, SequencesExt, FiniteSets

CONSTANTS
    Keys,           \* the keys, in the order the main loop visits them: 1 .. n
    DualKeys,       \* keys with a secondary role
    ShortcutKeys,   \* keys whose action is a scancode with modifiers
    MacroKeys,      \* keys that start a macro; the rest are plain scancodes
    BufferSize,     \* POSTPONER_BUFFER_SIZE
    MaxFill,        \* POSTPONER_BUFFER_MAX_FILL
    KeystrokeDelay, \* whether Cfg.KeystrokeDelay is nonzero
    Pointer,        \* whether a pointer module (not a touchpad) is attached
    Scanner         \* who scans the switches, one of Scanners

Scanners == {"mainLoop", "interrupt", "thread"}

ASSUME KeyAssumption ==
    /\ IsFiniteSet(Keys) /\ Keys # {} /\ Keys = 1..Cardinality(Keys)
    /\ {DualKeys, ShortcutKeys, MacroKeys} \subseteq SUBSET Keys
ASSUME BufferAssumption ==
    /\ BufferSize \in Nat \ {0}
    /\ MaxFill \in 0..(BufferSize - 1)
    /\ Scanner \in Scanners

NoKey == 0
Mouse == Cardinality(Keys) + 1    \* stands for the key of an UnblockMouse event

Event == [key: Keys \cup {Mouse}, active: BOOLEAN]
Roles == {"unknown", "primary", "secondary"}

\* EventVector_ReportUpdateMask
WakeBits == {"StateMatrix", "NativeActions", "Postponer", "LayerHolds", "ZeroScan",
             "MacroEngine", "MouseController"}
\* EventVector_SomeonePostponing
PostponingBits == {"NativePostponing", "MacroPostponing"}
Bits == WakeBits \cup PostponingBits \cup {"ReportsChanged"}

VARIABLES
    matrix,         \* the keys that are physically down
    hw,             \* hardwareSwitchState
    debounced,      \* debouncedSwitchState
    debouncing,     \* debouncing
    elapsed,        \* debouncing keys whose debounce time is over
    kb,             \* what actions and the postponer change, see KeyboardState
    queuing,        \* runState.eventsShouldBeQueued
    lastPostponing, \* lastSomeonePostponing of updateActiveUsbReports
    layerSeen,      \* previousLayer of handleLayerChanges
    motion,         \* the pointer module has moved and was not reported
    report,         \* the last basic keyboard report sent
    delaying,       \* less than KeystrokeDelay since that report
    pc, at          \* where the main loop is: phase, and next key to visit

physical == <<matrix, hw>>
debounce == <<debounced, debouncing, elapsed>>
cycle == <<queuing, lastPostponing, layerSeen>>
output == <<report, delaying>>
vars == <<physical, debounce, kb, cycle, motion, output, pc, at>>

\* current, previous and secondary are flags of key_state_t; queue is the
\* postponer's buffer; trigger is activateSecondaryImmediately; holds is
\* heldLayers and layer is ActiveLayer, both for the layer of secondary roles;
\* sticky is the shortcut whose modifiers are StickyModifiers; codes are the
\* scancodes of NativeKeyboardReports and lastMods the modifiers of a released
\* shortcut in it; macro says what the macros will do next.
KeyboardState ==
    [current: SUBSET Keys, previous: SUBSET Keys, secondary: SUBSET Keys,
     queue: BoundedSeq(Event, BufferSize), vector: SUBSET Bits,
     resolution: [key: Keys \cup {NoKey}, role: Roles], trigger: BOOLEAN,
     mouseBlocked: BOOLEAN, holds: BOOLEAN, layer: BOOLEAN,
     sticky: Keys \cup {NoKey}, codes: SUBSET Keys, lastMods: Keys \cup {NoKey},
     macro: {"ended", "awake", "onKey", "onTime"}]
Report == [codes: SUBSET Keys, mods: SUBSET Keys]

TypeOK ==
    /\ {matrix, hw, debounced} \subseteq SUBSET Keys
    /\ debouncing \subseteq Keys /\ elapsed \subseteq debouncing
    /\ kb \in KeyboardState
    /\ {queuing, lastPostponing, layerSeen, motion, delaying} \subseteq BOOLEAN
    /\ report \in Report
    /\ pc \in {"idle", "input", "keys", "finish"} /\ at \in Keys

Init ==
    /\ matrix = {} /\ hw = {} /\ debounced = {} /\ debouncing = {} /\ elapsed = {}
    /\ kb = [current |-> {}, previous |-> {}, secondary |-> {}, queue |-> <<>>,
             vector |-> {}, resolution |-> [key |-> NoKey, role |-> "unknown"],
             trigger |-> FALSE, mouseBlocked |-> FALSE, holds |-> FALSE,
             layer |-> FALSE, sticky |-> NoKey, codes |-> {}, lastMods |-> NoKey,
             macro |-> "ended"]
    /\ queuing = FALSE /\ lastPostponing = FALSE /\ layerSeen = FALSE
    /\ motion = FALSE /\ delaying = FALSE
    /\ report = [codes |-> {}, mods |-> {}]
    /\ pc = "idle" /\ at = 1

-----------------------------------------------------------------------------
(* The event vector and the postponer.                                     *)

set(s, bits) == [s EXCEPT !.vector = @ \cup bits]
unset(s, bits) == [s EXCEPT !.vector = @ \ bits]
isSet(s, bits) == s.vector \cap bits # {}

\* Macros_WakeBecauseOfKeystateChange
wakeMacros(s) == IF s.macro = "onKey" THEN set(s, {"MacroEngine"}) ELSE s

put(S, k, active) == IF active THEN S \cup {k} ELSE S \ {k}

\* Mutant: nobody is asked to act on the replayed event.
applyEventAndConsume_Silent(s) ==
    LET e == Head(s.queue)
        t == [s EXCEPT !.queue = Tail(@)]
    IN  IF e.key = Mouse
        THEN set([t EXCEPT !.mouseBlocked = FALSE], {"MouseController"})
        ELSE wakeMacros([t EXCEPT !.current = put(@, e.key, e.active)])

applyEventAndConsume(s) ==
    LET e == Head(s.queue)
        t == [s EXCEPT !.queue = Tail(@)]
    IN  IF e.key = Mouse
        THEN set([t EXCEPT !.mouseBlocked = FALSE], {"MouseController"})
        ELSE wakeMacros(set([t EXCEPT !.current = put(@, e.key, e.active)],
                            {"NativeActions"}))

\* Mutant: a full buffer overwrites its first event.
appendEvent_Overwrites(s, e) ==
    LET t == IF Len(s.queue) = BufferSize THEN [s EXCEPT !.queue = Tail(@)] ELSE s
    IN  [t EXCEPT !.queue = Append(@, e)]

\* If the buffer is full, its first event takes effect at once.
appendEvent(s, e) ==
    LET t == IF Len(s.queue) = BufferSize THEN applyEventAndConsume(s) ELSE s
    IN  [t EXCEPT !.queue = Append(@, e)]

\* Mutant: the queue itself is forgotten.
ShouldQueue_OnlyPostponing(s) == isSet(s, PostponingBits)

\* PostponerCore_EventsShouldBeQueued
ShouldQueue(s) == queuing \/ isSet(s, PostponingBits)

commitKeyState(s, k, active) ==
    wakeMacros(IF ShouldQueue(s)
               THEN appendEvent(s, [key |-> k, active |-> active])
               ELSE [s EXCEPT !.current = put(@, k, active)])

Replays(s) ==
    /\ s.queue # <<>>
    /\ ~isSet(s, PostponingBits) \/ Len(s.queue) > MaxFill

\* Mutant: the last event of the queue does not count.
RunPostponedEvents_ForgetsLast(s) ==
    LET t == IF Replays(s) THEN applyEventAndConsume(s) ELSE s
    IN  IF Len(t.queue) > 1 /\ ~isSet(s, PostponingBits)
        THEN set(t, {"Postponer"}) ELSE unset(t, {"Postponer"})

\* Whether any event is left to be replayed decides over EventVector_Postponer;
\* while someone postpones it is cleared.
RunPostponedEvents(s) ==
    LET t == IF Replays(s) THEN applyEventAndConsume(s) ELSE s
    IN  IF t.queue # <<>> /\ ~isSet(s, PostponingBits)
        THEN set(t, {"Postponer"}) ELSE unset(t, {"Postponer"})

-----------------------------------------------------------------------------
(* Key actions.                                                            *)

Mods(k) == IF k \in ShortcutKeys THEN k ELSE NoKey
ActivatedNow(s, k) == k \in s.current /\ k \notin s.previous

\* Mutant: the scancode goes into the same report as its modifiers.
applyKeystrokePrimary_Together(s, k) ==
    LET fresh == ActivatedNow(s, k)
        down == [s EXCEPT !.sticky = IF fresh THEN Mods(k) ELSE @, !.codes = @ \cup {k}]
        lastReport == [s EXCEPT !.lastMods = s.sticky, !.sticky = NoKey]
    IN  set(IF k \in s.current THEN down
            ELSE IF s.sticky = k /\ k \in ShortcutKeys THEN lastReport
            ELSE s,
            {"ReportsChanged"})

\* A keydown resets the sticky modifiers to those of its action.  If they
\* changed, modifiers go into this report and the scancode into the next one,
\* and everybody else waits meanwhile.
applyKeystrokePrimary(s, k) ==
    LET changed == ActivatedNow(s, k) /\ Mods(k) # s.sticky
        down == [s EXCEPT !.sticky = IF ActivatedNow(s, k) THEN Mods(k) ELSE @,
                          !.codes = IF changed THEN @ ELSE @ \cup {k}]
        lastReport == [s EXCEPT !.lastMods = s.sticky, !.sticky = NoKey]
        again == {"NativeActions", "NativePostponing"}
    IN  set(IF k \in s.current
            THEN set(down, IF changed THEN again ELSE {})
            ELSE IF s.sticky = k /\ k \in ShortcutKeys THEN set(lastReport, again)
            ELSE s,
            {"ReportsChanged"})

\* The layer is held by a secondary role; without another holder it becomes
\* active at once.
applyKeystrokeSecondary(s, k) ==
    LET held == [s EXCEPT !.holds = TRUE, !.layer = TRUE]
    IN  IF k \in s.current /\ k \in s.previous THEN held
        ELSE set(IF k \in s.current THEN held ELSE s, {"LayerHolds"})

\* The simple strategy: a press in the queue means secondary, unless the key
\* itself has been released by then.
roleByQueue(s, k) ==
    LET released == \E i \in DOMAIN s.queue: s.queue[i] = [key |-> k, active |-> FALSE]
        pressed == \E i \in DOMAIN s.queue: s.queue[i].key # Mouse /\ s.queue[i].active
    IN  IF released THEN "primary" ELSE IF pressed THEN "secondary" ELSE "unknown"

decide(s, k) ==
    IF s.trigger THEN [s EXCEPT !.trigger = FALSE, !.resolution.role = "secondary"]
    ELSE [s EXCEPT !.resolution.role = roleByQueue(s, k)]

\* SecondaryRoles_ResolveState: a new resolution blocks the mouse, a decision
\* queues its unblocking.
startResolution(s, k) ==
    decide([s EXCEPT !.resolution = [key |-> k, role |-> "unknown"],
                     !.mouseBlocked = TRUE], k)
continueResolution(s, k) ==
    LET t == IF s.resolution.role = "unknown" THEN decide(s, k) ELSE s
    IN  IF t.resolution.role = s.resolution.role THEN t
        ELSE appendEvent(t, [key |-> Mouse, active |-> FALSE])

\* SecondaryRoles_FakeActivation
activate(s, k) ==
    [s EXCEPT !.current = @ \cup {k}, !.previous = @ \ {k},
              !.secondary = put(@, k, s.resolution.role = "secondary")]

\* Mutant: an undecided key does not hold the others back.
applyDualRole_DoesNotPostpone(s, k) ==
    LET fresh == ActivatedNow(s, k)
        r == IF fresh THEN startResolution(s, k)
             ELSE IF k = s.resolution.key THEN continueResolution(s, k) ELSE s
        role == IF k = r.resolution.key THEN r.resolution.role
                ELSE IF k \in s.secondary THEN "secondary" ELSE "primary"
        decidedNow == /\ k = r.resolution.key /\ role # "unknown"
                      /\ fresh \/ s.resolution.role = "unknown"
        t == IF decidedNow THEN activate(r, k) ELSE r
    IN  CASE role = "unknown" -> t
          [] role = "primary" -> applyKeystrokePrimary(t, k)
          [] role = "secondary" -> applyKeystrokeSecondary(t, k)

applyDualRole(s, k) ==
    LET fresh == ActivatedNow(s, k)
        r == IF fresh THEN startResolution(s, k)
             ELSE IF k = s.resolution.key THEN continueResolution(s, k) ELSE s
        role == IF k = r.resolution.key THEN r.resolution.role
                ELSE IF k \in s.secondary THEN "secondary" ELSE "primary"
        decidedNow == /\ k = r.resolution.key /\ role # "unknown"
                      /\ fresh \/ s.resolution.role = "unknown"
        t == IF decidedNow THEN activate(r, k) ELSE r
    IN  CASE role = "unknown" -> set(t, {"NativePostponing"})
          [] role = "primary" -> applyKeystrokePrimary(t, k)
          [] role = "secondary" -> applyKeystrokeSecondary(t, k)

\* Macros_StartMacro, for a key whose action is a macro
startMacro(s) ==
    set([s EXCEPT !.macro = "awake", !.sticky = NoKey],
        {"MacroEngine", "MacroPostponing", "ReportsChanged"})

ApplyKeyAction(s, k) ==
    IF k \in MacroKeys THEN IF ActivatedNow(s, k) THEN startMacro(s) ELSE s
    ELSE IF k \in DualKeys THEN applyDualRole(s, k)
    ELSE applyKeystrokePrimary(s, k)

\* What the loop of updateActionStates does to a key after preprocessing it.
processKey(s, k) ==
    IF k \notin s.current \cup s.previous THEN s
    ELSE LET t == ApplyKeyAction(s, k)
         IN  [t EXCEPT !.previous = put(@, k, k \in t.current)]

-----------------------------------------------------------------------------
(* The world: switches, time and the pointer module.  Times elapse and the  *)
(* pointer moves between cycles; within one they would show only at the     *)
(* step that reads them, as if they had come before the cycle.              *)

\* The main loop stores a flag in the byte of key k while it visits it.
Stores(k) ==
    /\ pc \in {"input", "keys"} /\ at = k
    /\ \/ k \in elapsed
       \/ k \notin debouncing /\ ((k \in hw) # (k \in debounced))
       \/ pc = "keys" /\ k \in kb.current \cup kb.previous

\* A switch changes and the scanner writes all hardware bits; the write to the
\* key being stored may be lost.
Scan(k, lost) ==
    /\ Scanner = "mainLoop" => pc = "idle"
    /\ lost => Stores(k)
    /\ matrix' = put(matrix, k, k \notin matrix)
    /\ hw' = IF lost THEN put(matrix', k, k \in hw) ELSE matrix'
    /\ kb' = set(kb, {"StateMatrix"})
    /\ UNCHANGED <<debounce, cycle, motion, output, pc, at>>

\* The next poll by the interrupt handler notices a lost write.
Rescan ==
    /\ Scanner = "interrupt"
    /\ hw # matrix
    /\ hw' = matrix
    /\ kb' = set(kb, {"StateMatrix"})
    /\ UNCHANGED <<matrix, debounce, cycle, motion, output, pc, at>>

DebounceElapses(k) ==
    /\ pc = "idle"
    /\ k \in debouncing \ elapsed
    /\ elapsed' = elapsed \cup {k}
    /\ UNCHANGED <<physical, debounced, debouncing, kb, cycle, motion, output,
                   pc, at>>

\* The event scheduler, called between cycles, processes NativeActions, which
\* preprocessKeyState schedules for as long as a key is debouncing.
NativeTimerExpires ==
    /\ pc = "idle"
    /\ elapsed # {} /\ ~isSet(kb, {"NativeActions"})
    /\ kb' = set(kb, {"NativeActions"})
    /\ UNCHANGED <<physical, debounce, cycle, motion, output, pc, at>>

\* ... or MacroWakeOnTime.
MacroTimerExpires ==
    /\ pc = "idle"
    /\ kb.macro = "onTime" /\ ~isSet(kb, {"MacroEngine"})
    /\ kb' = set(kb, {"MacroEngine"})
    /\ UNCHANGED <<physical, debounce, cycle, motion, output, pc, at>>

DelayElapses ==
    /\ pc = "idle"
    /\ delaying
    /\ delaying' = FALSE
    /\ UNCHANGED <<physical, debounce, kb, cycle, motion, report, pc, at>>

\* UhkModuleSlaveDriver_ProcessKeystates receives a nonzero delta.
PointerMoves ==
    /\ Pointer
    /\ pc = "idle"
    /\ ~motion
    /\ motion' = TRUE
    /\ kb' = set(kb, {"MouseController"})
    /\ UNCHANGED <<physical, debounce, cycle, output, pc, at>>

-----------------------------------------------------------------------------
(* The main loop: UpdateUsbReports.                                        *)

\* Until the keystroke delay is over, switches are debounced into the queue only.
JustPreprocessInput ==
    /\ pc = "idle" /\ isSet(kb, WakeBits)
    /\ delaying
    /\ kb' = set(kb, {"NativePostponing"})
    /\ pc' = "input" /\ at' = 1
    /\ UNCHANGED <<physical, debounce, cycle, motion, output>>

\* Macros_ContinueMacro; a macro that has ended postpones nothing.
continueMacro(s, macro, postpones) ==
    LET t == unset([s EXCEPT !.macro = macro], {"MacroEngine", "MacroPostponing"})
    IN  set(t, (IF macro = "awake" THEN {"MacroEngine"} ELSE {})
               \cup (IF postpones THEN {"MacroPostponing"} ELSE {}))

MacroOutcome(macro, postpones) ==
    IF isSet(kb, {"MacroEngine"}) THEN postpones => macro # "ended"
    ELSE macro = kb.macro /\ postpones = ("MacroPostponing" \in kb.vector)

\* handleLayerChanges
handleLayerChanges(s) ==
    LET t == unset([s EXCEPT !.layer = s.holds], {"LayerHolds"})
    IN  IF s.holds = layerSeen THEN t
        ELSE set([t EXCEPT !.sticky = NoKey], {"ReportsChanged"})

\* Mutant: the native actions of the last cycle go on postponing.
resetActions_KeepsPostponing(s) ==
    unset([s EXCEPT !.holds = FALSE, !.codes = {}, !.lastMods = NoKey],
          {"NativeActions", "StateMatrix"})

\* updateActionStates starts from empty reports and holds; modifiers that are not
\* reported again change the report.
resetActions(s) ==
    set(unset([s EXCEPT !.holds = FALSE, !.codes = {}, !.lastMods = NoKey],
              {"NativeActions", "StateMatrix", "NativePostponing"}),
        IF s.lastMods # NoKey THEN {"ReportsChanged"} ELSE {})

BeginCycle(macro, postpones) ==
    LET m == continueMacro(unset(kb, {"ReportsChanged"}), macro, postpones)
        s == IF isSet(m, {"LayerHolds"}) THEN handleLayerChanges(m) ELSE m
        p == RunPostponedEvents(s)
    IN  /\ pc = "idle" /\ isSet(kb, WakeBits)
        /\ ~delaying
        /\ MacroOutcome(macro, postpones)
        /\ layerSeen' = IF isSet(m, {"LayerHolds"}) THEN s.layer ELSE layerSeen
        /\ queuing' = (s.queue # <<>> \/ isSet(s, PostponingBits))
        /\ IF isSet(p, {"NativeActions", "StateMatrix"})
           THEN kb' = resetActions(p) /\ pc' = "keys"
           ELSE kb' = p /\ pc' = "finish"
        /\ at' = 1
        /\ UNCHANGED <<physical, debounce, lastPostponing, motion, output>>

NextKey(phase) ==
    IF at + 1 \in Keys THEN at' = at + 1 /\ pc' = pc
    ELSE at' = 1 /\ pc' = phase

\* preprocessKeyState: the end of debouncing, then at most one debounced change.
Changes(k) ==
    /\ k \notin debouncing \/ k \in elapsed
    /\ (k \in hw) # (k \in debounced)

PreprocessKey(k) ==
    /\ debounced' = IF Changes(k) THEN put(debounced, k, k \in hw) ELSE debounced
    /\ debouncing' = IF Changes(k) THEN debouncing \cup {k} ELSE debouncing \ (elapsed \cap {k})
    /\ elapsed' = elapsed \ {k}

preprocess(s, k) == IF Changes(k) THEN commitKeyState(s, k, k \in hw) ELSE s

\* One key of justPreprocessInput.
InputKey ==
    /\ pc = "input"
    /\ PreprocessKey(at)
    /\ kb' = preprocess(kb, at)
    /\ NextKey("idle")
    /\ UNCHANGED <<physical, cycle, motion, output>>

\* One key of updateActionStates.
UpdateKey ==
    /\ pc = "keys"
    /\ PreprocessKey(at)
    /\ kb' = processKey(preprocess(kb, at), at)
    /\ NextKey("finish")
    /\ UNCHANGED <<physical, cycle, motion, output>>

\* MouseController_ProcessMouseActions: a blocked pointer asks the dual-role key to
\* decide and tries again in the next cycle.
processMouse(s) ==
    IF ~isSet(s, {"MouseController"}) \/ ~motion THEN unset(s, {"MouseController"})
    ELSE IF s.sticky # NoKey THEN [s EXCEPT !.sticky = NoKey]
    ELSE IF s.mouseBlocked
         THEN [s EXCEPT !.trigger = @ \/ s.resolution.role = "unknown"]
    ELSE unset(s, {"MouseController"})

MouseRuns(s) == isSet(s, {"MouseController"}) /\ s.sticky = NoKey /\ ~s.mouseBlocked

\* When nobody postpones any more, the postponer is woken; then the report is
\* merged, and sent if it differs from the last one.
FinishCycle ==
    LET s == processMouse(kb)
        postponing == isSet(s, PostponingBits)
        w == IF lastPostponing /\ ~postponing /\ s.queue # <<>>
             THEN set(s, {"Postponer"}) ELSE s
        merged == [codes |-> w.codes, mods |-> {w.sticky, w.lastMods} \ {NoKey}]
        moved == motion /\ MouseRuns(kb)
        sends == moved \/ isSet(w, {"ReportsChanged", "ZeroScan"})
        changed == sends /\ merged # report
    IN  /\ pc = "finish"
        /\ lastPostponing' = postponing
        /\ motion' = (motion /\ ~MouseRuns(kb))
        /\ report' = IF changed THEN merged ELSE report
        /\ delaying' = (delaying \/ (changed /\ KeystrokeDelay))
        /\ kb' = IF changed \/ moved
                 THEN set(w, {"ZeroScan"}) ELSE unset(w, {"ZeroScan"})
        /\ pc' = "idle"
        /\ UNCHANGED <<physical, debounce, queuing, layerSeen, at>>

-----------------------------------------------------------------------------
MainLoop ==
    \/ JustPreprocessInput
    \/ \E macro \in {"ended", "awake", "onKey", "onTime"}, postpones \in BOOLEAN:
           BeginCycle(macro, postpones)
    \/ InputKey \/ UpdateKey \/ FinishCycle

World ==
    \/ \E k \in Keys, lost \in BOOLEAN: Scan(k, lost)
    \/ \E k \in Keys: DebounceElapses(k)
    \/ Rescan \/ NativeTimerExpires \/ MacroTimerExpires \/ DelayElapses
    \/ PointerMoves

Next == MainLoop \/ World
Spec == Init /\ [][Next]_vars

\* The main loop runs forever, time passes, and the event scheduler is asked for
\* expired events after every cycle.  A step of the main loop moves pc or at, no
\* other step does, and one is possible unless the loop sleeps: the first conjunct
\* is WF_vars(MainLoop), written so that TLC need not evaluate its actions again.
Asleep == pc = "idle" /\ ~isSet(kb, WakeBits)
Fairness ==
    /\ []<>Asleep \/ []<><<pc' # pc \/ at' # at>>_<<pc, at>>
    /\ SF_vars(DelayElapses \/ \E k \in Keys: DebounceElapses(k))
    /\ SF_vars(NativeTimerExpires)
    /\ WF_vars(Rescan)
FairSpec == Spec /\ Fairness

-----------------------------------------------------------------------------
(* Properties.                                                             *)

\* Key k will be pressed once the queue has been replayed: its last event there
\* is a press, or it has none and is pressed now.
Eventually(s, k) ==
    \/ \E i \in DOMAIN s.queue:
          /\ s.queue[i].key = k /\ s.queue[i].active
          /\ \A j \in DOMAIN s.queue: s.queue[j].key = k => j <= i
    \/ k \in s.current /\ \A i \in DOMAIN s.queue: s.queue[i].key # k

\* Every debounced change of a switch (preprocessKeyState) is on its way: once the
\* queue has been replayed, each key is in the state its switch is in.  Dual-role
\* keys are left out: SecondaryRoles_FakeActivation presses them anew.
NothingLost == \A k \in Keys \ DualKeys: Eventually(kb, k) <=> k \in debounced

\* A visit of a key appends its event and, for a dual-role key, that of the mouse;
\* appendEvent makes room for them.
MakesRoom ==
    pc \in {"input", "keys"} /\
    Len(kb.queue) + (IF at \in DualKeys THEN 1 ELSE 0) >= BufferSize

\* Only events of the mouse are queued.
OnlyMouse(s) == \A i \in DOMAIN s.queue: s.queue[i].key = Mouse

\* Key states change in the order of the debounced events: a step replays the
\* oldest queued event, or commits a new one past a queue without key events,
\* unless the queue is full and has to make room.  (Dual-role keys are left out
\* here as well.)
InOrder ==
    [][LET ordinary(C) == C \ DualKeys IN
       \/ ordinary(kb'.current) = ordinary(kb.current)
       \/ /\ kb.queue # <<>>
          /\ ordinary(kb'.current) =
                ordinary(put(kb.current, Head(kb.queue).key, Head(kb.queue).active))
       \/ /\ OnlyMouse(kb)
          /\ \E k \in Keys \ DualKeys:
                /\ ordinary(kb'.current) = ordinary(put(kb.current, k, k \in debounced'))
                /\ (k \in debounced) # (k \in debounced')
       \/ MakesRoom]_vars

\* A key goes through its whole lifecycle: its state does not change again before
\* its action has seen the last change, so no press or release is swallowed,
\* unless the queue is above MaxFill or has to make room.
EveryEventActedOn ==
    [][\A k \in Keys \ DualKeys:
          \/ (k \in kb.current) = (k \in kb'.current)
          \/ (k \in kb.current) = (k \in kb.previous)
          \/ MakesRoom \/ Len(kb.queue) > MaxFill]_vars

\* A shortcut's scancode appears in a report only together with its modifiers and
\* after a report that already had them - unless the queue is above MaxFill, or
\* the pointer moves or a held layer ends in between and clears the sticky
\* modifiers.
ModifiersFirst ==
    [][\A k \in ShortcutKeys \cap (report'.codes \ report.codes):
           Len(kb.queue) < MaxFill /\ ~motion /\ kb.secondary = {}
               => k \in report.mods /\ k \in report'.mods]_report

Undecided == kb.resolution.key \in kb.previous /\ kb.resolution.role = "unknown"
HeldAsSecondary ==
    kb.resolution.key \in kb.previous /\ kb.resolution.role = "secondary"

\* No key acts while a dual-role key is undecided, and a key that acts while one
\* is held in its secondary role acts on that role's layer.
DualRoleFirst ==
    [][\A k \in kb'.previous \ kb.previous:
           k # kb.resolution.key =>
               (Len(kb.queue) < MaxFill => ~Undecided) /\ (HeldAsSecondary => kb.layer)]_vars

\* The main loop goes to sleep with events in the queue only while a macro
\* postpones or a dual-role key waits for more events.
SleepsForAReason ==
    Asleep /\ kb.queue # <<>> =>
        debouncing # {} \/ "MacroPostponing" \in kb.vector \/ Undecided

\* The switches, the key states and the report agree.
Settled ==
    /\ kb.current = matrix /\ kb.queue = <<>>
    /\ report.codes = {k \in matrix \ MacroKeys: k \in DualKeys => k \notin kb.secondary}

\* When the switches come to rest, the key states and the report settle on them,
\* unless a macro postpones or a dual-role key waits for more events forever.
NoKeyStuck ==
    \/ <>[]("MacroPostponing" \in kb.vector \/ Undecided)
    \/ []<><<matrix' # matrix>>_vars
    \/ []<>Settled
=============================================================================

--------------------------- MODULE MacroScheduler ---------------------------
(***************************************************************************)
(* The macro engine of right/src/macros/core.c under the blocking          *)
(* scheduler, the one of the default configuration (config_manager.c:225). *)
(*                                                                         *)
(* The main loop calls Macros_ContinueMacro while the EventVector bit      *)
(* macroEngine is set.  One call is an engine cycle: wake the sleepers     *)
(* whose event came, then run the current macro, command by command, until *)
(* every macro of the run queue has yielded once, a macro blocks for a USB *)
(* report, or the batch is used up; then recompute the EventVector bits.   *)
(* A command is one step; its program is not modelled, so any command may  *)
(* come next and any command may be a macro's last.  Between cycles (pc =  *)
(* "idle") keys, timers, keymap changes and USB commands arrive.           *)
(***************************************************************************)
EXTENDS MacroSlots

CONSTANTS
    MaxBatchSize,  \* Cfg.Macros_MaxBatchSize
    Commands,      \* the kinds of commands the user's macros contain
    TailCalls,     \* whether callMacro may be a macro's last command
    Answers        \* what initMacro may answer

CommandKinds == {"work", "yield", "block", "sleep", "call", "fork", "stopAll", "event"}

ASSUME SchedulerAssumption ==
    /\ MaxBatchSize \in Nat \ {0}
    /\ Commands \subseteq CommandKinds
    /\ TailCalls \in BOOLEAN
    /\ Answers \subseteq InitAnswers

VARIABLES
    m,               \* MacroState[] and Macros_SchedulerState
    pc,              \* where the engine is in its cycle
    batch,           \* remainingExecution
    engine,          \* EventVector_MacroEngine
    postponing,      \* EventVector_MacroEnginePostponing
    wakeMeOnKey,     \* Macros_WakeMeOnKeystateChange
    wokenByKey,      \* Macros_WakedBecauseOfKeystateChange
    wakeTimer,       \* EventSchedulerEvent_MacroWakeOnTime is scheduled
    wokenByTime      \* Macros_WakedBecauseOfTime

bits == <<engine, postponing>>
wakes == <<wakeMeOnKey, wokenByKey, wakeTimer, wokenByTime>>
vars == <<m, pc, batch, bits, wakes>>

PcValues == {"idle", "wakeOnKey", "wakeOnTime", "executing", "blocked"}

TypeOK ==
    /\ m \in Pool
    /\ pc \in PcValues
    /\ batch \in 0..MaxBatchSize
    /\ engine \in BOOLEAN /\ postponing \in BOOLEAN
    /\ wakeMeOnKey \in BOOLEAN /\ wokenByKey \in BOOLEAN
    /\ wakeTimer \in BOOLEAN /\ wokenByTime \in BOOLEAN

Init ==
    /\ m = EmptyPool
    /\ pc = "idle"
    /\ batch = 0
    /\ engine = FALSE /\ postponing = FALSE
    /\ wakeMeOnKey = FALSE /\ wokenByKey = FALSE
    /\ wakeTimer = FALSE /\ wokenByTime = FALSE

-----------------------------------------------------------------------------
(* Between engine cycles.                                                  *)

\* A key with a macro action, or a USB command, starts a macro.
StartMacro(answer) ==
    /\ pc = "idle"
    /\ m' = startMacro(m, NoSlot, answer)
    /\ engine' = (engine \/ Starts(m, answer))
    /\ postponing' = (postponing \/ Starts(m, answer))
    /\ UNCHANGED <<pc, batch, wakes>>

\* A keymap, layer or lock change starts event macros: startMacroInSlot starts the
\* first and queues each further one behind the one before; if one cannot be
\* initialized, the next is started at once.  previousEventMacroSlot is 255 again
\* when the handler returns.  Two event macros at most, which bounds the handler;
\* "none": there is no second one.
afterEvent(first, second) ==
    LET started == startMacro(m, NoSlot, first)
    IN  IF ~Starts(m, first) THEN startMacro(m, NoSlot, second)
        ELSE IF Starts(started, second) THEN queueMacro(started, FreeSlot(m))
        ELSE started

EventAnswers == Answers \cup {"none"}

\* S is left at a free slot when Macros_QueueMacro fails for want of a scope.
LeavesS(first, second) ==
    /\ Starts(m, first)
    /\ second = "noScope"
    /\ FreeSlots(startMacro(m, NoSlot, first)) # {}

\* The event of a keymap, layer or lock change outside the engine.
MacroEvent(first, second) ==
    /\ pc = "idle"
    /\ m' = afterEvent(first, second)
    /\ engine' = (engine \/ m'.playing # m.playing)
    /\ postponing' = (postponing \/ m'.playing # m.playing)
    /\ UNCHANGED <<pc, batch, wakes>>

\* Macros_WakeBecauseOfKeystateChange
KeystateChange ==
    /\ pc = "idle"
    /\ wakeMeOnKey
    /\ wokenByKey' = TRUE
    /\ engine' = TRUE
    /\ UNCHANGED <<m, pc, batch, postponing, wakeMeOnKey, wakeTimer, wokenByTime>>

\* Mutant: the engine is called, but not told why.
TimerExpires_NotTold ==
    /\ pc = "idle"
    /\ wakeTimer
    /\ wakeTimer' = FALSE
    /\ engine' = TRUE
    /\ UNCHANGED <<m, pc, batch, postponing, wakeMeOnKey, wokenByKey, wokenByTime>>

\* The event scheduler processes MacroWakeOnTime.
TimerExpires ==
    /\ pc = "idle"
    /\ wakeTimer
    /\ wakeTimer' = FALSE
    /\ wokenByTime' = TRUE
    /\ engine' = TRUE
    /\ UNCHANGED <<m, pc, batch, postponing, wakeMeOnKey, wokenByKey>>

\* A USB protocol change asks every report producer for a new report.
ProtocolChange ==
    /\ pc = "idle"
    /\ engine' = TRUE
    /\ UNCHANGED <<m, pc, batch, postponing, wakes>>

-----------------------------------------------------------------------------
(* An engine cycle: wakeSleepers, then executeBlocking.                    *)

BeginCycle ==
    /\ pc = "idle"
    /\ engine
    /\ pc' = "wakeOnKey"
    /\ UNCHANGED <<m, batch, bits, wakes>>

\* Mutant: the registration is dropped although no key changed.
WakeOnKey_DropsRegistration ==
    LET W == m.wakeOnKey \cap m.sleeping
    IN  /\ pc = "wakeOnKey"
        /\ \/ /\ wokenByKey /\ W # {}
              /\ m' = wakeMacroInSlot(m, FirstSlot(W))
              /\ UNCHANGED <<pc, wakeMeOnKey, wokenByKey>>
           \/ /\ ~(wokenByKey /\ W # {})
              /\ pc' = "wakeOnTime"
              /\ wokenByKey' = FALSE
              /\ wakeMeOnKey' = FALSE
              /\ UNCHANGED m
        /\ UNCHANGED <<batch, bits, wakeTimer, wokenByTime>>

WakeOnKey ==
    LET W == m.wakeOnKey \cap m.sleeping
    IN  /\ pc = "wakeOnKey"
        /\ \/ /\ wokenByKey /\ W # {}
              /\ m' = wakeMacroInSlot(m, FirstSlot(W))
              /\ UNCHANGED <<pc, wakeMeOnKey, wokenByKey>>
           \/ /\ ~(wokenByKey /\ W # {})
              /\ pc' = "wakeOnTime"
              /\ wokenByKey' = FALSE
              /\ wakeMeOnKey' = (wakeMeOnKey /\ ~wokenByKey)
              /\ UNCHANGED m
        /\ UNCHANGED <<batch, bits, wakeTimer, wokenByTime>>

WakeOnTime ==
    LET W == m.wakeOnTime \cap m.sleeping
    IN  /\ pc = "wakeOnTime"
        /\ \/ /\ wokenByTime /\ W # {}
              /\ m' = wakeMacroInSlot(m, FirstSlot(W))
              /\ UNCHANGED <<pc, batch, wokenByTime>>
           \/ /\ ~(wokenByTime /\ W # {})
              /\ pc' = "executing"
              /\ wokenByTime' = FALSE
              /\ batch' = MaxBatchSize
              /\ m' = [m EXCEPT !.remainingCount = m.activeSlotCount]
        /\ UNCHANGED <<bits, wakeMeOnKey, wokenByKey, wakeTimer>>

\* The macro whose turn it is.  The loop tests that it is playing and not
\* sleeping; CurrentRunnable says that it always is.
Runs(s) ==
    /\ pc = "executing"
    /\ m.remainingCount > 0
    /\ batch > 0
    /\ s = m.currentSlotIdx

\* A healthy macro about to run a command of a kind its author used.
Executes(s, command) ==
    /\ Runs(s)
    /\ s \notin m.broken
    /\ command \in Commands

\* Mutant: a macro that does not yield gets a new batch when its batch is over.
Iterate_Refills(n, s, yields) ==
    /\ m' = IF yields \/ s \notin Awake(n) THEN getNextScheduledSlot(n) ELSE n
    /\ batch' = IF ~yields /\ batch = 1 THEN MaxBatchSize ELSE batch - 1
    /\ pc' = pc

\* Mutant: a macro that yields keeps its turn.
Iterate_KeepsTurn(n, s, yields) ==
    /\ m' = IF s \notin Awake(n) THEN getNextScheduledSlot(n) ELSE n
    /\ batch' = batch - 1
    /\ pc' = pc

\* The end of a loop iteration, after a command that left pool n.
Iterate(n, s, yields) ==
    /\ m' = IF yields \/ s \notin Awake(n) THEN getNextScheduledSlot(n) ELSE n
    /\ batch' = batch - 1
    /\ pc' = pc

\* The epilogue of continueMacro: the next command is loaded, or there is none.
\* Ending yields.
Finish(n, s, yields, last) ==
    Iterate(IF last THEN endMacro(n, s) ELSE n, s, yields \/ last)

EndBroken ==
    \E s \in Slots :
        /\ Runs(s)
        /\ s \in m.broken
        /\ Finish(m, s, TRUE, TRUE)
        /\ UNCHANGED <<bits, wakes>>

\* A command that finishes, or jumps forward, or fails (then it is the last).
Work(last) ==
    \E s \in Slots :
        /\ Executes(s, "work")
        /\ Finish(m, s, FALSE, last)
        /\ UNCHANGED <<bits, wakes>>

\* yield, a jump backward, a wait that polls.
Yield(last) ==
    \E s \in Slots :
        /\ Executes(s, "yield")
        /\ Finish(m, s, TRUE, last)
        /\ UNCHANGED <<bits, wakes>>

\* The command needs a USB report to be sent: the update cycle is completed
\* first and the same command goes on in the next one.
Block ==
    \E s \in Slots :
        /\ Executes(s, "block")
        /\ pc' = "blocked"
        /\ UNCHANGED <<m, batch, bits, wakes>>

\* Waiting for a key or until a time, or for the first of the two.
Sleep(onKey, onTime) ==
    \E s \in Slots :
        /\ Executes(s, "sleep")
        /\ onKey \/ onTime
        /\ Iterate(sleepMacro(m, s, onKey, onTime), s, TRUE)
        /\ wakeMeOnKey' = (wakeMeOnKey \/ onKey)
        /\ wakeTimer' = (wakeTimer \/ onTime)
        /\ UNCHANGED <<bits, wokenByKey, wokenByTime>>

Call(answer, last) ==
    \E s \in Slots :
        /\ Executes(s, "call")
        /\ last => TailCalls
        /\ Finish(callMacro(m, s, answer), s, TRUE, last)
        /\ UNCHANGED <<bits, wakes>>

\* The bits Macros_StartMacro sets inside a cycle are recomputed by EndCycle.
Fork(answer, last) ==
    \E s \in Slots :
        /\ Executes(s, "fork")
        /\ Finish(startMacro(m, NoSlot, answer), s, FALSE, last)
        /\ UNCHANGED <<bits, wakes>>

StopAll(last) ==
    \E s \in Slots :
        /\ Executes(s, "stopAll")
        /\ Finish(stopAllMacros(m, s), s, FALSE, last)
        /\ UNCHANGED <<bits, wakes>>

\* A command that changes the keymap or the layer starts the event macros.  With S
\* left at a free slot, the epilogue ends that slot instead of the macro, whose
\* command is run again on its next turn.
SwitchKeymap(first, second, last) ==
    \E s \in Slots :
        /\ Executes(s, "event")
        /\ LET n    == afterEvent(first, second)
               left == FreeSlot(startMacro(m, NoSlot, first))
           IN  \/ ~LeavesS(first, second) /\ Finish(n, s, FALSE, last)
               \/ LeavesS(first, second) /\ Iterate(endMacro(n, left), left, TRUE)
        /\ UNCHANGED <<bits, wakes>>

\* Mutant: the engine is asked for only when the cycle was cut short.
EndCycle_Drops ==
    /\ \/ pc = "blocked"
       \/ pc = "executing" /\ (m.remainingCount = 0 \/ batch = 0)
    /\ postponing' = (pc = "blocked" \/ batch = 0)
    /\ engine' = (pc = "blocked" \/ batch = 0)
    /\ pc' = "idle"
    /\ batch' = 0
    /\ UNCHANGED <<m, wakes>>

\* recalculateSleepingMods.  The postponing modifiers of the macros' scopes,
\* which also feed the postponing bit, are not part of this module.
EndCycle ==
    /\ \/ pc = "blocked"
       \/ pc = "executing" /\ (m.remainingCount = 0 \/ batch = 0)
    /\ postponing' = (pc = "blocked" \/ batch = 0)
    /\ engine' = (Awake(m) # {})
    /\ pc' = "idle"
    /\ batch' = 0
    /\ UNCHANGED <<m, wakes>>

-----------------------------------------------------------------------------

Cycle ==
    \/ BeginCycle \/ WakeOnKey \/ WakeOnTime
    \/ EndBroken \/ Block \/ EndCycle
    \/ \E last \in BOOLEAN : Work(last) \/ Yield(last) \/ StopAll(last)
    \/ \E onKey, onTime \in BOOLEAN : Sleep(onKey, onTime)
    \/ \E answer \in Answers, last \in BOOLEAN : Call(answer, last) \/ Fork(answer, last)
    \/ \E first \in Answers, second \in EventAnswers, last \in BOOLEAN :
          SwitchKeymap(first, second, last)

Events ==
    \/ KeystateChange \/ TimerExpires \/ ProtocolChange
    \/ \E answer \in Answers : StartMacro(answer)
    \/ \E first \in Answers, second \in EventAnswers : MacroEvent(first, second)

Next == Cycle \/ Events

Spec == Init /\ [][Next]_vars

-----------------------------------------------------------------------------
(* Safety.                                                                 *)

\* next leads in one circle through all of C: no non-empty proper part of C is
\* closed under it.
Circle(C, next) ==
    /\ \A i \in C : next[i] \in C
    /\ \A T \in SUBSET C : (T # {} /\ \A i \in T : next[i] \in T) => T = C

\* The run queue is one circle through exactly the scheduled slots, which are
\* counted, and the three pointers of scheduler_state_t are in it.
Ring(n) ==
    /\ n.activeSlotCount = Cardinality(n.scheduled)
    /\ Circle(n.scheduled, n.nextSlot)
    /\ n.scheduled # {} =>
          {n.currentSlotIdx, n.previousSlotIdx, n.lastQueuedSlot} \subseteq n.scheduled

\* previousSlotIdx is the predecessor of currentSlotIdx.
Linked(n) == n.scheduled # {} => n.nextSlot[n.previousSlotIdx] = n.currentSlotIdx

\* After every step the run queue is a circle and its current slot can be
\* unlinked: no macro is cut off from the circle, or met twice in a round.
RunQueueIntact == Ring(m) /\ Linked(m)

\* A macro on the run queue is playing and not sleeping, and a turn is never
\* promised to more macros than are queued (checkSchedulerHealth, "This slot is
\* sleeping, but is scheduled").
ScheduledAreAwake ==
    /\ m.scheduled \subseteq Awake(m)
    /\ m.sleeping \subseteq m.playing
    /\ m.remainingCount <= m.activeSlotCount

\* The slot the engine is about to run can run: the test of executeBlocking
\* (playing, not sleeping) never fails.
CurrentRunnable ==
    pc = "executing" /\ m.remainingCount > 0 => m.currentSlotIdx \in Awake(m)

\* checkSchedulerHealth, "Scheduled counts don't match up!": every awake macro
\* is on the run queue, that is, no macro is awake and forgotten.
AwakeAreScheduled == Awake(m) \subseteq m.scheduled

\* Somebody will wake a sleeping macro: a key change that it asked for and that
\* will be noticed, its wake timer, which is running or has just expired, or the
\* end of a playing macro that has it for a parent.  A registration cleared or
\* dropped while another macro still needs it is a lost wake-up.
SleepersHaveWakers ==
    \A i \in m.sleeping :
        \/ i \in m.wakeOnKey /\ wakeMeOnKey
        \/ i \in m.wakeOnTime /\ (wakeTimer \/ wokenByTime)
        \/ \E j \in m.playing : m.parent[j] = i

\* Between cycles, when a macro can run or a sleeper must be woken, the bit
\* that makes the main loop call the engine is set.
EngineRequested ==
    pc = "idle" /\ (Awake(m) # {} \/ wokenByKey \/ wokenByTime) => engine

\* A macro that called another, or is queued behind another, does not run
\* before that one has ended.
CallersWait ==
    \A i \in m.playing :
        m.awaits[i] # NoSlot => i \in m.sleeping /\ m.awaits[i] \in m.playing

-----------------------------------------------------------------------------
(* Liveness: the main loop calls the engine again and again, and between   *)
(* two calls it processes the events whose time has come; timers are       *)
(* processed only then, so their fairness is strong.  Nothing is assumed   *)
(* about the macros themselves.                                            *)

FairSpec == Spec /\ WF_vars(Cycle) /\ SF_vars(TimerExpires)

\* A cycle ends whatever the macros do: keys are scanned again.
CyclesEnd == (pc = "executing") ~> (pc = "idle")

\* A macro sleeping until a time is woken.
TimeSleepersWake ==
    \A i \in Slots : i \in m.sleeping \cap m.wakeOnTime ~> i \notin m.sleeping

\* If the macros give way, so that one that is run again and again yields in the
\* end (every backward jump yields, doc-dev/reference-manual.md:646), then every
\* macro on the run queue gets its turn.
EveryoneRuns ==
    SF_vars(Yield(FALSE)) =>
        \A i \in Slots :
            i \in m.scheduled ~>
                i \notin m.scheduled \/ (pc = "executing" /\ m.currentSlotIdx = i)

=============================================================================

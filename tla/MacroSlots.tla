----------------------------- MODULE MacroSlots -----------------------------
(***************************************************************************)
(* The macro state pool of right/src/macros/core.c and the run queue that  *)
(* is threaded through it.  A pool value is one record: the flags of       *)
(* macro_state_t as sets of slots, the links nextSlot and parentMacroSlot  *)
(* as functions, and the counters of scheduler_state_t under their own     *)
(* names.  Every operator is one C function, as a function from pools to   *)
(* pools; MacroScheduler sequences them.                                   *)
(*                                                                         *)
(* The run queue is a circular single-linked list.  currentSlotIdx is the  *)
(* macro to run, previousSlotIdx its predecessor (kept so that the current *)
(* slot can be unlinked), lastQueuedSlot the slot after which new macros   *)
(* are inserted.                                                           *)
(***************************************************************************)
EXTENDS Naturals, FiniteSets

CONSTANT MACRO_STATE_POOL_SIZE

ASSUME PoolAssumption == MACRO_STATE_POOL_SIZE \in 1..254

Slots == 0..(MACRO_STATE_POOL_SIZE - 1)

\* 255 in the code: no parent macro, or no slot was found.
NoSlot == 255

\* awaits is a history variable, not in the code: the macro that the owner of
\* a slot has called, or has been queued behind, until that macro ends.
Pool == [playing : SUBSET Slots, sleeping : SUBSET Slots,
         broken : SUBSET Slots, scheduled : SUBSET Slots,
         wakeOnKey : SUBSET Slots, wakeOnTime : SUBSET Slots,
         nextSlot : [Slots -> Slots], parent : [Slots -> Slots \cup {NoSlot}],
         awaits : [Slots -> Slots \cup {NoSlot}],
         previousSlotIdx : Slots, currentSlotIdx : Slots, lastQueuedSlot : Slots,
         activeSlotCount : Nat, remainingCount : Nat]

\* The pool is zeroed at start-up: an unused slot has slot 0 for a parent.
EmptyPool ==
    [playing |-> {}, sleeping |-> {}, broken |-> {}, scheduled |-> {},
     wakeOnKey |-> {}, wakeOnTime |-> {},
     nextSlot |-> [i \in Slots |-> 0], parent |-> [i \in Slots |-> 0],
     awaits |-> [i \in Slots |-> NoSlot],
     previousSlotIdx |-> 0, currentSlotIdx |-> 0, lastQueuedSlot |-> 0,
     activeSlotCount |-> 0, remainingCount |-> 0]

Awake(m) == m.playing \ m.sleeping

-----------------------------------------------------------------------------
(* The run queue.                                                          *)

\* Mutant: previousSlotIdx is not moved to the slot inserted behind it.
scheduleSlot_StalePrevious(m, i) ==
    IF i \in m.scheduled
    THEN m
    ELSE IF m.activeSlotCount = 0
    THEN [m EXCEPT !.scheduled = {i}, !.nextSlot[i] = i, !.previousSlotIdx = i,
                   !.currentSlotIdx = i, !.lastQueuedSlot = i,
                   !.activeSlotCount = @ + 1, !.remainingCount = @ + 1]
    ELSE [m EXCEPT !.scheduled = @ \cup {i}, !.lastQueuedSlot = i,
                   !.nextSlot = [@ EXCEPT ![i] = m.nextSlot[m.lastQueuedSlot],
                                          ![m.lastQueuedSlot] = i],
                   !.activeSlotCount = @ + 1, !.remainingCount = @ + 1]

scheduleSlot(m, i) ==
    IF i \in m.scheduled
    THEN m
    ELSE IF m.activeSlotCount = 0
    THEN [m EXCEPT !.scheduled = @ \cup {i}, !.nextSlot[i] = i,
                   !.previousSlotIdx = i, !.currentSlotIdx = i, !.lastQueuedSlot = i,
                   !.activeSlotCount = @ + 1, !.remainingCount = @ + 1]
    ELSE LET last == m.lastQueuedSlot
         IN  [m EXCEPT !.scheduled = @ \cup {i},
                       !.nextSlot = [@ EXCEPT ![i] = m.nextSlot[last], ![last] = i],
                       !.lastQueuedSlot = i,
                       !.previousSlotIdx = IF last = @ THEN i ELSE @,
                       !.activeSlotCount = @ + 1, !.remainingCount = @ + 1]

\* A second attempt for the same macro finds another slot current, and is
\* ignored.
unscheduleCurrentSlot(m, s) ==
    IF m.currentSlotIdx = s /\ s \in m.scheduled
    THEN [m EXCEPT !.nextSlot[m.previousSlotIdx] = m.nextSlot[s],
                   !.scheduled = @ \ {s},
                   !.lastQueuedSlot = IF @ = s THEN m.previousSlotIdx ELSE @,
                   !.currentSlotIdx = m.previousSlotIdx,
                   !.activeSlotCount = @ - 1]
    ELSE m

getNextScheduledSlot(m) ==
    IF m.remainingCount > 0
    THEN LET next == m.nextSlot[m.currentSlotIdx]
         IN  [m EXCEPT !.previousSlotIdx = m.currentSlotIdx,
                       !.lastQueuedSlot = IF @ = m.currentSlotIdx THEN next ELSE @,
                       !.currentSlotIdx = next,
                       !.remainingCount = @ - 1]
    ELSE m

\* Mutant: the macro is awake, but nobody queues it.
wakeMacroInSlot_NotQueued(m, i) ==
    [m EXCEPT !.sleeping = @ \ {i}, !.wakeOnKey = @ \ {i}, !.wakeOnTime = @ \ {i}]

wakeMacroInSlot(m, i) ==
    IF i \in m.sleeping
    THEN scheduleSlot([m EXCEPT !.sleeping = @ \ {i}, !.wakeOnKey = @ \ {i},
                                !.wakeOnTime = @ \ {i}], i)
    ELSE m

-----------------------------------------------------------------------------
(* The life of a macro.                                                    *)

FreeSlots(m) == Slots \ m.playing

\* The first slot of a non-empty set, the one a loop over the pool meets first.
FirstSlot(W) == CHOOSE i \in W : \A j \in W : i <= j

\* findFreeStateSlot takes the first slot that is not playing.
FreeSlot(m) == FirstSlot(FreeSlots(m))

initMacro(m, i, parentMacroSlot) ==
    [m EXCEPT !.playing = @ \cup {i}, !.sleeping = @ \ {i}, !.broken = @ \ {i},
              !.scheduled = @ \ {i}, !.wakeOnKey = @ \ {i}, !.wakeOnTime = @ \ {i},
              !.nextSlot[i] = 0, !.parent[i] = parentMacroSlot,
              !.awaits[i] = NoSlot]

\* What initMacro may answer: "ok"; "empty", a macro without actions, refused
\* before any state is touched; "noScope", the scope pool is exhausted after
\* the state slot was chosen.  The scope pool itself is not part of this module.
InitAnswers == {"ok", "empty", "noScope"}

Starts(m, answer) == answer = "ok" /\ FreeSlots(m) # {}

startMacro(m, parentMacroSlot, answer) ==
    IF Starts(m, answer)
    THEN scheduleSlot(initMacro(m, FreeSlot(m), parentMacroSlot), FreeSlot(m))
    ELSE m

\* No longer waiting for macro s, which ends, and s no longer waits.
forget(m, s) ==
    [i \in Slots |-> IF i = s \/ m.awaits[i] = s THEN NoSlot ELSE m.awaits[i]]

endMacro(m, s) ==
    LET ended == unscheduleCurrentSlot(
                    [m EXCEPT !.playing = @ \ {s}, !.sleeping = @ \ {s},
                              !.broken = @ \ {s}, !.awaits = forget(m, s)], s)
    IN  IF ended.parent[s] # NoSlot
        THEN wakeMacroInSlot(ended, ended.parent[s])
        ELSE ended

\* Macros_SleepTillKeystateChange and Macros_SleepTillTime on a pool.
sleepMacro(m, s, onKey, onTime) ==
    [unscheduleCurrentSlot(m, s) EXCEPT
        !.sleeping = @ \cup {s},
        !.wakeOnKey = IF onKey THEN @ \cup {s} ELSE @,
        !.wakeOnTime = IF onTime THEN @ \cup {s} ELSE @]

\* Mutant: the caller sleeps like a macro that waits for a key.
callMacro_SleepsTillKey(m, s, answer) ==
    IF Starts(m, answer)
    THEN [sleepMacro(startMacro(m, s, answer), s, TRUE, FALSE) EXCEPT
             !.awaits[s] = FreeSlot(m)]
    ELSE m

callMacro(m, s, answer) ==
    IF Starts(m, answer)
    THEN [unscheduleCurrentSlot(startMacro(m, s, answer), s) EXCEPT
             !.sleeping = @ \cup {s}, !.wakeOnKey = @ \ {s}, !.wakeOnTime = @ \ {s},
             !.awaits[s] = FreeSlot(m)]
    ELSE m

\* The others are marked broken and awake, and are not put on the run queue.
stopAllMacros(m, s) ==
    [m EXCEPT !.broken = @ \cup (m.playing \ {s}), !.sleeping = @ \cap {s}]

\* The slots on the way from i along parentMacroSlot to the one that has no parent.
parentChain(m, i) ==
    {j \in Slots : \A T \in SUBSET Slots :
        (i \in T /\ \A k \in T : m.parent[k] # NoSlot => m.parent[k] \in T) => j \in T}

\* Where the while loop of Macros_QueueMacro ends.
chainEnd(m, i) == CHOOSE j \in parentChain(m, i) : m.parent[j] = NoSlot

queueMacro(m, after) ==
    LET new  == FreeSlot(m)
        init == initMacro(m, new, NoSlot)
        last == chainEnd(init, after)
    IN  [init EXCEPT !.parent[last] = new, !.sleeping = @ \cup {new},
                     !.awaits[new] = last]

=============================================================================

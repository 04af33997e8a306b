------------------------------ MODULE EventLoop ------------------------------
(***************************************************************************)
(* The main loop of the UHK 80 (device/src/main.c) around the event        *)
(* scheduler: run the user logic if there is work, process the events      *)
(* whose time has come, and sleep until the next event or until somebody   *)
(* gives the semaphore.                                                    *)
(*                                                                         *)
(* Other threads and interrupt handlers (drivers, Bluetooth, USB) run      *)
(* between any two steps of the main loop.  They post work, that is, set a *)
(* bit of EventVector_UserLogicUpdateMask, and call the scheduler; they    *)
(* have the higher priority, so what they do is one step.  The main loop's *)
(* own calls of the scheduler are single steps too, except for the one in  *)
(* EventScheduler_Process.                                                 *)
(*                                                                         *)
(* The user logic is abstract: it takes the work it finds, may call the    *)
(* scheduler and may leave work for the next turn.                         *)
(***************************************************************************)
EXTENDS EventScheduler

CONSTANTS
    MaxTime,    \* bounds the clock and the times events are scheduled at
    Posts       \* whether posts of others wake the main loop, a set of BOOLEANs

ASSUME LoopAssumption == MaxTime \in Nat /\ Posts \subseteq BOOLEAN

VARIABLES
    es,             \* the event scheduler and mainWakeupSemaphore
    now,            \* k_uptime_get()
    CurrentTime,    \* the copy of it that the firmware works with
    work,           \* EventScheduler_Vector & EventVector_UserLogicUpdateMask
    pc,             \* where the main loop is
    got,            \* gotAny of scheduleNext, called from EventScheduler_Process
    deadline,       \* nextEventTime of scheduleNextRun
    ringing,        \* the event in processEvt
    raced           \* history: another context called the scheduler in a Window

vars == <<es, now, CurrentTime, work, pc, got, deadline, ringing, raced>>

Forever == 0

PcValues == {"start", "logic", "schedule", "process", "scan", "ring", "drain",
             "check", "asleep"}

\* Where a call of another context is overwritten or forgotten: between the scan
\* of scheduleNext and its last line, and between EventScheduler_Process and the
\* k_sem_take that clears the semaphore.
Window == {"scan", "drain"}

TypeOK ==
    /\ es \in Scheduler
    /\ now \in Nat /\ CurrentTime \in Nat /\ deadline \in Nat
    /\ {work, got, raced} \subseteq BOOLEAN
    /\ pc \in PcValues
    /\ ringing \subseteq Events

Init ==
    /\ es = NothingScheduled
    /\ now = 1 /\ CurrentTime = 0 /\ deadline = Forever
    /\ work = FALSE /\ got = FALSE /\ raced = FALSE
    /\ pc = "start"
    /\ ringing = {}

-----------------------------------------------------------------------------
(* The main loop.                                                          *)

\* CurrentTime is updated; RunUserLogic takes the work.
Start ==
    /\ pc = "start"
    /\ CurrentTime' = now
    /\ work' = FALSE
    /\ pc' = IF work THEN "logic" ELSE "schedule"
    /\ UNCHANGED <<es, now, got, deadline, ringing, raced>>

EndLogic ==
    /\ pc = "logic"
    /\ pc' = "schedule"
    /\ UNCHANGED <<es, now, CurrentTime, work, got, deadline, ringing, raced>>

\* scheduleNextRun: EventScheduler_Process is called only if the bit is set.
scheduleNextRun ==
    /\ pc = "schedule"
    /\ pc' = IF es.bit THEN "process" ELSE "drain"
    /\ deadline' = Forever
    /\ UNCHANGED <<es, now, CurrentTime, work, got, ringing, raced>>

\* EventScheduler_Process takes an event whose time has come ...
TakeEvent ==
    /\ pc = "process"
    /\ IsDue(es, CurrentTime)
    /\ es' = takeNext(es)
    /\ got' = (Planned(es') # {})
    /\ ringing' = {es.nextEvent}
    /\ pc' = "scan"
    /\ UNCHANGED <<now, CurrentTime, work, deadline, raced>>

\* ... scheduleNext ends ...
SetBit ==
    /\ pc = "scan"
    /\ es' = [es EXCEPT !.bit = got]
    /\ got' = FALSE
    /\ pc' = "ring"
    /\ UNCHANGED <<now, CurrentTime, work, deadline, ringing, raced>>

\* ... and processEvt returns.
EndRing ==
    /\ pc = "ring"
    /\ ringing' = {}
    /\ pc' = "process"
    /\ UNCHANGED <<es, now, CurrentTime, work, got, deadline, raced>>

\* Mutant: the last event is processed, and eventIsValid says there was none.
EndProcess_NotValid ==
    /\ pc = "process"
    /\ ~IsDue(es, CurrentTime)
    /\ deadline' = Forever
    /\ pc' = "drain"
    /\ UNCHANGED <<es, now, CurrentTime, work, got, ringing, raced>>

\* The cached time is returned, an old one if no event is left.
EndProcess ==
    /\ pc = "process"
    /\ ~IsDue(es, CurrentTime)
    /\ deadline' = es.nextEventAt
    /\ pc' = "drain"
    /\ UNCHANGED <<es, now, CurrentTime, work, got, ringing, raced>>

\* A semaphore given so far is taken: haveMoreWork will see the work that came
\* with it.
Drain ==
    /\ pc = "drain"
    /\ CurrentTime' = now
    /\ es' = [es EXCEPT !.wake = FALSE]
    /\ pc' = "check"
    /\ UNCHANGED <<now, work, got, deadline, ringing, raced>>

\* Mutant: it sleeps whether there is work or not.
Check_SleepsAnyway ==
    /\ pc = "check"
    /\ pc' = "asleep"
    /\ UNCHANGED <<es, now, CurrentTime, work, got, deadline, ringing, raced>>

\* haveMoreWork: go on after at most a millisecond, with the semaphore given.
Check ==
    /\ pc = "check"
    /\ es' = [es EXCEPT !.wake = @ \/ work]
    /\ pc' = IF work THEN "start" ELSE "asleep"
    /\ UNCHANGED <<now, CurrentTime, work, got, deadline, ringing, raced>>

\* Mutant: it sleeps until the deadline, like the k_sleep that is commented out.
Wake_IgnoresSemaphore ==
    /\ pc = "asleep"
    /\ deadline # Forever /\ deadline <= now
    /\ pc' = "start"
    /\ UNCHANGED <<es, now, CurrentTime, work, got, deadline, ringing, raced>>

\* k_sem_take returns when the semaphore is given or its timeout has elapsed.
Wake ==
    /\ pc = "asleep"
    /\ es.wake \/ (deadline # Forever /\ deadline <= now)
    /\ es' = [es EXCEPT !.wake = FALSE]
    /\ pc' = "start"
    /\ UNCHANGED <<now, CurrentTime, work, got, deadline, ringing, raced>>

\* Code run by the main loop calls the scheduler, with a time in the past too; an
\* event that plans itself again does so for later.
MainCalls ==
    /\ pc \in {"logic", "ring"}
    /\ \E e \in Events, at \in 1..MaxTime:
           /\ pc = "ring" => at > CurrentTime
           /\ \/ es' = Schedule(es, at, e)
              \/ es' = Reschedule(es, at, e)
              \/ es' = Unschedule(es, e)
    /\ UNCHANGED <<now, CurrentTime, work, pc, got, deadline, ringing, raced>>

\* ... and leaves work to be done, as most cases of processEvt do.
MainPosts ==
    /\ pc \in {"logic", "ring"}
    /\ work' = TRUE
    /\ UNCHANGED <<es, now, CurrentTime, pc, got, deadline, ringing, raced>>

-----------------------------------------------------------------------------
(* Everybody else.                                                         *)

\* Some refresh CurrentTime before (uart.c:137), some do not (device_state.c:62).
OthersCall ==
    /\ \E e \in Events, at \in 1..MaxTime:
           /\ at > CurrentTime
           /\ \/ es' = Schedule(es, at, e)
              \/ es' = Reschedule(es, at, e)
              \/ es' = Unschedule(es, e)
    /\ CurrentTime' \in {CurrentTime, now}
    /\ raced' = (raced \/ pc \in Window)
    /\ UNCHANGED <<now, work, pc, got, deadline, ringing>>

\* EventVector_Set, followed by EventVector_WakeMain if wakes.
OthersPost(wakes) ==
    /\ work' = TRUE
    /\ es' = [es EXCEPT !.wake = @ \/ wakes]
    /\ UNCHANGED <<now, CurrentTime, pc, got, deadline, ringing, raced>>

Tick ==
    /\ now < MaxTime
    /\ now' = now + 1
    /\ UNCHANGED <<es, CurrentTime, work, pc, got, deadline, ringing, raced>>

-----------------------------------------------------------------------------
MainLoop ==
    \/ Start \/ EndLogic \/ scheduleNextRun
    \/ TakeEvent \/ SetBit \/ EndRing \/ EndProcess
    \/ Drain \/ Check \/ Wake

Next ==
    \/ MainLoop \/ MainCalls \/ MainPosts
    \/ OthersCall \/ Tick
    \/ \E wakes \in Posts: OthersPost(wakes)

Spec == Init /\ [][Next]_vars

\* The main loop runs, the user logic and processEvt return, and time passes.
FairSpec == Spec /\ WF_vars(MainLoop) /\ WF_vars(Tick)

-----------------------------------------------------------------------------
(* Properties.                                                             *)

\* The cache is right: the bit says whether any event is planned, and if so
\* nextEvent and nextEventAt are one with the earliest time.
Consistent(s) ==
    /\ s.bit <=> Planned(s) # {}
    /\ s.bit => /\ s.nextEvent \in Planned(s)
                /\ s.times[s.nextEvent] = s.nextEventAt
                /\ \A e \in Planned(s): s.nextEventAt <= s.times[e]

\* Whatever sequence of Schedule, Reschedule, Unschedule and Process, the cached
\* next event of event_scheduler.c is the earliest one.
NextIsEarliest == ~raced /\ pc # "scan" => Consistent(es)

\* The main loop never sleeps past an alarm: what it waits for comes no later than
\* the next event, or somebody has already given the semaphore.
SleepsUntilNextEvent ==
    pc = "asleep" /\ ~raced /\ es.bit =>
        es.wake \/ (deadline # Forever /\ deadline <= es.nextEventAt)

\* The main loop does not sleep while there is work for the user logic: a bit set
\* after haveMoreWork was computed has left its semaphore.
NeverSleepsOnWork == pc = "asleep" /\ work => es.wake

\* The event scheduler keeps its promise to its callers.
A == INSTANCE Alarms WITH Times <- 1..MaxTime, alarm <- es.times, void <- raced
KeepsAlarms == A!Spec

\* Bits of the event vector trigger an execution of the event loop
\* (event_scheduler.h:42): posted work gets the user logic run.
WorkIsDone == work ~> pc = "logic"

\* A planned event is processed in the end, unless it is unscheduled.
AlarmsRing == \A e \in Events: es.times[e] # 0 ~> es.times[e] = 0 \/ raced

=============================================================================

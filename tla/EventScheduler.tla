---------------------------- MODULE EventScheduler ----------------------------
(***************************************************************************)
(* The event scheduler of right/src/event_scheduler.c: one time per event  *)
(* (0 stands for none), and the cached event that comes next.  A value of  *)
(* Scheduler is one record; every operator is one C function, as a         *)
(* function on such records.  EventLoop calls them.                        *)
(*                                                                         *)
(* Times are natural numbers here; the 32-bit clock of the code wraps      *)
(* after 49 days, and a time that is exactly 0 would mean "none".          *)
(***************************************************************************)
EXTENDS Naturals, FiniteSets

CONSTANT Events     \* EventSchedulerEvent_*, numbered

ASSUME EventAssumption == Events \subseteq Nat /\ 0 \in Events

\* bit is EventVector_EventScheduler; wake is the count of mainWakeupSemaphore
\* (at most one).
Scheduler == [times: [Events -> Nat], nextEvent: Events, nextEventAt: Nat,
              bit: BOOLEAN, wake: BOOLEAN]

NothingScheduled == [times |-> [e \in Events |-> 0], nextEvent |-> 0,
                     nextEventAt |-> 0, bit |-> FALSE, wake |-> TRUE]

Planned(s) == {e \in Events: s.times[e] # 0}

\* The loop keeps the first of several events with the same time.
earliest(s) ==
    CHOOSE e \in Planned(s): \A d \in Planned(s):
        s.times[e] < s.times[d] \/ (s.times[e] = s.times[d] /\ e <= d)

\* The cached event stays as it is when there is none left.
scheduleNext(s) ==
    IF Planned(s) = {} THEN [s EXCEPT !.bit = FALSE]
    ELSE LET e == earliest(s)
         IN  [s EXCEPT !.nextEvent = e, !.nextEventAt = s.times[e], !.bit = TRUE]

\* Mutant: Main_Wake is not called.
makeNext_NoWake(s, at, evt) ==
    [s EXCEPT !.nextEvent = evt, !.nextEventAt = at, !.bit = TRUE]

\* What Schedule and Reschedule do to an event that comes before the cached one.
makeNext(s, at, evt) ==
    [s EXCEPT !.nextEvent = evt, !.nextEventAt = at, !.bit = TRUE, !.wake = TRUE]

ComesFirst(s, at) == at < s.nextEventAt \/ ~s.bit

\* Mutant: the cached event is not looked for again when it moves.
Reschedule_KeepsNext(s, at, evt) ==
    LET t == [s EXCEPT !.times[evt] = at]
    IN  IF ComesFirst(t, at) \/ t.nextEvent = evt THEN makeNext(t, at, evt) ELSE t

\* Moves the event, to a later time too.
Reschedule(s, at, evt) ==
    LET moved == [s EXCEPT !.times[evt] = at]
        t == IF s.nextEvent = evt THEN scheduleNext(moved) ELSE moved
    IN  IF ComesFirst(t, at) \/ t.nextEvent = evt THEN makeNext(t, at, evt) ELSE t

\* Keeps the earlier of two times.
Schedule(s, at, evt) ==
    LET t == IF s.times[evt] = 0 \/ at < s.times[evt]
             THEN [s EXCEPT !.times[evt] = at] ELSE s
    IN  IF ComesFirst(t, at) THEN makeNext(t, at, evt) ELSE t

Unschedule(s, evt) ==
    LET t == [s EXCEPT !.times[evt] = 0]
    IN  IF s.nextEvent = evt THEN scheduleNext(t) ELSE t

\* Mutant: an event is taken one tick early.
IsDue_Early(s, time) == s.bit /\ s.nextEventAt <= time + 1

IsDue(s, time) == s.bit /\ s.nextEventAt <= time

\* The next event is taken and the one after it looked for; the last line of
\* scheduleNext, which sets or clears the bit, is yet to come.
takeNext(s) ==
    [scheduleNext([s EXCEPT !.times[s.nextEvent] = 0]) EXCEPT !.bit = s.bit]

=============================================================================

-------------------------------- MODULE Alarms --------------------------------
(***************************************************************************)
(* What the event scheduler of right/src/event_scheduler.h promises to the *)
(* code that calls it: an alarm clock with one alarm per event.  Schedule  *)
(* keeps the earlier of two times, Reschedule replaces the time,           *)
(* Unschedule removes it; an alarm rings once for each time it was set,    *)
(* never early, and never before an alarm that was set for an earlier      *)
(* time.                                                                   *)
(*                                                                         *)
(* The promise is void once another context calls the scheduler while the  *)
(* main loop is between reading and writing its state, see EventLoop.      *)
(***************************************************************************)
EXTENDS Naturals

CONSTANTS
    Events,
    Times       \* the times an alarm may be set for, without 0

VARIABLES
    alarm,      \* for each event the time it is set for, 0 for none
    ringing,    \* the event being processed, if any
    now,
    void

vars == <<alarm, ringing, now, void>>

IsSet(e) == alarm[e] # 0

Init ==
    /\ alarm = [e \in Events |-> 0]
    /\ ringing = {}
    /\ now = 1
    /\ void = FALSE

Set(e, at) ==
    /\ alarm' = [alarm EXCEPT ![e] = IF IsSet(e) /\ @ <= at THEN @ ELSE at]
    /\ UNCHANGED <<ringing, now>>

Move(e, at) ==
    /\ alarm' = [alarm EXCEPT ![e] = at]
    /\ UNCHANGED <<ringing, now>>

Cancel(e) ==
    /\ alarm' = [alarm EXCEPT ![e] = 0]
    /\ UNCHANGED <<ringing, now>>

Ring(e) ==
    /\ ringing = {}
    /\ IsSet(e) /\ alarm[e] <= now
    /\ \A d \in Events: IsSet(d) => alarm[e] <= alarm[d]
    /\ alarm' = [alarm EXCEPT ![e] = 0]
    /\ ringing' = {e}
    /\ now' = now

Silence ==
    /\ ringing # {}
    /\ ringing' = {}
    /\ UNCHANGED <<alarm, now>>

Tick ==
    /\ now' = now + 1
    /\ UNCHANGED <<alarm, ringing>>

Kept ==
    \/ \E e \in Events, at \in Times: Set(e, at) \/ Move(e, at)
    \/ \E e \in Events: Cancel(e) \/ Ring(e)
    \/ Silence
    \/ Tick

Next ==
    /\ void => void'
    /\ void' \/ Kept

Spec == Init /\ [][Next]_vars

=============================================================================

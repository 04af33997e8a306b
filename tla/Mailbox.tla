-------------------------------- MODULE Mailbox --------------------------------
(***************************************************************************)
(* What device/src/messenger_queue.c promises to the code that uses it: a  *)
(* mailbox into which several contexts put messages and from which one     *)
(* takes them, in the order they were put in, each once, and with segments *)
(* of memory that belong to one message at a time.                         *)
(*                                                                         *)
(* A message is the segment that holds it.  The promise is void once two   *)
(* contexts have met in the way MessengerQueue describes.                  *)
(***************************************************************************)
EXTENDS Sequences, FiniteSets

CONSTANT Segments

VARIABLES
    writing,    \* segments given out to producers
    queue,      \* messages put in and not taken out
    reading,    \* the message that was taken out
    void

vars == <<writing, queue, reading, void>>

InQueue == {queue[i]: i \in DOMAIN queue}

Init ==
    /\ writing \subseteq Segments
    /\ queue = <<>>
    /\ reading = {}
    /\ void = FALSE

\* Memory of a message that is queued or being read is never given out.
Allocate(s) ==
    /\ s \notin writing \cup reading \cup InQueue
    /\ writing' = writing \cup {s}
    /\ UNCHANGED <<queue, reading>>

Put(s) ==
    /\ s \in writing
    /\ writing' = writing \ {s}
    /\ queue' = Append(queue, s)
    /\ UNCHANGED reading

Take ==
    /\ queue # <<>> /\ reading = {}
    /\ reading' = {Head(queue)}
    /\ queue' = Tail(queue)
    /\ UNCHANGED writing

Free ==
    /\ reading # {}
    /\ reading' = {}
    /\ UNCHANGED <<writing, queue>>

Kept ==
    \/ \E s \in Segments: Allocate(s) \/ Put(s)
    \/ Take
    \/ Free

Next ==
    /\ void => void'
    /\ void' \/ Kept

Spec == Init /\ [][Next]_vars

=============================================================================

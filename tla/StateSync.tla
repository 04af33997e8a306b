------------------------------ MODULE StateSync ------------------------------
(***************************************************************************)
(* State synchronisation between the halves of the UHK 80 (state_sync.c).  *)
(* Each half marks properties dirty when they change; a thread of its own  *)
(* sends one dirty property after another and sleeps in between.  Links    *)
(* break and come back, and whatever was on its way is lost: a new         *)
(* connection makes both halves send everything again.                     *)
(*                                                                         *)
(* The main loop and the callbacks have a higher priority than the sync    *)
(* thread and may run between any two of its steps, but not the other way  *)
(* round: what they do is one action, what the thread does are several.    *)
(***************************************************************************)
EXTENDS Links, Sequences, FiniteSets, SequencesExt

CONSTANTS
    Available,      \* the media that can work at all
    Synced,         \* the properties that take part, of those below
    MaxChanges      \* how often the world changes: data, module, media, or a refusal

Sends(d) ==
    IF d = "Right"
      THEN <<"Reset", "Config", "PowerMode", "FunctionalColors", "Layer",
             "ActiveKeymap", "ActiveLayer", "Backlight">>
      ELSE <<"Reset", "HalfState", "ModuleState", "ModuleGone", "MergeSensor",
             "Battery">>

\* Sent only while the keys of the right half are lit.
Gated == {"PowerMode", "FunctionalColors", "Layer", "ActiveKeymap", "ActiveLayer"}

\* What a half marks dirty when the link is reset.
ResetBy(d) ==
    IF d = "Right"
      THEN {"Config", "Layer", "ActiveLayer", "Backlight", "FunctionalColors",
            "PowerMode"}
      ELSE {"Battery", "HalfState", "ModuleState", "MergeSensor"}

Properties == ToSet(Sends("Left")) \cup ToSet(Sends("Right"))
Events == {"Reset", "ModuleGone"}          \* messages without data
Data == Synced \ Events
SourceOf(p) == IF p \in ToSet(Sends("Right")) THEN "Right" ELSE "Left"

\* A layer does not fit into one packet.
Parts(p) == IF p = "Layer" THEN 1..2 ELSE {1}

\* Nothing in the firmware marks the active keymap dirty.
ASSUME SyncAssumption ==
    /\ Available \subseteq Media
    /\ Synced \subseteq Properties \ {"ActiveKeymap"} /\ "Reset" \in Synced
    /\ "ModuleGone" \in Synced <=> "ModuleState" \in Synced
    /\ MaxChanges \in Nat

VARIABLES
    up,         \* the media that work
    link,       \* per half, see Links
    dirty,      \* per half, the properties with dirtyState # Clean
    thread,     \* per half, the sync thread
    fly,        \* per half and medium, the packets it has sent, oldest first
    mine,       \* the data at its source
    copy,       \* the data at the other half, per part
    listed,     \* ModuleConnectionStates of the left half names its module
    missed,     \* per half, a wake-up came between the last look and the sleep
    changes,    \* how often the world has changed
    tangled     \* what may have confused the other half, see NothingForgotten

vars == <<up, link, dirty, thread, fly, mine, copy, listed, missed, changes, tangled>>

NoPacket == [via |-> "none", prop |-> "Reset", part |-> 1, val |-> 0]
Packets == [via : Media, prop : Synced, part : 1..2, val : 0..1]
Looking == [pc |-> "look", prop |-> "Reset", part |-> 1, packet |-> NoPacket]
Steps == {"look", "send", "wait", "stuck", "drowsy", "asleep"}

TypeOK ==
    /\ up \in SUBSET Available
    /\ \A d \in Devices :
         /\ link[d].open \in SUBSET Media
         /\ link[d].via \in Routes
         /\ \A m \in Media : link[d].free[m] \in 0..Slots(d, m)
         /\ dirty[d] \in SUBSET (Synced \cap ToSet(Sends(d)))
         /\ thread[d].pc \in Steps
         /\ thread[d].prop \in Synced
         /\ thread[d].packet \in Packets \cup {NoPacket}
         /\ \A m \in Media : fly[d][m] \in Seq(Packets)
    /\ mine \in [Data -> 0..1]
    /\ \A p \in Data : copy[p] \in [Parts(p) -> 0..1]
    /\ listed \in 0..1
    /\ missed \in [Devices -> BOOLEAN]
    /\ changes \in 0..MaxChanges
    /\ tangled \in SUBSET {"media", "module", "refused"}

Init ==
    /\ up \in SUBSET Available
    /\ link = [d \in Devices |-> Unlinked(d)]
    /\ dirty = [d \in Devices |-> {}]
    /\ thread = [d \in Devices |-> Looking]
    /\ fly = [d \in Devices |-> [m \in Media |-> <<>>]]
    /\ mine = [p \in Data |-> IF p = "Backlight" THEN 1 ELSE 0]
    /\ copy = [p \in Data |-> [i \in Parts(p) |-> 0]]
    /\ listed = 0
    /\ missed = [d \in Devices |-> FALSE]
    /\ changes = 0
    /\ tangled = {}

-----------------------------------------------------------------------------
(* Marking properties dirty.                                               *)

KeepDirty == UNCHANGED <<dirty, thread, missed>>

\* Mutant: the thread is not woken.
invalidate_NoWake(d, props, t) ==
    /\ dirty' = [dirty EXCEPT ![d] = @ \cup (props \cap Synced)]
    /\ thread' = t
    /\ UNCHANGED missed

\* invalidateProperty.  k_wakeup does nothing to a thread that is not asleep.
wake(d, t) == IF t[d].pc = "asleep" THEN [t EXCEPT ![d].pc = "look"] ELSE t

invalidate(d, props, t) ==
    /\ dirty' = [dirty EXCEPT ![d] = @ \cup (props \cap Synced)]
    /\ thread' = wake(d, t)
    /\ missed' = [missed EXCEPT ![d] =
         t[d].pc = "drowsy" \/ (@ /\ t[d].pc # "asleep")]

\* StateSync_ResetRightLeftLink(bidirectional)
ResetRightLeftLink(d, bidirectional) ==
    ResetBy(d) \cup (IF bidirectional THEN {"Reset"} ELSE {})

\* handleStateTransition: a new connection, or another medium, resets the
\* link; the right half forgets the module of a left half that is gone.
handleStateTransition(d, new, t) ==
    /\ IF Connects(link[d], new)
         THEN invalidate(d, ResetRightLeftLink(d, TRUE), t)
         ELSE thread' = t /\ UNCHANGED <<dirty, missed>>
    /\ copy' = IF d = "Right" /\ "ModuleState" \in Data /\ Disconnects(link[d], new)
                 THEN [copy EXCEPT !["ModuleState"] = [i \in {1} |-> 0]]
                 ELSE copy

\* The thread waits for a semaphore that is made anew: k_sem_init drops the
\* list of those who wait.
stranded(d, m) ==
    IF thread[d].pc = "wait" /\ thread[d].packet.via = m
      THEN [thread EXCEPT ![d].pc = "stuck"]
      ELSE thread

-----------------------------------------------------------------------------
(* The world: data changes, links break and come back.                     *)

\* StateSync_UpdateProperty or StateSync_UpdateLayer after a change.
Update(p) ==
    /\ p \in Data \ {"ModuleState"}
    /\ mine' = [mine EXCEPT ![p] = 1 - @]
    /\ invalidate(SourceOf(p), {p}, thread)
    /\ UNCHANGED <<up, link, fly, copy, listed, tangled>>

\* UsbCommand_ApplyConfig: everything is new.  UsbCommand_ApplyFactory asks the
\* other half for its part as well.
ApplyConfig(bidirectional) ==
    /\ mine' = [p \in Data |-> IF SourceOf(p) = "Right" /\ p # "Backlight"
                                THEN 1 - mine[p] ELSE mine[p]]
    /\ invalidate("Right", ResetRightLeftLink("Right", bidirectional), thread)
    /\ UNCHANGED <<up, link, fly, copy, listed, tangled>>

\* The handshake with a module of the left half is complete.
ModuleAttached ==
    /\ "ModuleState" \in Data
    /\ mine["ModuleState"] = 0
    /\ mine' = [mine EXCEPT !["ModuleState"] = 1]
    /\ listed' = 1
    /\ invalidate("Left", {"ModuleState"}, thread)
    /\ tangled' = tangled \cup {x \in {"module"} : "ModuleGone" \in dirty["Left"]}
    /\ UNCHANGED <<up, link, fly, copy>>

\* UhkModuleSlaveDriver_Disconnect tells nobody yet ...
ModuleDetached ==
    /\ "ModuleState" \in Data
    /\ mine["ModuleState"] = 1
    /\ mine' = [mine EXCEPT !["ModuleState"] = 0]
    /\ UNCHANGED <<up, link, dirty, thread, fly, copy, listed, missed, tangled>>

\* ... updateModuleConnectionStatus does, MODULE_CONNECTION_TIMEOUT later.
ModuleUnlisted ==
    /\ listed = 1
    /\ mine["ModuleState"] = 0
    /\ listed' = 0
    /\ invalidate("Left", {"ModuleGone"}, thread)
    /\ UNCHANGED <<up, link, fly, mine, copy, changes, tangled>>

\* The halves are pulled apart or get out of range.  What UART has sent is
\* off its hands; the Bluetooth stack keeps what nobody acknowledges.
Break(m) ==
    /\ m \in up
    /\ up' = up \ {m}
    /\ fly' = [d \in Devices |-> [fly[d] EXCEPT ![m] = <<>>]]
    /\ link' = IF m = "bt" THEN link
               ELSE [d \in Devices |-> [link[d] EXCEPT !.free[m] = Slots(d, m)]]
    /\ UNCHANGED <<dirty, thread, mine, copy, listed, missed, tangled>>

\* Both halves have noticed before the medium comes back.
Restore(m) ==
    /\ m \in Available \ up
    /\ \A d \in Devices : m \notin link[d].open
    /\ up' = up \cup {m}
    /\ UNCHANGED <<link, dirty, thread, fly, mine, copy, listed, missed, tangled>>

\* The left half learns that Bluetooth works from the first message it gets.
Connect(d, m) ==
    /\ m \in up \ link[d].open
    /\ m = "bt" => d = "Right"
    /\ LET new == SetConnected(link[d], m) IN
         /\ link' = [link EXCEPT ![d] = new]
         /\ handleStateTransition(d, new, thread)
    /\ UNCHANGED <<up, fly, mine, listed, changes, tangled>>

\* When a connection is lost the stack reports what a client could not send
\* as failed; it may forget the notifications of a server.  UART always ends
\* its transmission.
HandsBack(d, m) == IF d = "Left" /\ m = "bt" THEN BOOLEAN ELSE {TRUE}

\* disconnected(), or no ping for UART_TIMEOUT.  What is handed back lets a
\* thread that waits through.
Notice(d, m, handedBack) ==
    /\ m \in link[d].open \ up
    /\ LET new == SetDisconnected(link[d], d, m) IN
         /\ link' = [link EXCEPT ![d] = new]
         /\ handleStateTransition(d, new, IF handedBack THEN thread ELSE stranded(d, m))
    /\ UNCHANGED <<up, fly, mine, listed, changes, tangled>>

-----------------------------------------------------------------------------
(* The sync thread of half d.                                              *)

Dark == "Backlight" \in Data /\ mine["Backlight"] = 0

\* handlePropertyUpdate...: the first dirty property in the order of sending.
Sendable(d) ==
    {p \in dirty[d] : ~(Dark /\ p \in Gated)}

First(d) ==
    LET s == Sends(d) IN
    s[CHOOSE i \in DOMAIN s :
        s[i] \in Sendable(d) /\ \A j \in 1..(i - 1) : s[j] \notin Sendable(d)]

\* prepareData: the property is clean before its data is read.
Look(d) ==
    /\ thread[d].pc = "look"
    /\ IF link[d].via = "none" \/ Sendable(d) = {}
         THEN /\ thread' = [thread EXCEPT ![d].pc = "drowsy"]
              /\ UNCHANGED dirty
         ELSE /\ thread' = [thread EXCEPT ![d].pc = "send", ![d].prop = First(d)]
              /\ dirty' = [dirty EXCEPT ![d] = @ \ {First(d)}]
    /\ UNCHANGED <<up, link, fly, mine, copy, listed, missed, changes, tangled>>

\* One more packet of the property, or the next look after STATE_SYNC_SEND_DELAY.
nextPacket(d) ==
    IF thread[d].part + 1 \in Parts(thread[d].prop)
      THEN [thread EXCEPT ![d].pc = "send", ![d].part = @ + 1, ![d].packet = NoPacket]
      ELSE [thread EXCEPT ![d] = Looking]

Packet(d) ==
    LET p == thread[d].prop IN
    [via |-> determineChannel(link[d].open), prop |-> p, part |-> thread[d].part,
     val |-> IF p \in Data THEN mine[p] ELSE 0]

\* The Bluetooth stack may refuse a packet although it is connected: the slot is
\* given back and nobody sends the packet again.
refuse(d, packet) ==
    /\ changes < MaxChanges
    /\ packet.via = "bt" /\ "bt" \in link[d].open
    /\ changes' = changes + 1
    /\ tangled' = tangled \cup {"refused"}
    /\ UNCHANGED <<link, fly>>

\* The slot is taken.  The stack refuses to send without connection; what it
\* accepts although the other half is gone is lost.
accept(d, packet) ==
    LET m == packet.via
        refused == m = "bt" /\ m \notin link[d].open
    IN /\ link' = IF refused \/ (m = "uart" /\ m \notin up) THEN link
                  ELSE [link EXCEPT ![d] = Take(@, m)]
       /\ fly' = IF refused \/ m \notin up THEN fly
                 ELSE [fly EXCEPT ![d][m] = Append(@, packet)]
       /\ UNCHANGED <<changes, tangled>>

transmit(d, packet) ==
    /\ accept(d, packet) \/ refuse(d, packet)
    /\ thread' = nextPacket(d)

\* submitPreparedData, Messenger_SendMessage: without a medium the packet is
\* dropped, without a free slot the thread waits in k_sem_take.
Send(d) ==
    /\ thread[d].pc = "send"
    /\ LET packet == Packet(d) m == packet.via IN
         CASE m = "none" -> thread' = nextPacket(d) /\ UNCHANGED <<link, fly, changes, tangled>>
           [] m # "none" /\ link[d].free[m] > 0 -> transmit(d, packet)
           [] OTHER -> /\ thread' = [thread EXCEPT ![d].pc = "wait", ![d].packet = packet]
                       /\ UNCHANGED <<link, fly, changes, tangled>>
    /\ UNCHANGED <<up, dirty, mine, copy, listed, missed>>

\* Mutant: the property is clean once it is sent.
Resume_Cleans(d) ==
    /\ thread[d].pc = "wait"
    /\ link[d].free[thread[d].packet.via] > 0
    /\ transmit(d, thread[d].packet)
    /\ dirty' = [dirty EXCEPT ![d] = @ \ {thread[d].prop}]
    /\ UNCHANGED <<up, mine, copy, listed, missed>>

Resume(d) ==
    /\ thread[d].pc = "wait"
    /\ link[d].free[thread[d].packet.via] > 0
    /\ transmit(d, thread[d].packet)
    /\ UNCHANGED <<up, dirty, mine, copy, listed, missed>>

Sleep(d) ==
    /\ thread[d].pc = "drowsy"
    /\ thread' = [thread EXCEPT ![d].pc = "asleep"]
    /\ UNCHANGED <<up, link, dirty, fly, mine, copy, listed, missed, changes, tangled>>

-----------------------------------------------------------------------------
(* A packet of half d arrives at the other half and is acted on there; the *)
(* sender is told that it is sent.                                         *)

\* receiveProperty
received(packet) ==
    CASE packet.prop \in Data ->
           [copy EXCEPT ![packet.prop][packet.part] = packet.val]
      [] packet.prop = "ModuleGone" ->
           [copy EXCEPT !["ModuleState"] = [i \in {1} |-> 0]]
      [] OTHER -> copy

Deliver(d, m) ==
    /\ fly[d][m] # <<>>
    /\ LET e == Other(d)
           packet == Head(fly[d][m])
           heard == IF m = "bt" /\ e = "Left" THEN SetConnected(link[e], m) ELSE link[e]
           reset == packet.prop = "Reset"
       IN /\ fly' = [fly EXCEPT ![d][m] = Tail(@)]
          /\ link' = [link EXCEPT ![e] = heard, ![d] = Give(@, d, m)]
          /\ IF Connects(link[e], heard) \/ reset
               THEN invalidate(e, ResetRightLeftLink(e, Connects(link[e], heard)), thread)
               ELSE KeepDirty
          /\ copy' = received(packet)
    /\ tangled' = tangled \cup {x \in {"media"} : \E n \in Media \ {m} : fly[d][n] # <<>>}
    /\ UNCHANGED <<up, mine, listed, changes>>

-----------------------------------------------------------------------------
World ==
    /\ changes < MaxChanges
    /\ changes' = changes + 1
    /\ \/ \E p \in Data : Update(p)
       \/ \E bidirectional \in BOOLEAN : ApplyConfig(bidirectional)
       \/ ModuleAttached \/ ModuleDetached
       \/ \E m \in Media : Break(m) \/ Restore(m)

Callbacks ==
    \/ ModuleUnlisted
    \/ \E d \in Devices, m \in Media :
         \/ Connect(d, m)
         \/ \E handedBack \in HandsBack(d, m) : Notice(d, m, handedBack)
         \/ Deliver(d, m)

SyncThread(d) == Look(d) \/ Send(d) \/ Resume(d) \/ Sleep(d)

\* What the threads and the callbacks do when the world lets them.
System == (\E d \in Devices : SyncThread(d)) \/ Callbacks

Next == World \/ System

Spec == Init /\ [][Next]_vars

\* As long as the threads and the callbacks have something to do, one of them
\* does it, be it which it may: all steps but the world's and a refusal leave
\* changes alone.  (WF_vars(System), in a form that TLC checks faster.)
FairSpec == Spec /\ ([]<>~ENABLED System \/ []<><<UNCHANGED changes>>_vars)

-----------------------------------------------------------------------------
(* Properties.                                                             *)

CopyOK(p) == \A i \in Parts(p) : copy[p][i] = mine[p]

\* Half d has p (or the part i of it) still to send, or on its way.
Sending(d, p) ==
    \/ p \in dirty[d]
    \/ thread[d].prop = p /\ thread[d].pc \in {"send", "wait", "stuck"}
    \/ \E m \in Media : \E k \in DOMAIN fly[d][m] : fly[d][m][k].prop = p

\* Half e will reset the link when it notices what has become of its medium.
\* The left half is told of Bluetooth only by a message.
WillReset(e) == link[e].via \in Media \ up \/ (e = "Right" /\ link[e].via = "none")

\* Whatever the other half shows wrongly is still to be sent, on its way, or
\* asked for by a reset that is - unless the medium is broken, or packets of
\* two media were under way at once, or a module came back before its
\* absence was sent, or the Bluetooth stack refused a packet while connected.
NothingForgotten ==
    tangled = {} =>
      \A p \in Data : LET d == SourceOf(p) e == Other(d) IN
        link[d].via \in up /\ ~CopyOK(p) /\ (p = "ModuleState" => listed = mine[p])
          => Sending(d, p) \/ Sending(e, "Reset") \/ (p = "ModuleState" /\ Sending(d, "ModuleGone"))
             \/ WillReset(e)

\* The sync thread sleeps only if it has nothing to send, unless it missed a
\* wake-up between its last look and its sleep.
SleepsWhenDone ==
    \A d \in Devices :
      thread[d].pc = "asleep" /\ link[d].via # "none" /\ ~missed[d]
        => Sendable(d) = {}

\* No thread waits for a semaphore that was made anew.
NeverStranded == \A d \in Devices : thread[d].pc # "stuck"

InSync ==
    /\ \A p \in Data : CopyOK(p)
    /\ \A d \in Devices : dirty[d] = {} /\ \A m \in Media : fly[d][m] = <<>>

\* Once nothing changes any more, a link is left and nothing has gone wrong
\* as named above, both halves agree and say no more.
Converges ==
    <>[](up # {} /\ tangled = {} /\ ~Dark /\ NeverStranded
              /\ \A d \in Devices : ~missed[d])
      => <>[]InSync
=============================================================================
